--------------------------- MODULE GovernanceProofs ---------------------------
(***************************************************************************)
(* What sharing promises, by how much the limits on runs are passed, and   *)
(* what holds of accounts, of an organization's members and of a family of *)
(* workflows, for any number of people, rows and requests at once.         *)
(***************************************************************************)
EXTENDS MCGovernance, FiniteSetTheorems, TLAPS

-----------------------------------------------------------------------------
(* Shared runs: invitations, shares and the limits on runs.                *)

Invite == [id : Nat, guest : Guests, status : {"pending", "accepted"}, lapsed : BOOLEAN]
Share == [id : Nat, guest : Guests, active : BOOLEAN]
Run == [id : Nat, by : Guests \cup {Member}, status : {"queued", "running", "done"}, tried : BOOLEAN]
Request == [at : {"idle", "accept", "quota", "create", "enqueue", "usage", "undo", "events"},
            user : Guests \cup {Member, None}, share : Nat, run : Nat]

(* A request is of a guest who accepts, or of one who may start runs.        *)
ReqTyped ==
    /\ req \in [Slots -> Request]
    /\ \A s \in Slots :
          /\ At(s, "accept") => req[s].user \in Guests
          /\ req[s].at \in {"quota", "create"} => req[s].user \in Guests \cup {Member}
SharesTyped ==
    /\ invites \subseteq Invite /\ IsFiniteSet(invites)
    /\ shares \subseteq Share
RunsTyped ==
    /\ runs \subseteq Run /\ IsFiniteSet(runs)
    /\ drawn \in Nat /\ used \in Nat /\ lost \in Nat

(* Invitations are numbered, and those accepted are marked so.               *)
InvitesNumbered ==
    /\ \A i \in invites : i.id \in 1..Cardinality(invites)
    /\ \A i, j \in invites : i.id = j.id => i = j
AcceptedMarked == \A a \in accepted : \E i \in invites : i.id = a[1] /\ i.status = "accepted"

SharesInv ==
    /\ SharesTyped /\ InvitesNumbered /\ AcceptedMarked
    /\ OneActiveShare /\ InvitationsServeOnce /\ SharesShowOwnRuns

(* Requests past the check, before and after their run was created.          *)
Creating == {s \in Slots : At(s, "create")}
Busy == {s \in Slots : req[s].at \in {"enqueue", "usage", "undo"}}
RefusedRuns == {r \in runs : r.id \in refused}

RunsNumbered ==
    /\ \A r \in runs : r.id \in 1..drawn
    /\ \A r, x \in runs : r.id = x.id => r = x
    /\ refused \subseteq 1..drawn
EachItsRun ==
    /\ \A s \in Busy : req[s].run \notin refused /\ \E r \in runs : r.id = req[s].run
    /\ \A s, t \in Busy : req[s].run = req[t].run => s = t

(* Every run is counted, lost, refused, or of a request that still works on  *)
(* it; and what the limits let pass is what they leave room for, and one     *)
(* less than all requests at once.                                           *)
RunsAccounted == Cardinality(runs) <= used + lost + Cardinality(RefusedRuns) + Cardinality(Busy)
MonthFits == used + Cardinality(Creating) + Cardinality(Busy) <= MonthlyLimit + Cardinality(Slots) - 1
InFlightFits == Cardinality(InFlight) + Cardinality(Creating) <= InflightLimit + Cardinality(Slots) - 1

CountInv == RunsTyped /\ RunsNumbered /\ EachItsRun /\ RunsAccounted /\ MonthFits /\ InFlightFits

IInv == ReqTyped /\ SharesInv /\ CountInv

-----------------------------------------------------------------------------
(* Lemmas about the slots.                                                   *)

(* A request that moves on leaves the others where they are.                 *)
LEMMA SlotMoves ==
    ASSUME ReqTyped, NEW s \in Slots, NEW q, req' = [req EXCEPT ![s] = q]
    PROVE  /\ req'[s] = q /\ \A t \in Slots : t # s => req'[t] = req[t]
           /\ Creating' = IF q.at = "create" THEN Creating \cup {s} ELSE Creating \ {s}
           /\ Busy' = IF q.at \in {"enqueue", "usage", "undo"} THEN Busy \cup {s} ELSE Busy \ {s}
<1>1. req'[s] = q /\ \A t \in Slots : t # s => req'[t] = req[t]
  BY DEF ReqTyped
<1> QED
  BY <1>1 DEF Creating, Busy, At

(* Slots of two kinds are no more than all of them.                          *)
LEMMA DisjointCounts ==
    ASSUME NEW C \in SUBSET Slots, NEW B \in SUBSET Slots, C \cap B = {}
    PROVE  /\ IsFiniteSet(C) /\ IsFiniteSet(B) /\ Cardinality(C) \in Nat /\ Cardinality(B) \in Nat
           /\ Cardinality(Slots) \in Nat /\ Cardinality(C) + Cardinality(B) <= Cardinality(Slots)
<1>1. IsFiniteSet(C) /\ IsFiniteSet(B) /\ IsFiniteSet(C \cup B)
  BY SlotsAssumption, FS_Subset
<1>2. Cardinality(C \cup B) = Cardinality(C) + Cardinality(B) - Cardinality(C \cap B)
  BY <1>1, FS_Union
<1>3. Cardinality(C \cap B) = 0
  BY FS_EmptySet
<1>4. Cardinality(C \cup B) <= Cardinality(Slots)
  BY SlotsAssumption, FS_Subset
<1> QED
  BY <1>1, <1>2, <1>3, <1>4, SlotsAssumption, FS_CardinalityType

(* No request is both before its run and after it.                           *)
LEMMA SlotCounts ==
    /\ IsFiniteSet(Creating) /\ IsFiniteSet(Busy)
    /\ Cardinality(Creating) \in Nat /\ Cardinality(Busy) \in Nat /\ Cardinality(Slots) \in Nat
    /\ Cardinality(Creating) + Cardinality(Busy) <= Cardinality(Slots)
BY DisjointCounts DEF Creating, Busy, At

(* A row that takes another's place in a finite table.                       *)
LEMMA ReplaceCounts ==
    ASSUME NEW S, IsFiniteSet(S), NEW r \in S, NEW x, x \notin S \ {r}
    PROVE  /\ IsFiniteSet((S \ {r}) \cup {x})
           /\ Cardinality((S \ {r}) \cup {x}) = Cardinality(S)
<1>1. IsFiniteSet(S \ {r}) /\ Cardinality(S \ {r}) = Cardinality(S) - 1
  BY FS_RemoveElement
<1>2. /\ IsFiniteSet((S \ {r}) \cup {x})
      /\ Cardinality((S \ {r}) \cup {x}) = Cardinality(S \ {r}) + 1
  BY <1>1, FS_AddElement
<1> QED
  BY <1>1, <1>2, FS_CardinalityType

-----------------------------------------------------------------------------
(* Requests keep their types.                                                *)
LEMMA InitIInv == Init => IInv
<1> SUFFICES ASSUME Init PROVE IInv
  OBVIOUS
<1>1. ReqTyped
  BY DEF Init, Idle, ReqTyped, Request, At
<1>2. IsFiniteSet({}) /\ Cardinality({}) = 0
  BY FS_EmptySet
<1>3. SharesInv
  BY <1>2 DEF Init, SharesInv, SharesTyped, InvitesNumbered, AcceptedMarked, OneActiveShare,
              InvitationsServeOnce, SharesShowOwnRuns
<1>4. Creating = {} /\ Busy = {} /\ RefusedRuns = {} /\ InFlight = {}
  BY DEF Init, Idle, Creating, Busy, At, RefusedRuns, InFlight
<1>5. Cardinality(Slots) \in Nat /\ Cardinality(Slots) # 0
  BY SlotsAssumption, FS_CardinalityType, FS_EmptySet
<1>6. CountInv
  BY <1>2, <1>4, <1>5, LimitsAssumption
     DEF Init, CountInv, RunsTyped, RunsNumbered, EachItsRun, RunsAccounted, MonthFits, InFlightFits
<1> QED
  BY <1>1, <1>3, <1>6 DEF IInv

LEMMA ReqStaysTyped ==
    ASSUME ReqTyped, NEW s \in Slots, NEW q \in Request, req' = [req EXCEPT ![s] = q],
           q.at = "accept" => q.user \in Guests,
           q.at \in {"quota", "create"} => q.user \in Guests \cup {Member}
    PROVE  ReqTyped'
BY DEF ReqTyped, At

(* Every action leaves the requests typed.                                   *)
LEMMA NextReqTyped == IInv /\ [Next]_vars => ReqTyped'
<1> SUFFICES ASSUME IInv, [Next]_vars PROVE ReqTyped'
  OBVIOUS
<1> USE DEF Go, End
<1>0. ReqTyped /\ SharesTyped /\ RunsTyped /\ Idle \in Request /\ Idle.at = "idle"
  BY DEF IInv, SharesInv, CountInv, Idle, Request
<1>1. req' = req => ReqTyped'
  BY <1>0 DEF ReqTyped, At
<1>2. ASSUME NEW s \in Slots, End(s) PROVE ReqTyped'
  BY <1>0, <1>2, ReqStaysTyped
<1>3. ASSUME NEW s \in Slots, NEW i \in invites, readInvitation(s, i) PROVE ReqTyped'
  <2>1. [Idle EXCEPT !.at = "accept", !.user = i.guest, !.share = i.id] \in Request
    BY <1>0 DEF Idle, Request, SharesTyped, Invite
  <2> QED
    BY <1>0, <1>3, <2>1, ReqStaysTyped DEF readInvitation, Idle, SharesTyped, Invite
<1>4. ASSUME NEW s \in Slots, memberRun(s) PROVE ReqTyped'
  <2>1. [Idle EXCEPT !.at = "quota", !.user = Member] \in Request
    BY DEF Idle, Request
  <2> QED
    BY <1>0, <1>4, <2>1, ReqStaysTyped DEF memberRun, Idle
<1>5. ASSUME NEW s \in Slots, NEW g \in Guests, NEW h \in shares, shareRun(s, g, h) PROVE ReqTyped'
  <2>1. [Idle EXCEPT !.at = "quota", !.user = g, !.share = h.id] \in Request
    BY <1>0 DEF Idle, Request, SharesTyped, Share
  <2> QED
    BY <1>0, <1>5, <2>1, ReqStaysTyped DEF shareRun, Idle
<1>6. ASSUME NEW s \in Slots, assertOrganizationRunQuota(s) PROVE ReqTyped'
  <2>1. [req[s] EXCEPT !.at = "create"] \in Request /\ req[s].user \in Guests \cup {Member}
    BY <1>0, <1>6 DEF assertOrganizationRunQuota, At, ReqTyped, Request
  <2> QED
    BY <1>0, <1>2, <1>6, <2>1, ReqStaysTyped DEF assertOrganizationRunQuota, ReqTyped, Request
<1>7. ASSUME NEW s \in Slots, createWorkflowRun(s) PROVE ReqTyped'
  <2>0. req[s] \in Request /\ drawn + 1 \in Nat
    BY <1>0 DEF ReqTyped, RunsTyped
  <2>1. [req[s] EXCEPT !.at = "enqueue", !.run = drawn + 1] \in Request
    BY <2>0 DEF Request
  <2>2. [req[s] EXCEPT !.at = "enqueue", !.run = drawn + 1].at = "enqueue"
    BY <1>0 DEF ReqTyped, Request
  <2> QED
    BY <1>0, <1>7, <2>1, <2>2, ReqStaysTyped DEF createWorkflowRun
<1>8. ASSUME NEW s \in Slots, enqueueWorkflowRun(s) \/ enqueueFails(s) PROVE ReqTyped'
  <2>1. \A to \in {"usage", "undo"} :
            [req[s] EXCEPT !.at = to] \in Request /\ [req[s] EXCEPT !.at = to].at = to
    BY <1>0 DEF ReqTyped, Request
  <2>2. \E to \in {"usage", "undo"} : req' = [req EXCEPT ![s] = [req[s] EXCEPT !.at = to]]
    BY <1>8 DEF enqueueWorkflowRun, enqueueFails
  <2> QED
    BY <1>0, <2>1, <2>2, ReqStaysTyped
<1>9. ASSUME NEW s \in Slots, NEW g \in Guests, NEW h \in shares, NEW r \in runs,
             readEvents(s, g, h, r)
      PROVE  ReqTyped'
  <2>1. [Idle EXCEPT !.at = "events", !.user = g, !.share = h.id, !.run = r.id] \in Request
    BY <1>0 DEF Idle, Request, SharesTyped, Share, RunsTyped, Run
  <2> QED
    BY <1>0, <1>9, <2>1, ReqStaysTyped DEF readEvents, Idle
<1>10. ASSUME NEW s \in Slots,
              \/ acceptWorkflowShareInvitation(s) \/ undoRun(s) \/ recordOrganizationRunUsage(s)
              \/ usageFails(s) \/ listWorkflowRunEventsForShareUser(s)
       PROVE  ReqTyped'
  BY <1>2, <1>10 DEF acceptWorkflowShareInvitation, undoRun, recordOrganizationRunUsage, usageFails,
                     listWorkflowRunEventsForShareUser
<1>11. CASE \/ \E g \in Guests : createWorkflowShareInvitation(g)
            \/ \E i \in invites : inviteLapses(i)
            \/ \E h \in shares : revokeWorkflowShare(h)
            \/ upsertOrganizationSubscription
            \/ \E g \in Guests, h \in shares : listWorkflowRunsForShareUser(g, h)
            \/ \E r \in runs : workerSteps(r)
            \/ UNCHANGED vars
  BY <1>1, <1>11 DEF createWorkflowShareInvitation, inviteLapses, revokeWorkflowShare,
       upsertOrganizationSubscription, listWorkflowRunsForShareUser, workerSteps, vars
<1> QED
  BY <1>3, <1>4, <1>5, <1>6, <1>7, <1>8, <1>9, <1>10, <1>11 DEF Next

-----------------------------------------------------------------------------
(* Sharing.                                                                  *)

(* An invitation that lapses or is accepted keeps its number and its guest.  *)
LEMMA InviteChanges ==
    ASSUME SharesInv, NEW i \in invites, NEW j \in Invite, j.id = i.id,
           j.status = i.status \/ j.status = "accepted",
           invites' = (invites \ {i}) \cup {j}
    PROVE  /\ invites' \subseteq Invite /\ IsFiniteSet(invites') /\ InvitesNumbered'
           /\ \A a \in accepted : \E k \in invites' : k.id = a[1] /\ k.status = "accepted"
           /\ j \in invites'
<1>1. SharesTyped /\ InvitesNumbered /\ AcceptedMarked
  BY DEF SharesInv
<1>2. j \notin invites \ {i}
  BY <1>1 DEF InvitesNumbered
<1>3. IsFiniteSet(invites') /\ Cardinality(invites') = Cardinality(invites)
  BY <1>1, <1>2, ReplaceCounts DEF SharesTyped
<1>4. InvitesNumbered'
  BY <1>1, <1>3 DEF InvitesNumbered
<1>5. ASSUME NEW a \in accepted
      PROVE  \E k \in invites' : k.id = a[1] /\ k.status = "accepted"
  <2>1. PICK k \in invites : k.id = a[1] /\ k.status = "accepted"
    BY <1>1 DEF AcceptedMarked
  <2>2. CASE k = i
    BY <2>1, <2>2
  <2>3. CASE k # i
    BY <2>1, <2>3
  <2> QED
    BY <2>2, <2>3
<1> QED
  BY <1>1, <1>3, <1>4, <1>5 DEF SharesTyped

(* Shares and invitations that a step leaves alone.                          *)
LEMMA SharesStay ==
    ASSUME SharesInv, UNCHANGED shareVars, shown' = {}
    PROVE  SharesInv'
BY DEF SharesInv, shareVars, SharesTyped, InvitesNumbered, AcceptedMarked, OneActiveShare,
       InvitationsServeOnce, SharesShowOwnRuns

(* Whoever accepts has one active share afterwards, and nobody else's change. *)
LEMMA AcceptKeepsShares ==
    ASSUME SharesInv, ReqTyped, NEW s \in Slots, acceptWorkflowShareInvitation(s)
    PROVE  SharesInv'
<1>0. SharesTyped /\ InvitesNumbered /\ AcceptedMarked /\ req[s] \in Request /\ shown' = {}
      /\ req[s].user \in Guests /\ req[s].share \in Nat
  BY DEF SharesInv, ReqTyped, Request, acceptWorkflowShareInvitation, SharesShowOwnRuns
<1>1. CASE Pending(s) = {}
  BY <1>0, <1>1, SharesStay
     DEF acceptWorkflowShareInvitation, markWorkflowShareInvitationAccepted, shareVars
<1>2. ASSUME NEW i \in Pending(s) PROVE SharesInv'
  <2> DEFINE j == [i EXCEPT !.status = "accepted"]
             new == [id |-> req[s].share, guest |-> req[s].user, active |-> TRUE]
  <2>1. i \in invites /\ i.id = req[s].share /\ i.status = "pending"
    BY DEF Pending
  <2>2. Pending(s) = {i}
    BY <1>0, <2>1 DEF Pending, InvitesNumbered
  <2>3. /\ invites' = (invites \ {i}) \cup {j}
        /\ accepted' = accepted \cup {<<req[s].share, Cardinality(accepted)>>}
        /\ shares' = {IF h.guest = req[s].user THEN [h EXCEPT !.active = FALSE] ELSE h : h \in shares}
                      \cup {new}
    BY <2>2 DEF acceptWorkflowShareInvitation, markWorkflowShareInvitationAccepted, createWorkflowShare
  <2>4. j \in Invite /\ j.id = i.id /\ j.status = "accepted"
    BY <1>0, <2>1 DEF SharesTyped, Invite
  <2>5. /\ invites' \subseteq Invite /\ IsFiniteSet(invites') /\ InvitesNumbered'
        /\ \A a \in accepted : \E k \in invites' : k.id = a[1] /\ k.status = "accepted"
        /\ j \in invites'
    BY <2>1, <2>3, <2>4, InviteChanges
  <2>6. AcceptedMarked'
    <3>1. \A a \in accepted' : a \in accepted \/ a[1] = j.id
      BY <2>1, <2>3, <2>4
    <3> QED
      BY <2>4, <2>5, <3>1 DEF AcceptedMarked
  <2>7. \A a \in accepted : a[1] # req[s].share
    BY <1>0, <2>1 DEF AcceptedMarked, InvitesNumbered
  <2>8. InvitationsServeOnce'
    BY <2>3, <2>7 DEF InvitationsServeOnce, SharesInv
  <2>9. new \in Share
    BY <1>0 DEF Share
  <2>10. \A h \in shares : [h EXCEPT !.active = FALSE] \in Share
                            /\ [h EXCEPT !.active = FALSE].active = FALSE
    BY <1>0 DEF SharesTyped, Share
  <2>11. shares' \subseteq Share
    BY <1>0, <2>3, <2>9, <2>10 DEF SharesTyped
  <2>12. \A h \in shares' : h.active => h = new \/ (h \in shares /\ h.guest # req[s].user)
    BY <2>3, <2>10
  <2>13. OneActiveShare'
    <3>1. new.guest = req[s].user
      OBVIOUS
    <3> SUFFICES ASSUME NEW h \in shares', NEW k \in shares', h.active, k.active, h.guest = k.guest
                 PROVE  h = k
      BY DEF OneActiveShare
    <3> QED
      BY <2>12, <3>1 DEF OneActiveShare, SharesInv
  <2> QED
    BY <1>0, <2>5, <2>6, <2>8, <2>11, <2>13 DEF SharesInv, SharesTyped, SharesShowOwnRuns
<1> QED
  BY <1>1, <1>2

LEMMA NextSharesInv == IInv /\ [Next]_vars => SharesInv'
<1> SUFFICES ASSUME IInv, [Next]_vars PROVE SharesInv'
  OBVIOUS
<1>0. SharesInv /\ SharesTyped /\ InvitesNumbered /\ AcceptedMarked /\ ReqTyped /\ shown = {}
  BY DEF IInv, SharesInv, SharesShowOwnRuns
<1>1. ASSUME NEW g \in Guests, createWorkflowShareInvitation(g) PROVE SharesInv'
  <2> DEFINE n == Cardinality(invites)
             new == [id |-> n + 1, guest |-> g, status |-> "pending", lapsed |-> FALSE]
  <2>1. /\ invites' = invites \cup {new} /\ UNCHANGED <<shares, accepted, shown>>
        /\ n \in Nat
    BY <1>0, <1>1, FS_CardinalityType DEF createWorkflowShareInvitation, SharesTyped
  <2>2. new \in Invite /\ new.id = n + 1 /\ new \notin invites
    BY <1>0, <2>1 DEF Invite, InvitesNumbered
  <2>3. IsFiniteSet(invites') /\ Cardinality(invites') = n + 1
    BY <1>0, <2>1, <2>2, FS_AddElement DEF SharesTyped
  <2>4. InvitesNumbered'
    <3>1. \A i \in invites : i.id \in 1..n
      BY <1>0 DEF InvitesNumbered
    <3>2. \A i \in invites' : i.id \in 1..(n + 1) /\ (i.id = n + 1 => i = new)
      BY <2>1, <2>2, <3>1
    <3>3. ASSUME NEW i \in invites', NEW k \in invites', i.id = k.id PROVE i = k
      BY <1>0, <2>1, <2>2, <3>2, <3>3 DEF InvitesNumbered
    <3> HIDE DEF new, n
    <3> QED
      BY <2>3, <3>2, <3>3 DEF InvitesNumbered
  <2> QED
    BY <1>0, <2>1, <2>2, <2>3, <2>4 DEF SharesInv, SharesTyped, AcceptedMarked, OneActiveShare,
         InvitationsServeOnce, SharesShowOwnRuns
<1>2. ASSUME NEW i \in invites, inviteLapses(i) PROVE SharesInv'
  <2> DEFINE j == [i EXCEPT !.lapsed = TRUE]
  <2>1. j \in Invite /\ j.id = i.id /\ j.status = i.status
    BY <1>0 DEF SharesTyped, Invite
  <2>2. invites' = (invites \ {i}) \cup {j} /\ UNCHANGED <<shares, accepted, shown>>
    BY <1>2 DEF inviteLapses
  <2>3. /\ invites' \subseteq Invite /\ IsFiniteSet(invites') /\ InvitesNumbered'
        /\ \A a \in accepted : \E k \in invites' : k.id = a[1] /\ k.status = "accepted"
    BY <1>0, <2>1, <2>2, InviteChanges
  <2> QED
    BY <1>0, <2>2, <2>3 DEF SharesInv, SharesTyped, AcceptedMarked, OneActiveShare,
         InvitationsServeOnce, SharesShowOwnRuns
<1>3. ASSUME NEW h \in shares, revokeWorkflowShare(h) PROVE SharesInv'
  <2>1. /\ shares' = (shares \ {h}) \cup {[h EXCEPT !.active = FALSE]}
        /\ UNCHANGED <<invites, accepted, shown>>
    BY <1>3 DEF revokeWorkflowShare
  <2>2. [h EXCEPT !.active = FALSE] \in Share /\ ~[h EXCEPT !.active = FALSE].active
    BY <1>0 DEF SharesTyped, Share
  <2>3. shares' \subseteq Share /\ OneActiveShare'
    BY <1>0, <2>1, <2>2 DEF SharesTyped, OneActiveShare, SharesInv
  <2> QED
    BY <1>0, <2>1, <2>3 DEF SharesInv, SharesTyped, InvitesNumbered, AcceptedMarked,
         InvitationsServeOnce, SharesShowOwnRuns
<1>4. ASSUME NEW s \in Slots, acceptWorkflowShareInvitation(s) PROVE SharesInv'
  BY <1>0, <1>4, AcceptKeepsShares
<1>5. ASSUME NEW s \in Slots,
             \/ \E i \in invites : readInvitation(s, i)
             \/ memberRun(s) \/ assertOrganizationRunQuota(s) \/ createWorkflowRun(s)
             \/ enqueueWorkflowRun(s) \/ enqueueFails(s) \/ undoRun(s)
             \/ recordOrganizationRunUsage(s) \/ usageFails(s)
             \/ \E g \in Guests, h \in shares :
                   shareRun(s, g, h) \/ \E r \in runs : readEvents(s, g, h, r)
      PROVE  SharesInv'
  <2>1. UNCHANGED <<shareVars, shown>>
    BY <1>5 DEF readInvitation, memberRun, assertOrganizationRunQuota, createWorkflowRun,
         enqueueWorkflowRun, enqueueFails, undoRun, recordOrganizationRunUsage, usageFails, shareRun,
         readEvents
  <2> QED
    BY <1>0, <2>1, SharesStay
<1>6. CASE \/ upsertOrganizationSubscription \/ (\E r \in runs : workerSteps(r)) \/ UNCHANGED vars
  <2>1. UNCHANGED <<shareVars, shown>>
    BY <1>6 DEF upsertOrganizationSubscription, workerSteps, vars
  <2> QED
    BY <1>0, <2>1, SharesStay
<1>7. ASSUME NEW s \in Slots, listWorkflowRunEventsForShareUser(s) PROVE SharesInv'
  <2>1. UNCHANGED shareVars /\ shown' = {}
    BY <1>0, <1>7 DEF listWorkflowRunEventsForShareUser, getWorkflowRunByIdForShareUser
  <2> QED
    BY <1>0, <2>1, SharesStay
<1>8. ASSUME NEW g \in Guests, NEW h \in shares, listWorkflowRunsForShareUser(g, h) PROVE SharesInv'
  <2>1. UNCHANGED shareVars /\ shown' = {}
    BY <1>0, <1>8 DEF listWorkflowRunsForShareUser, getWorkflowRunByIdForShareUser
  <2> QED
    BY <1>0, <2>1, SharesStay
<1> QED
  BY <1>1, <1>2, <1>3, <1>4, <1>5, <1>6, <1>7, <1>8 DEF Next

-----------------------------------------------------------------------------
(* Counting.                                                                 *)

(* The sets that are counted are finite.                                     *)
LEMMA CountsAreNumbers ==
    ASSUME RunsTyped
    PROVE  /\ IsFiniteSet(InFlight) /\ IsFiniteSet(RefusedRuns)
           /\ Cardinality(InFlight) \in Nat /\ Cardinality(RefusedRuns) \in Nat
           /\ Cardinality(runs) \in Nat
           /\ IsFiniteSet(Creating) /\ IsFiniteSet(Busy)
           /\ Cardinality(Creating) \in Nat /\ Cardinality(Busy) \in Nat
           /\ Cardinality(Slots) \in Nat /\ MonthlyLimit \in Nat /\ InflightLimit \in Nat
<1>1. InFlight \subseteq runs /\ RefusedRuns \subseteq runs
  BY DEF InFlight, RefusedRuns
<1>2. IsFiniteSet(runs) /\ IsFiniteSet(InFlight) /\ IsFiniteSet(RefusedRuns)
  BY <1>1, FS_Subset DEF RunsTyped
<1> QED
  BY <1>2, FS_CardinalityType, SlotCounts, LimitsAssumption

(* Nothing that is counted changes.                                          *)
LEMMA StillCounted ==
    ASSUME CountInv, UNCHANGED <<runs, drawn, used, lost, refused>>,
           Creating' = Creating, Busy' = Busy, \A s \in Busy : req'[s].run = req[s].run
    PROVE  CountInv'
<1>1. RefusedRuns' = RefusedRuns /\ InFlight' = InFlight
  BY DEF RefusedRuns, InFlight
<1>2. RunsTyped' /\ RunsNumbered' /\ EachItsRun'
  BY DEF CountInv, RunsTyped, RunsNumbered, EachItsRun
<1>3. RunsAccounted' /\ MonthFits' /\ InFlightFits'
  BY <1>1 DEF CountInv, RunsAccounted, MonthFits, InFlightFits
<1> QED
  BY <1>2, <1>3 DEF CountInv

(* A request passes the check, with room in both limits: those that passed   *)
(* before it and have not been counted are other slots'.                     *)
LEMMA PassingFits ==
    ASSUME CountInv, ReqTyped, NEW s \in Slots, At(s, "quota"),
           withinMonthlyLimit, withinInflightLimit,
           req' = [req EXCEPT ![s] = [req[s] EXCEPT !.at = "create"]],
           UNCHANGED <<runs, drawn, used, lost, refused>>
    PROVE  CountInv'
<1> DEFINE q == [req[s] EXCEPT !.at = "create"]
<1>1. q.at = "create" /\ RunsTyped
  BY DEF ReqTyped, Request, CountInv
<1>2. Creating' = Creating \cup {s} /\ Busy' = Busy \ {s} /\ \A t \in Slots : t # s => req'[t] = req[t]
  BY <1>1, SlotMoves
<1>3. s \notin Creating /\ s \notin Busy
  BY DEF At, Creating, Busy
<1>4. Busy' = Busy
  BY <1>2, <1>3
<1>5. Cardinality(Creating') = Cardinality(Creating) + 1
  BY <1>1, <1>2, <1>3, CountsAreNumbers, FS_AddElement
<1>6. /\ IsFiniteSet(Creating') /\ IsFiniteSet(Busy')
      /\ Creating' \subseteq Slots /\ Busy' \subseteq Slots /\ Creating' \cap Busy' = {}
  BY <1>2, <1>3, <1>4, SlotsAssumption, FS_Subset DEF Creating, Busy, At
<1>7. Cardinality(Creating') + Cardinality(Busy') <= Cardinality(Slots)
  BY <1>6, DisjointCounts
<1>8. RefusedRuns' = RefusedRuns /\ InFlight' = InFlight
  BY DEF RefusedRuns, InFlight
<1>9. RunsTyped' /\ RunsNumbered'
  BY DEF CountInv, RunsTyped, RunsNumbered
<1>10. EachItsRun'
  <2>1. \A t \in Busy : req'[t] = req[t]
    BY <1>2, <1>3 DEF Busy
  <2> QED
    BY <1>4, <2>1 DEF CountInv, EachItsRun
<1>11. RunsAccounted'
  BY <1>4, <1>8 DEF CountInv, RunsAccounted
<1>12. MonthFits'
  <2>1. used <= MonthlyLimit - 1 /\ used \in Nat
    BY <1>1, LimitsAssumption DEF withinMonthlyLimit, RunsTyped
  <2> QED
    BY <1>1, <1>4, <1>5, <1>7, <2>1, CountsAreNumbers DEF MonthFits
<1>13. InFlightFits'
  <2>1. Cardinality(InFlight) <= InflightLimit - 1
    BY <1>1, CountsAreNumbers DEF withinInflightLimit
  <2>2. Cardinality(Creating') <= Cardinality(Slots)
    BY <1>1, <1>4, <1>5, <1>7, CountsAreNumbers
  <2> QED
    BY <1>1, <1>5, <1>8, <2>1, <2>2, CountsAreNumbers DEF InFlightFits
<1> QED
  BY <1>9, <1>10, <1>11, <1>12, <1>13 DEF CountInv

(* Its run is created: nothing is refused or counted yet.                    *)
LEMMA CreatingFits ==
    ASSUME CountInv, ReqTyped, NEW s \in Slots, createWorkflowRun(s)
    PROVE  CountInv'
<1> DEFINE q == [req[s] EXCEPT !.at = "enqueue", !.run = drawn + 1]
           new == [id |-> drawn + 1, by |-> req[s].user, status |-> "queued", tried |-> FALSE]
<1>0. RunsTyped /\ RunsNumbered /\ EachItsRun /\ drawn' = drawn + 1 /\ drawn \in Nat
      /\ UNCHANGED <<used, lost, refused>> /\ runs' = runs \cup {new} /\ req' = [req EXCEPT ![s] = q]
  BY DEF CountInv, createWorkflowRun, Go, RunsTyped
<1>1. q.at = "enqueue" /\ q.run = drawn + 1 /\ req[s].user \in Guests \cup {Member}
  BY DEF ReqTyped, Request, createWorkflowRun, At
<1>2. /\ Creating' = Creating \ {s} /\ Busy' = Busy \cup {s} /\ req'[s] = q
      /\ \A t \in Slots : t # s => req'[t] = req[t]
  BY <1>0, <1>1, SlotMoves
<1>3. s \in Creating /\ s \notin Busy
  BY DEF createWorkflowRun, At, Creating, Busy
<1>4. Cardinality(Creating') = Cardinality(Creating) - 1 /\ Cardinality(Busy') = Cardinality(Busy) + 1
  BY <1>0, <1>2, <1>3, CountsAreNumbers, FS_AddElement, FS_RemoveElement
<1>5. new \in Run /\ new.id = drawn + 1
  BY <1>0, <1>1 DEF Run
<1>6. \A r \in runs : r.id \in 1..drawn /\ r # new
  BY <1>0, <1>5 DEF RunsNumbered
<1>7. drawn + 1 \notin refused
  BY <1>0 DEF RunsNumbered
<1>8. IsFiniteSet(runs') /\ Cardinality(runs') = Cardinality(runs) + 1
  BY <1>0, <1>6, FS_AddElement DEF RunsTyped
<1>9. RefusedRuns' = RefusedRuns
  BY <1>0, <1>5, <1>7 DEF RefusedRuns
<1>10. InFlight' = InFlight \cup {new} /\ new \notin InFlight
  BY <1>0, <1>6 DEF InFlight
<1>11. Cardinality(InFlight') = Cardinality(InFlight) + 1
  BY <1>0, <1>10, CountsAreNumbers, FS_AddElement
<1>12. RunsTyped'
  <2> HIDE DEF new, q
  <2>1. runs' \subseteq Run
    BY <1>0, <1>5 DEF RunsTyped
  <2>2. drawn' \in Nat /\ used' \in Nat /\ lost' \in Nat
    BY <1>0 DEF RunsTyped
  <2> QED
    BY <1>8, <2>1, <2>2 DEF RunsTyped
<1>13. RunsNumbered'
  <2>1. \A r \in runs' : r.id \in 1..(drawn + 1) /\ (r.id = drawn + 1 => r = new)
    BY <1>0, <1>5, <1>6
  <2>2. ASSUME NEW r \in runs', NEW x \in runs', r.id = x.id PROVE r = x
    BY <1>0, <1>5, <1>6, <2>1, <2>2 DEF RunsNumbered
  <2>3. refused' \subseteq 1..(drawn + 1)
    BY <1>0 DEF RunsNumbered
  <2> QED
    BY <1>0, <2>1, <2>2, <2>3 DEF RunsNumbered
<1>14. EachItsRun'
  <2>1. \A t \in Busy : req'[t] = req[t] /\ req[t].run \in 1..drawn
    BY <1>0, <1>2, <1>3 DEF Busy, EachItsRun, RunsNumbered
  <2>2. req'[s].run = drawn + 1
    BY <1>1, <1>2
  <2>3. \A t \in Busy' : t = s \/ t \in Busy
    BY <1>2
  <2>4. \A t \in Busy' : req'[t].run \notin refused' /\ \E r \in runs' : r.id = req'[t].run
    BY <1>0, <1>5, <1>7, <2>1, <2>2, <2>3 DEF EachItsRun
  <2>5. ASSUME NEW t \in Busy', NEW u \in Busy', req'[t].run = req'[u].run PROVE t = u
    BY <1>0, <2>1, <2>2, <2>3, <2>5 DEF EachItsRun
  <2> QED
    BY <2>4, <2>5 DEF EachItsRun
<1>15. RunsAccounted'
  BY <1>0, <1>4, <1>8, <1>9, CountsAreNumbers DEF CountInv, RunsTyped, RunsAccounted
<1>16. MonthFits'
  BY <1>0, <1>4, CountsAreNumbers DEF CountInv, RunsTyped, MonthFits
<1>17. InFlightFits'
  BY <1>0, <1>4, <1>11, CountsAreNumbers DEF CountInv, InFlightFits
<1> QED
  BY <1>12, <1>13, <1>14, <1>15, <1>16, <1>17 DEF CountInv

(* A request that has its run is done with it: it was counted, or the count  *)
(* was lost.                                                                 *)
LEMMA CountedOrLost ==
    ASSUME CountInv, ReqTyped, NEW s \in Slots,
           recordOrganizationRunUsage(s) \/ usageFails(s)
    PROVE  CountInv'
<1>0. /\ RunsTyped /\ RunsNumbered /\ EachItsRun /\ UNCHANGED <<runs, drawn, refused>>
      /\ req' = [req EXCEPT ![s] = Idle] /\ Idle.at = "idle" /\ s \in Busy /\ s \notin Creating
      /\ \/ used' = used + 1 /\ lost' = lost
         \/ used' = used /\ lost' = lost + 1
  BY DEF CountInv, recordOrganizationRunUsage, usageFails, End, Go, Idle, At, Busy, Creating
<1>1. /\ Creating' = Creating \ {s} /\ Busy' = Busy \ {s}
      /\ \A t \in Slots : t # s => req'[t] = req[t]
  BY <1>0, SlotMoves
<1>2. Cardinality(Busy') = Cardinality(Busy) - 1 /\ Creating' = Creating
  <2>1. IsFiniteSet(Busy)
    BY <1>0, CountsAreNumbers
  <2>2. Cardinality(Busy \ {s}) = Cardinality(Busy) - 1
    BY <1>0, <2>1, FS_RemoveElement
  <2> QED
    BY <1>0, <1>1, <2>2
<1>3. RefusedRuns' = RefusedRuns /\ InFlight' = InFlight
  BY <1>0 DEF RefusedRuns, InFlight
<1>4. RunsTyped' /\ RunsNumbered'
  BY <1>0 DEF RunsTyped, RunsNumbered
<1>5. EachItsRun'
  <2>1. \A t \in Busy' : t \in Busy /\ req'[t] = req[t]
    BY <1>1 DEF Busy
  <2> QED
    BY <1>0, <2>1 DEF EachItsRun
<1>6. RunsAccounted'
  BY <1>0, <1>2, <1>3, CountsAreNumbers DEF CountInv, RunsTyped, RunsAccounted
<1>7. MonthFits'
  BY <1>0, <1>2, CountsAreNumbers DEF CountInv, RunsTyped, MonthFits
<1>8. InFlightFits'
  BY <1>2, <1>3 DEF CountInv, InFlightFits
<1> QED
  BY <1>4, <1>5, <1>6, <1>7, <1>8 DEF CountInv

(* A request is refused: its run is deleted, or it is one of the refused.    *)
LEMMA RefusedOrGone ==
    ASSUME CountInv, ReqTyped, NEW s \in Slots, undoRun(s)
    PROVE  CountInv'
<1>0. /\ RunsTyped /\ RunsNumbered /\ EachItsRun /\ UNCHANGED <<drawn, used, lost>>
      /\ req' = [req EXCEPT ![s] = Idle] /\ Idle.at = "idle" /\ s \in Busy /\ s \notin Creating
      /\ refused' = refused \cup {req[s].run}
      /\ runs' = {r \in runs : ~(r.id = req[s].run /\ deleteQueuedWorkflowRun(r))}
  BY DEF CountInv, undoRun, End, Go, Idle, At, Busy, Creating
<1>1. /\ Creating' = Creating \ {s} /\ Busy' = Busy \ {s}
      /\ \A t \in Slots : t # s => req'[t] = req[t]
  BY <1>0, SlotMoves
<1>2. Cardinality(Busy') = Cardinality(Busy) - 1 /\ Creating' = Creating
  <2>1. IsFiniteSet(Busy)
    BY <1>0, CountsAreNumbers
  <2>2. Cardinality(Busy \ {s}) = Cardinality(Busy) - 1
    BY <1>0, <2>1, FS_RemoveElement
  <2> QED
    BY <1>0, <1>1, <2>2
<1>3. PICK mine \in runs : mine.id = req[s].run
  BY <1>0 DEF EachItsRun
<1>4. mine.id \notin refused /\ mine \notin RefusedRuns /\ \A r \in runs : r.id = mine.id => r = mine
  BY <1>0, <1>3 DEF EachItsRun, RefusedRuns, RunsNumbered
<1>5. \/ runs' = runs \ {mine} /\ RefusedRuns' = RefusedRuns
      \/ runs' = runs /\ RefusedRuns' = RefusedRuns \cup {mine}
  BY <1>0, <1>3, <1>4 DEF RefusedRuns
<1>6. runs' \subseteq runs /\ IsFiniteSet(runs')
  BY <1>0, FS_Subset DEF RunsTyped
<1>7. Cardinality(InFlight') <= Cardinality(InFlight)
  <2>1. InFlight' \subseteq InFlight
    BY <1>6 DEF InFlight
  <2> QED
    BY <1>0, <2>1, CountsAreNumbers, FS_Subset
<1>8. RunsTyped'
  BY <1>0, <1>6 DEF RunsTyped
<1>9. RunsNumbered'
  BY <1>0, <1>3, <1>6 DEF RunsNumbered
<1>10. EachItsRun'
  <2>1. \A t \in Busy' : t \in Busy /\ t # s /\ req'[t] = req[t] /\ req[t].run # mine.id
    BY <1>0, <1>1, <1>3 DEF Busy, EachItsRun
  <2>2. \A r \in runs : r.id # mine.id => r \in runs'
    BY <1>0, <1>3
  <2> QED
    BY <1>0, <1>3, <2>1, <2>2 DEF EachItsRun
<1>11. Cardinality(runs') - Cardinality(RefusedRuns') = Cardinality(runs) - Cardinality(RefusedRuns) - 1
  <2>1. CASE runs' = runs \ {mine} /\ RefusedRuns' = RefusedRuns
    <3>1. Cardinality(runs') = Cardinality(runs) - 1
      BY <1>0, <2>1, FS_RemoveElement DEF RunsTyped
    <3> QED
      BY <1>0, <2>1, <3>1, CountsAreNumbers
  <2>2. CASE runs' = runs /\ RefusedRuns' = RefusedRuns \cup {mine}
    <3>1. Cardinality(RefusedRuns') = Cardinality(RefusedRuns) + 1
      BY <1>0, <1>4, <2>2, CountsAreNumbers, FS_AddElement
    <3> QED
      BY <1>0, <2>2, <3>1, CountsAreNumbers
  <2> QED
    BY <1>5, <2>1, <2>2
<1>12. Cardinality(runs') \in Nat /\ Cardinality(RefusedRuns') \in Nat
  <2>1. RefusedRuns' \subseteq runs'
    BY DEF RefusedRuns
  <2> QED
    BY <1>6, <2>1, FS_Subset, FS_CardinalityType
<1>13. RunsAccounted'
  BY <1>0, <1>2, <1>11, <1>12, CountsAreNumbers DEF CountInv, RunsTyped, RunsAccounted
<1>14. MonthFits'
  BY <1>0, <1>2, CountsAreNumbers DEF CountInv, RunsTyped, MonthFits
<1>15. InFlightFits'
  <2>1. Cardinality(InFlight') \in Nat
    <3>1. InFlight' \subseteq runs'
      BY DEF InFlight
    <3> QED
      BY <1>6, <3>1, FS_Subset, FS_CardinalityType
  <2> QED
    BY <1>0, <1>2, <1>7, <2>1, CountsAreNumbers DEF CountInv, InFlightFits
<1> QED
  BY <1>8, <1>9, <1>10, <1>13, <1>14, <1>15 DEF CountInv

(* A worker moves a run on: it is the same run that is counted.              *)
LEMMA WorkedOn ==
    ASSUME CountInv, NEW r \in runs, workerSteps(r)
    PROVE  CountInv'
<1>0. /\ RunsTyped /\ RunsNumbered /\ EachItsRun
      /\ UNCHANGED <<drawn, used, lost, refused, req>> /\ r.status \in {"queued", "running"}
  BY DEF CountInv, workerSteps
<1>1. PICK x \in Run : x.id = r.id /\ runs' = (runs \ {r}) \cup {x}
  <2>1. r \in Run
    BY <1>0 DEF RunsTyped
  <2>2. /\ [r EXCEPT !.status = "running", !.tried = TRUE] \in Run
        /\ [r EXCEPT !.status = "running", !.tried = TRUE].id = r.id
        /\ \A status \in {"queued", "done"} :
              [r EXCEPT !.status = status] \in Run /\ [r EXCEPT !.status = status].id = r.id
    BY <2>1 DEF Run
  <2> QED
    BY <2>2 DEF workerSteps
<1>2. x \notin runs \ {r}
  BY <1>0, <1>1 DEF RunsNumbered
<1>3. IsFiniteSet(runs') /\ Cardinality(runs') = Cardinality(runs)
  BY <1>0, <1>1, <1>2, ReplaceCounts DEF RunsTyped
<1>4. Creating' = Creating /\ Busy' = Busy
  BY <1>0 DEF Creating, Busy, At
<1>5. Cardinality(RefusedRuns') = Cardinality(RefusedRuns)
  <2>1. CASE r.id \in refused
    <3>1. r \in RefusedRuns /\ RefusedRuns' = (RefusedRuns \ {r}) \cup {x} /\ x \notin RefusedRuns \ {r}
      BY <1>0, <1>1, <1>2, <2>1 DEF RefusedRuns
    <3>2. IsFiniteSet(RefusedRuns)
      BY <1>0, CountsAreNumbers
    <3> QED
      BY <3>1, <3>2, ReplaceCounts
  <2>2. CASE r.id \notin refused
    BY <1>0, <1>1, <2>2 DEF RefusedRuns
  <2> QED
    BY <2>1, <2>2
<1>6. Cardinality(InFlight') <= Cardinality(InFlight) /\ Cardinality(InFlight') \in Nat
  <2>1. r \in InFlight /\ x \notin InFlight \ {r} /\ IsFiniteSet(InFlight) /\ Cardinality(InFlight) \in Nat
    BY <1>0, <1>2, CountsAreNumbers DEF InFlight
  <2>2. CASE InFlight' = (InFlight \ {r}) \cup {x}
    <3>1. Cardinality((InFlight \ {r}) \cup {x}) = Cardinality(InFlight)
      BY <2>1, ReplaceCounts
    <3> QED
      BY <2>1, <2>2, <3>1
  <2>3. CASE InFlight' = InFlight \ {r}
    BY <2>1, <2>3, FS_Subset, FS_CardinalityType
  <2> QED
    BY <1>1, <2>2, <2>3 DEF InFlight
<1>7. RunsTyped'
  BY <1>0, <1>1, <1>3 DEF RunsTyped
<1>8. RunsNumbered'
  BY <1>0, <1>1 DEF RunsNumbered
<1>9. EachItsRun'
  <2>1. \A y \in runs : \E z \in runs' : z.id = y.id
    BY <1>1
  <2> QED
    BY <1>0, <1>4, <2>1 DEF EachItsRun
<1>10. RunsAccounted'
  BY <1>0, <1>3, <1>4, <1>5 DEF CountInv, RunsAccounted
<1>11. MonthFits'
  BY <1>0, <1>4 DEF CountInv, MonthFits
<1>12. InFlightFits'
  BY <1>0, <1>4, <1>6, CountsAreNumbers DEF CountInv, InFlightFits
<1> QED
  BY <1>7, <1>8, <1>9, <1>10, <1>11, <1>12 DEF CountInv

(* A request that neither gets nor gives up its place is counted as before.  *)
LEMMA PlaceKept ==
    ASSUME CountInv, ReqTyped, NEW s \in Slots, NEW q, req' = [req EXCEPT ![s] = q],
           UNCHANGED <<runs, drawn, used, lost, refused>>,
           \/ /\ req[s].at \in {"idle", "accept", "quota", "events"}
              /\ q.at \in {"idle", "accept", "quota", "events"}
           \/ /\ At(s, "enqueue") /\ q.at \in {"usage", "undo"} /\ q.run = req[s].run
    PROVE  CountInv'
<1>1. /\ req'[s] = q /\ \A t \in Slots : t # s => req'[t] = req[t]
      /\ Creating' = IF q.at = "create" THEN Creating \cup {s} ELSE Creating \ {s}
      /\ Busy' = IF q.at \in {"enqueue", "usage", "undo"} THEN Busy \cup {s} ELSE Busy \ {s}
  BY SlotMoves
<1>2. Creating' = Creating /\ Busy' = Busy
  BY <1>1 DEF Creating, Busy, At
<1>3. \A t \in Busy : req'[t].run = req[t].run
  BY <1>1 DEF Busy, At
<1> QED
  BY <1>2, <1>3, StillCounted

LEMMA NextCountInv == IInv /\ [Next]_vars => CountInv'
<1> SUFFICES ASSUME IInv, [Next]_vars PROVE CountInv'
  OBVIOUS
<1>0. CountInv /\ ReqTyped /\ Idle.at = "idle"
  BY DEF IInv, Idle
<1>1. ASSUME UNCHANGED <<runs, drawn, used, lost, refused, req>> PROVE CountInv'
  <2>1. Creating' = Creating /\ Busy' = Busy
    BY <1>1 DEF Creating, Busy, At
  <2> QED
    BY <1>0, <1>1, <2>1, StillCounted
<1>2. ASSUME NEW s \in Slots,
             acceptWorkflowShareInvitation(s) \/ listWorkflowRunEventsForShareUser(s)
      PROVE  CountInv'
  <2>1. /\ req' = [req EXCEPT ![s] = Idle] /\ req[s].at \in {"accept", "events"}
        /\ UNCHANGED <<runs, drawn, used, lost, refused>>
    BY <1>2 DEF acceptWorkflowShareInvitation, listWorkflowRunEventsForShareUser, End, Go, At, runVars
  <2> QED
    BY <1>0, <2>1, PlaceKept
<1>3. ASSUME NEW s \in Slots,
             \/ \E i \in invites : readInvitation(s, i)
             \/ memberRun(s)
             \/ \E g \in Guests, h \in shares :
                   shareRun(s, g, h) \/ \E r \in runs : readEvents(s, g, h, r)
      PROVE  CountInv'
  <2> DEFINE Going == \E q : req' = [req EXCEPT ![s] = q] /\ q.at \in {"accept", "quota", "events"}
  <2>1. req[s].at = "idle" /\ UNCHANGED <<runs, drawn, used, lost, refused>>
    BY <1>3 DEF readInvitation, memberRun, shareRun, readEvents, At, runVars
  <2>2. ASSUME NEW i \in invites, readInvitation(s, i) PROVE Going
    <3>1. [Idle EXCEPT !.at = "accept", !.user = i.guest, !.share = i.id].at \in {"accept", "quota", "events"}
      BY DEF Idle
    <3> QED
      BY <2>2, <3>1 DEF readInvitation, Go
  <2>3. ASSUME memberRun(s) PROVE Going
    <3>1. [Idle EXCEPT !.at = "quota", !.user = Member].at \in {"accept", "quota", "events"}
      BY DEF Idle
    <3> QED
      BY <2>3, <3>1 DEF memberRun, Go
  <2>4. ASSUME NEW g \in Guests, NEW h \in shares, shareRun(s, g, h) PROVE Going
    <3>1. [Idle EXCEPT !.at = "quota", !.user = g, !.share = h.id].at \in {"accept", "quota", "events"}
      BY DEF Idle
    <3> QED
      BY <2>4, <3>1 DEF shareRun, Go
  <2>5. ASSUME NEW g \in Guests, NEW h \in shares, NEW r \in runs, readEvents(s, g, h, r) PROVE Going
    <3>1. [Idle EXCEPT !.at = "events", !.user = g, !.share = h.id, !.run = r.id].at \in {"accept", "quota", "events"}
      BY DEF Idle
    <3> QED
      BY <2>5, <3>1 DEF readEvents, Go
  <2>6. Going
    BY <1>3, <2>2, <2>3, <2>4, <2>5
  <2> QED
    BY <1>0, <2>1, <2>6, PlaceKept
<1>4. ASSUME NEW s \in Slots, assertOrganizationRunQuota(s) PROVE CountInv'
  <2>1. At(s, "quota") /\ UNCHANGED <<runs, drawn, used, lost, refused>>
    BY <1>4 DEF assertOrganizationRunQuota, runVars
  <2>2. CASE ~canceled /\ withinMonthlyLimit /\ withinInflightLimit
    BY <1>0, <1>4, <2>1, <2>2, PassingFits DEF assertOrganizationRunQuota, Go
  <2>3. CASE ~(~canceled /\ withinMonthlyLimit /\ withinInflightLimit)
    <3>1. req' = [req EXCEPT ![s] = Idle] /\ req[s].at = "quota"
      BY <1>4, <2>1, <2>3 DEF assertOrganizationRunQuota, End, Go, At
    <3> QED
      BY <1>0, <2>1, <3>1, PlaceKept
  <2> QED
    BY <2>2, <2>3
<1>5. ASSUME NEW s \in Slots, createWorkflowRun(s) PROVE CountInv'
  BY <1>0, <1>5, CreatingFits
<1>6. ASSUME NEW s \in Slots, enqueueWorkflowRun(s) \/ enqueueFails(s) PROVE CountInv'
  <2>1. \A to \in {"usage", "undo"} :
            [req[s] EXCEPT !.at = to].at = to /\ [req[s] EXCEPT !.at = to].run = req[s].run
    BY <1>0 DEF ReqTyped, Request
  <2>2. /\ At(s, "enqueue") /\ UNCHANGED <<runs, drawn, used, lost, refused>>
        /\ \E to \in {"usage", "undo"} : req' = [req EXCEPT ![s] = [req[s] EXCEPT !.at = to]]
    BY <1>6 DEF enqueueWorkflowRun, enqueueFails, Go
  <2> QED
    BY <1>0, <2>1, <2>2, PlaceKept
<1>7. ASSUME NEW s \in Slots, recordOrganizationRunUsage(s) \/ usageFails(s) PROVE CountInv'
  BY <1>0, <1>7, CountedOrLost
<1>8. ASSUME NEW s \in Slots, undoRun(s) PROVE CountInv'
  BY <1>0, <1>8, RefusedOrGone
<1>9. ASSUME NEW r \in runs, workerSteps(r) PROVE CountInv'
  BY <1>0, <1>9, WorkedOn
<1>10. CASE \/ \E g \in Guests : createWorkflowShareInvitation(g)
            \/ \E i \in invites : inviteLapses(i)
            \/ \E h \in shares : revokeWorkflowShare(h)
            \/ upsertOrganizationSubscription
            \/ \E g \in Guests, h \in shares : listWorkflowRunsForShareUser(g, h)
            \/ UNCHANGED vars
  BY <1>1, <1>10 DEF createWorkflowShareInvitation, inviteLapses, revokeWorkflowShare,
       upsertOrganizationSubscription, listWorkflowRunsForShareUser, runVars, vars
<1> QED
  BY <1>2, <1>3, <1>4, <1>5, <1>6, <1>7, <1>8, <1>9, <1>10 DEF Next

(* Every action preserves it.                                                *)
LEMMA NextIInv == IInv /\ [Next]_vars => IInv'
BY NextReqTyped, NextSharesInv, NextCountInv DEF IInv

-----------------------------------------------------------------------------
(* The theorems.                                                             *)

(* However many requests pass assertOrganizationRunQuota at once, they are   *)
(* one less than all of them too many, plus what was refused after its run   *)
(* had begun and what the count lost.                                        *)
THEOREM OvershootBounded == Spec => []OvershootIsBounded
<1>1. IInv => OvershootIsBounded
  <2> SUFFICES ASSUME IInv PROVE OvershootIsBounded
    OBVIOUS
  <2>1. /\ CountInv /\ RunsTyped /\ Cardinality(Creating) \in Nat /\ Cardinality(Busy) \in Nat
        /\ Cardinality(RefusedRuns) \in Nat /\ Cardinality(runs) \in Nat
        /\ Cardinality(InFlight) \in Nat /\ Cardinality(Slots) \in Nat
        /\ MonthlyLimit \in Nat /\ InflightLimit \in Nat
    BY CountsAreNumbers DEF IInv, CountInv
  <2>2. Uncounted = Cardinality(RefusedRuns) + lost /\ lost \in Nat /\ used \in Nat
    BY <2>1 DEF Uncounted, RefusedRuns, RunsTyped
  <2>3. Cardinality(runs) <= MonthlyLimit + Cardinality(Slots) - 1 + Uncounted
    BY <2>1, <2>2 DEF CountInv, RunsAccounted, MonthFits
  <2>4. Cardinality(InFlight) <= InflightLimit + Cardinality(Slots) - 1
    BY <2>1 DEF CountInv, InFlightFits
  <2> QED
    BY <2>3, <2>4 DEF OvershootIsBounded
<1> QED
  BY <1>1, InitIInv, NextIInv, PTL DEF Spec

(* A guest has one active share, an invitation is accepted once however      *)
(* often its guest asks at a time, no share shows another's runs             *)
(* (createWorkflowShare, markWorkflowShareInvitationAccepted and the share   *)
(* routes), and the limits are passed by no more than is under way.          *)
THEOREM SharesAreKept == Spec => []SharesHold
<1>1. IInv => OneActiveShare /\ InvitationsServeOnce /\ SharesShowOwnRuns
  BY DEF IInv, SharesInv
<1> QED
  BY <1>1, InitIInv, NextIInv, OvershootBounded, PTL DEF Spec, SharesHold

(* The only runs a step removes are queued and untried.                      *)
LEMMA NextBegunStay == IInv /\ [Next]_vars => TriedStay
<1> SUFFICES ASSUME IInv, [Next]_vars, NEW r \in runs, r.tried PROVE \E x \in runs' : x.id = r.id
  BY DEF TriedStay
<1>1. runs \subseteq Run
  BY DEF IInv, CountInv, RunsTyped
<1>2. CASE runs' = runs
  BY <1>2
<1>3. ASSUME NEW s \in Slots, createWorkflowRun(s) PROVE r \in runs'
  BY <1>3 DEF createWorkflowRun
<1>4. ASSUME NEW s \in Slots, undoRun(s) PROVE r \in runs'
  BY <1>4 DEF undoRun, deleteQueuedWorkflowRun
<1>5. ASSUME NEW w \in runs, workerSteps(w) PROVE \E x \in runs' : x.id = r.id
  <2>1. w \in Run
    BY <1>1
  <2>2. \E x \in Run : x.id = w.id /\ runs' = (runs \ {w}) \cup {x}
    BY <1>5, <2>1 DEF workerSteps, Run
  <2> QED
    BY <2>2
<1>6. \/ runs' = runs
      \/ \E s \in Slots : createWorkflowRun(s) \/ undoRun(s)
      \/ \E w \in runs : workerSteps(w)
  BY DEF Next, vars, runVars, shareVars, createWorkflowShareInvitation, inviteLapses,
         revokeWorkflowShare, upsertOrganizationSubscription, readInvitation,
         acceptWorkflowShareInvitation, memberRun, assertOrganizationRunQuota, enqueueWorkflowRun,
         enqueueFails, recordOrganizationRunUsage, usageFails, shareRun, readEvents,
         listWorkflowRunEventsForShareUser, listWorkflowRunsForShareUser
<1> QED
  BY <1>2, <1>3, <1>4, <1>5, <1>6

(* A run whose queueing failed is deleted only while no worker has begun it  *)
(* (deleteQueuedWorkflowRun).                                                *)
THEOREM BegunRunsAreKept == Spec => BegunRunsStay
<1> QED
  BY InitIInv, NextIInv, NextBegunStay, PTL DEF Spec, BegunRunsStay

-----------------------------------------------------------------------------
(* Accounts: what a request is at each of its steps.                       *)

SignInOps == {"signup", "login", "oauth"}
SignedInOps == {"refresh", "logout", "logoutAll", "me"}
Cookie == [s : Sessions \cup {None}, token : Nat]
AuthSession == [user : People \cup {None}, token : Nat,
                state : {"none", "active", "revoked", "expired"}]
AccRequest ==
    [pc : {"idle", "create", "session", "exchange", "workspace", "createWorkspace", "authenticate",
           "rotate", "revoke", "revokeAll", "answer", "answerError", "answerClear"},
     op : SignInOps \cup SignedInOps \cup {"none"}, b : Browsers \cup {None},
     u : People \cup {None}, state : States \cup {None}, cookie : Cookie, bearer : BOOLEAN,
     stale : {"no", "revoked", "exchanged"}, set : Cookie]

SessionsTyped ==
    /\ session \in [Sessions -> AuthSession] /\ tokens \in Nat
    /\ jar \in [Browsers -> Cookie] /\ workspaces \in [People -> Nat]
    /\ oauthStates \in [States -> {"none", "issued", "used"}] /\ signIns \in [States -> Nat]
    /\ \A s \in Sessions : /\ session[s].token <= tokens
                           /\ session[s].state # "none" => session[s].user \in People

(* A sign-in presents no cookie; only a refresh, once its row is written, and *)
(* a sign-in with a session have one to set.                                 *)
SignInTyped(q) ==
    /\ q.cookie = Acc!NoCookie /\ q.stale = "no"
    /\ q.pc \notin {"authenticate", "rotate", "revoke", "revokeAll", "answerClear"}
    /\ q.pc = "exchange" => q.op = "oauth"
    /\ q.op = "oauth" => q.state \in States
SignedInTyped(q) ==
    /\ q.cookie.s # None
    /\ q.pc \notin {"create", "session", "exchange"}
    /\ IF q.op = "refresh" THEN q.pc \in {"authenticate", "rotate", "answer"} /\ ~q.bearer
       ELSE q.pc # "rotate" /\ q.set = Acc!NoCookie
AccReqTyped(q) ==
    /\ q \in AccRequest
    /\ q.pc = "idle" => q = Acc!Idle
    /\ q.pc # "idle" => q.b \in Browsers /\ q.u \in People /\ q.op # "none"
    /\ q.op \in SignInOps => SignInTyped(q)
    /\ q.op \in SignedInOps => SignedInTyped(q)
    /\ q.set.s # None => /\ q.pc \in {"workspace", "createWorkspace", "answer", "answerError"}
                         /\ q.op = "refresh" => q.set.s = q.cookie.s
AccReqsTyped ==
    accReq \in [Slots -> AccRequest] /\ \A r \in Slots : AccReqTyped(accReq[r])

(* What is stale when its request begins stays so, and lets nobody in.       *)
ExchangedAreOld ==
    exchanged \subseteq Sessions \X Nat /\ \A e \in exchanged : e[2] < session[e[1]].token
StaleStays ==
    \A r \in Slots :
        /\ accReq[r].stale = "revoked" =>
               accReq[r].cookie.s # None /\ session[accReq[r].cookie.s].state = "revoked"
        /\ accReq[r].stale = "exchanged" =>
               /\ accReq[r].cookie.s # None /\ ~accReq[r].bearer
               /\ <<accReq[r].cookie.s, accReq[r].cookie.token>> \in exchanged
StaleIsOut == Acc!RevokedStaysOut /\ Acc!ExchangedStaysOut

(* Until a state has signed in nobody, one callback at most carries it.      *)
Carries(q, x) == q.op = "oauth" /\ q.state = x /\ q.pc \in {"exchange", "create", "session"}
StatesServeOnce ==
    /\ \A x \in States : (oauthStates[x] # "used" => signIns[x] = 0) /\ signIns[x] <= 1
    /\ \A r \in Slots, x \in States : Carries(accReq[r], x) =>
          /\ oauthStates[x] = "used" /\ signIns[x] = 0
          /\ \A q \in Slots : Carries(accReq[q], x) => q = r

(* A session is presented by one browser: before its cookie is in the jar by *)
(* nobody but the request that made it.                                      *)
Presents(q, s) == q.cookie.s = s \/ q.set.s = s
UnmadeIsUnknown ==
    \A s \in Sessions : session[s].state = "none" =>
        /\ \A b \in Browsers : jar[b].s # s
        /\ \A r \in Slots : ~Presents(accReq[r], s)
OneBrowser ==
    /\ \A b, c \in Browsers : jar[b].s # None /\ jar[b].s = jar[c].s => b = c
    /\ \A b \in Browsers, r \in Slots :
          jar[b].s # None /\ Presents(accReq[r], jar[b].s) => accReq[r].b = b
    /\ \A q, r \in Slots, s \in Sessions :
          Presents(accReq[q], s) /\ Presents(accReq[r], s) => accReq[q].b = accReq[r].b
MadeIsAlone ==
    \A r \in Slots : accReq[r].set.s # None /\ accReq[r].op # "refresh" =>
        /\ \A b \in Browsers : jar[b].s # accReq[r].set.s
        /\ \A q \in Slots : Presents(accReq[q], accReq[r].set.s) => q = r

(* Of a browser that is undisturbed, what is set and what is kept is current.*)
Refreshes(q, b) == q.b = b /\ q.op = "refresh"
OneRefresh ==
    \A b \in Browsers \ disturbed : \A q, r \in Slots :
        Refreshes(accReq[q], b) /\ Refreshes(accReq[r], b) => q = r
SetIsCurrent ==
    \A r \in Slots : accReq[r].b \notin disturbed /\ accReq[r].set.s # None =>
        accReq[r].set.token = session[accReq[r].set.s].token
JarIsCurrent ==
    \A b \in Browsers \ disturbed : jar[b].s # None =>
        \/ jar[b].token = session[jar[b].s].token
        \/ \E r \in Slots : Refreshes(accReq[r], b) /\ accReq[r].set.s = jar[b].s

AccountsInv ==
    /\ SessionsTyped /\ AccReqsTyped
    /\ ExchangedAreOld /\ StaleStays /\ StaleIsOut /\ StatesServeOnce /\ Acc!AnsweredHasWorkspace
    /\ UnmadeIsUnknown /\ OneBrowser /\ MadeIsAlone
    /\ OneRefresh /\ SetIsCurrent /\ JarIsCurrent

LEMMA InitAccounts == Acc!Init => AccountsInv
<1> SUFFICES ASSUME Acc!Init PROVE AccountsInv
  OBVIOUS
<1> USE PeopleAssumption DEF Acc!Init
<1>1. \A r \in Slots : accReq[r] = Acc!Idle
  OBVIOUS
<1>2. Acc!Idle \in AccRequest /\ Acc!NoCookie \in Cookie
  BY DEF Acc!Idle, Acc!NoCookie, AccRequest, Cookie
<1>3. SessionsTyped
  BY <1>2 DEF SessionsTyped, AuthSession
<1>4. AccReqsTyped
  BY <1>1, <1>2 DEF AccReqsTyped, AccReqTyped, SignInOps, SignedInOps, Acc!Idle, Acc!NoCookie
<1>5. ExchangedAreOld /\ StaleStays /\ StaleIsOut /\ Acc!AnsweredHasWorkspace
  BY <1>1 DEF ExchangedAreOld, StaleStays, StaleIsOut, Acc!RevokedStaysOut, Acc!ExchangedStaysOut,
     Acc!Authenticated, Acc!AnsweredHasWorkspace, Acc!Idle
<1>6. StatesServeOnce
  BY <1>1 DEF StatesServeOnce, Carries, Acc!Idle
<1>7. UnmadeIsUnknown /\ OneBrowser /\ MadeIsAlone
  BY <1>1 DEF UnmadeIsUnknown, OneBrowser, MadeIsAlone, Presents, Acc!Idle, Acc!NoCookie
<1>8. OneRefresh /\ SetIsCurrent /\ JarIsCurrent
  BY <1>1 DEF OneRefresh, SetIsCurrent, JarIsCurrent, Refreshes, Acc!Idle, Acc!NoCookie
<1>9. QED
  BY <1>3, <1>4, <1>5, <1>6, <1>7, <1>8 DEF AccountsInv

(* A step of a request takes it to a request of its kind.                    *)
LEMMA AccReqMoves ==
  ASSUME AccReqsTyped, NEW r \in Slots, NEW q, AccReqTyped(q),
         accReq' = [accReq EXCEPT ![r] = q]
  PROVE  /\ AccReqsTyped' /\ accReq'[r] = q
         /\ \A p \in Slots \ {r} : accReq'[p] = accReq[p]
BY DEF AccReqsTyped, AccReqTyped

LEMMA BegunTyped ==
  ASSUME NEW q \in AccRequest, q.b \in Browsers, q.u \in People,
         q.cookie = Acc!NoCookie, q.stale = "no", q.set = Acc!NoCookie,
         \/ q.pc \in {"create", "session"} /\ q.op \in {"signup", "login"}
         \/ q.pc = "exchange" /\ q.op = "oauth" /\ q.state \in States
  PROVE  AccReqTyped(q)
BY DEF AccReqTyped, SignInTyped, SignInOps, SignedInOps, Acc!NoCookie

LEMMA NextAccReqsTyped == AccountsInv /\ Acc!Next => AccReqsTyped'
<1> SUFFICES ASSUME AccountsInv, Acc!Next PROVE AccReqsTyped'
  OBVIOUS
<1>0. AccReqsTyped /\ SessionsTyped /\ UnmadeIsUnknown
  BY DEF AccountsInv
<1>1. AccReqTyped(Acc!Idle)
  BY PeopleAssumption DEF AccReqTyped, AccRequest, SignInOps, SignedInOps, Acc!Idle, Acc!NoCookie, Cookie
<1>2. ASSUME NEW r \in Slots, Acc!RequestStep(r) PROVE AccReqsTyped'
  <2> DEFINE q == accReq[r]
  <2> USE DEF AccReqTyped, SignInTyped, SignedInTyped, AccRequest, Cookie, SignInOps, SignedInOps, Acc!NoCookie
  <2>0. AccReqTyped(q)
    BY <1>0 DEF AccReqsTyped
  <2>1. CASE Acc!exchangeCode(r)
    BY <2>1, <2>0, <1>0, AccReqMoves DEF Acc!exchangeCode, Acc!Go
  <2>2. CASE Acc!createUser(r)
    <3> DEFINE next == [q EXCEPT !.pc = "session"]
    <3>1. accReq' = [accReq EXCEPT ![r] = Acc!Idle] \/ accReq' = [accReq EXCEPT ![r] = next]
      BY <2>2, <1>0 DEF Acc!createUser, Acc!Go, Acc!Refuse, AccReqsTyped
    <3>2. AccReqTyped(next)
      <4>1. q \in AccRequest /\ q.pc = "create"
        BY <2>2, <2>0 DEF Acc!createUser
      <4>2. /\ next \in AccRequest /\ next.pc = "session" /\ next.op = q.op /\ next.b = q.b
            /\ next.u = q.u /\ next.cookie = q.cookie /\ next.stale = q.stale /\ next.set = q.set
            /\ next.state = q.state
        BY <4>1
      <4> HIDE DEF next
      <4>3. QED
        BY <2>0, <4>1, <4>2
    <3> HIDE DEF next
    <3>3. QED
      BY <3>1, <3>2, <1>0, <1>1, AccReqMoves
  <2>3. ASSUME NEW s \in Sessions, Acc!createSessionForUser(r, s) PROVE AccReqsTyped'
    <3> DEFINE made == [q EXCEPT !.pc = "workspace", !.set = [s |-> s, token |-> tokens + 1]]
    <3>1. accReq' = [accReq EXCEPT ![r] = made]
      <4> DEFINE new == [s |-> s, token |-> tokens + 1]
      <4>1. /\ accReq \in [Slots -> AccRequest] /\ accReq[r] = q /\ q \in AccRequest
            /\ accReq' = [accReq EXCEPT ![r].pc = "workspace", ![r].set = new]
        BY <2>3, <2>0, <1>0 DEF Acc!createSessionForUser, AccReqsTyped
      <4> HIDE DEF new, AccRequest, q
      <4>2. accReq' = [accReq EXCEPT ![r] = [q EXCEPT !.pc = "workspace", !.set = new]]
        BY <4>1
      <4>3. QED
        BY <4>2 DEF new
    <3>2. AccReqTyped(made)
      <4>1. q.op \in SignInOps /\ q.u \in People /\ q.b \in Browsers /\ q.pc = "session"
        BY <2>3, <2>0 DEF Acc!createSessionForUser
      <4>2. tokens + 1 \in Nat
        BY <1>0 DEF SessionsTyped
      <4>3. made \in AccRequest
        BY <4>2, <2>0
      <4>4. QED
        BY <4>1, <4>3, <2>0
    <3> HIDE DEF made, AccReqTyped
    <3>3. QED
      BY <3>1, <3>2, <1>0, AccReqMoves
  <2>4. CASE Acc!listOrganizationsForUser(r)
    <3>1. PICK pc \in {"answer", "createWorkspace"} : accReq' = [accReq EXCEPT ![r] = [q EXCEPT !.pc = pc]]
      BY <2>4 DEF Acc!listOrganizationsForUser, Acc!Go
    <3>2. AccReqTyped([q EXCEPT !.pc = pc])
      BY <2>4, <2>0, <3>1 DEF Acc!listOrganizationsForUser
    <3> HIDE DEF AccReqTyped
    <3>3. QED
      BY <3>1, <3>2, <1>0, AccReqMoves
  <2>5. CASE Acc!ensurePersonalOrganization(r) \/ Acc!workspaceFails(r)
    BY <2>5, <2>0, <1>0, AccReqMoves DEF Acc!ensurePersonalOrganization, Acc!workspaceFails, Acc!Go
  <2>6. CASE Acc!Authenticate(r)
    BY <2>6, <2>0, <1>0, <1>1, AccReqMoves DEF Acc!Authenticate, Acc!AfterAuthentication, Acc!Go, Acc!Refuse
  <2>7. CASE Acc!rotateSessionRefreshToken(r)
    <3> DEFINE rotated == [q EXCEPT !.pc = "answer", !.set = Acc!NewCookie(r)]
    <3>1. accReq' = [accReq EXCEPT ![r] = rotated]
      BY <2>7, <2>0, <1>0 DEF Acc!rotateSessionRefreshToken, Acc!Rotation, AccReqsTyped
    <3>2. AccReqTyped(rotated)
      <4>1. q.op = "refresh" /\ q.u \in People /\ q.b \in Browsers /\ q.pc = "rotate"
        BY <2>7, <2>0 DEF Acc!rotateSessionRefreshToken, Acc!Rotation
      <4>2. Acc!NewCookie(r) = [s |-> q.cookie.s, token |-> tokens + 1] /\ tokens + 1 \in Nat
        BY <2>0, <1>0 DEF Acc!NewCookie, SessionsTyped
      <4>3. q \in AccRequest /\ Acc!NewCookie(r) \in Cookie
        BY <4>2, <2>0
      <4>4. rotated \in AccRequest
        BY <4>3
      <4>5. QED
        <5>1. rotated.pc = "answer" /\ rotated.op = "refresh" /\ rotated.b = q.b /\ rotated.u = q.u
              /\ rotated.bearer = q.bearer /\ rotated.cookie = q.cookie /\ rotated.set.s = q.cookie.s
          BY <4>1, <4>2, <2>0
        <5> HIDE DEF rotated
        <5>2. QED
          BY <4>1, <4>4, <5>1, <2>0
    <3> HIDE DEF rotated, AccReqTyped
    <3>3. QED
      BY <3>1, <3>2, <1>0, AccReqMoves
  <2>8. CASE Acc!logout(r) \/ Acc!logoutAll(r)
    BY <2>8, <2>0, <1>0, AccReqMoves DEF Acc!logout, Acc!logoutAll, Acc!Go
  <2>9. CASE Acc!Answer(r) \/ Acc!AnswerLost(r)
    BY <2>9, <1>0, <1>1, AccReqMoves DEF Acc!Answer, Acc!AnswerLost, Acc!Refuse
  <2>10. QED
    BY <1>2, <2>1, <2>2, <2>3, <2>4, <2>5, <2>6, <2>7, <2>8, <2>9 DEF Acc!RequestStep
<1>3. ASSUME NEW r \in Slots, NEW b \in Browsers, NEW u \in People,
             \/ Acc!signup(r, b, u) \/ Acc!login(r, b, u)
             \/ \E x \in States : Acc!oauthCallback(r, b, x, u)
      PROVE  AccReqsTyped'
  <2>1. CASE Acc!signup(r, b, u)
    <3> DEFINE q == [Acc!Idle EXCEPT !.pc = "create", !.op = "signup", !.b = b, !.u = u]
    <3> USE DEF Acc!Idle, Acc!NoCookie
    <3>1. accReq' = [accReq EXCEPT ![r] = q]
      BY <2>1 DEF Acc!signup, Acc!Begin
    <3>2. q \in AccRequest
      BY DEF AccRequest, Cookie, SignInOps, SignedInOps
    <3>3. AccReqTyped(q)
      BY <3>2, BegunTyped
    <3> HIDE DEF q
    <3>4. QED
      BY <3>1, <3>3, <1>0, AccReqMoves
  <2>2. CASE Acc!login(r, b, u)
    <3> DEFINE q == [Acc!Idle EXCEPT !.pc = "session", !.op = "login", !.b = b, !.u = u]
    <3> USE DEF Acc!Idle, Acc!NoCookie
    <3>1. accReq' = [accReq EXCEPT ![r] = q]
      BY <2>2 DEF Acc!login, Acc!Begin
    <3>2. q \in AccRequest
      BY DEF AccRequest, Cookie, SignInOps, SignedInOps
    <3>3. AccReqTyped(q)
      BY <3>2, BegunTyped
    <3> HIDE DEF q
    <3>4. QED
      BY <3>1, <3>3, <1>0, AccReqMoves
  <2>3. ASSUME NEW x \in States, Acc!oauthCallback(r, b, x, u) PROVE AccReqsTyped'
    <3> DEFINE q == Acc!Callback(r, b, x, u)
    <3> USE DEF Acc!Idle, Acc!NoCookie
    <3>1. accReq' = [accReq EXCEPT ![r] = q]
      BY <2>3 DEF Acc!oauthCallback, Acc!Begin
    <3>2. q \in AccRequest
      BY DEF AccRequest, Cookie, SignInOps, SignedInOps, Acc!Callback
    <3>3. AccReqTyped(q)
      BY <3>2, BegunTyped DEF Acc!Callback
    <3> HIDE DEF q
    <3>4. QED
      BY <3>1, <3>3, <1>0, AccReqMoves
  <2>4. QED
    BY <1>3, <2>1, <2>2, <2>3
<1>4. ASSUME NEW r \in Slots, NEW b \in Browsers, NEW op \in SignedInOps, NEW bearer \in BOOLEAN,
             Acc!SignedIn(r, b, op, bearer)
      PROVE  AccReqsTyped'
  <2>1. jar[b] \in Cookie /\ session[jar[b].s].user \in People
    BY <1>4, <1>0 DEF Acc!SignedIn, SessionsTyped, Cookie, UnmadeIsUnknown
  <2>2. Acc!Stale(jar[b], bearer) \in {"no", "revoked", "exchanged"}
    BY DEF Acc!Stale
  <2> DEFINE q == [Acc!Idle EXCEPT !.pc = "authenticate", !.op = op, !.b = b, !.bearer = bearer,
                                   !.cookie = jar[b], !.u = session[jar[b].s].user,
                                   !.stale = Acc!Stale(jar[b], bearer)]
  <2>3. /\ accReq' = [accReq EXCEPT ![r] = q]
        /\ jar[b].s # None /\ (op = "refresh" => ~bearer)
    BY <1>4 DEF Acc!SignedIn, Acc!Begin
  <2>4. /\ q \in AccRequest /\ q.pc = "authenticate" /\ q.op = op /\ q.b = b /\ q.bearer = bearer
        /\ q.cookie = jar[b] /\ q.u = session[jar[b].s].user /\ q.set = Acc!NoCookie
    <3>1. q = [pc |-> "authenticate", op |-> op, b |-> b, u |-> session[jar[b].s].user, state |-> None,
               cookie |-> jar[b], bearer |-> bearer, stale |-> Acc!Stale(jar[b], bearer),
               set |-> Acc!NoCookie]
      <4> DEFINE i == Acc!Idle
                 n == Acc!NoCookie
                 c == jar[b]
                 v == session[c.s].user
                 l == Acc!Stale(c, bearer)
      <4>1. i = [pc |-> "idle", op |-> "none", b |-> None, u |-> None, state |-> None, cookie |-> n,
                 bearer |-> FALSE, stale |-> "no", set |-> n]
        BY DEF Acc!Idle
      <4>2. q = [i EXCEPT !.pc = "authenticate", !.op = op, !.b = b, !.bearer = bearer,
                          !.cookie = c, !.u = v, !.stale = l]
        OBVIOUS
      <4> HIDE DEF i, n, c, v, l, q
      <4>3. q = [pc |-> "authenticate", op |-> op, b |-> b, u |-> v, state |-> None, cookie |-> c,
                 bearer |-> bearer, stale |-> l, set |-> n]
        BY <4>1, <4>2
      <4>4. QED
        BY <4>3 DEF n, c, v, l
    <3> HIDE DEF q
    <3>2. Acc!NoCookie \in Cookie
      BY DEF Acc!NoCookie, Cookie
    <3>3. q \in AccRequest
      BY <2>1, <2>2, <3>1, <3>2 DEF AccRequest
    <3>4. QED
      BY <3>1, <3>3
  <2> HIDE DEF q
  <2>5. AccReqTyped(q)
    BY <2>1, <2>3, <2>4 DEF AccReqTyped, SignInTyped, SignedInTyped, SignInOps, SignedInOps,
       Acc!NoCookie
  <2>6. QED
    BY <1>0, <2>3, <2>5, AccReqMoves
<1>5. ASSUME NEW x \in States, Acc!oauthStart(x) PROVE AccReqsTyped'
  BY <1>5, <1>0 DEF Acc!oauthStart, AccReqsTyped
<1>6. ASSUME NEW s \in Sessions, Acc!SessionExpires(s) PROVE AccReqsTyped'
  BY <1>6, <1>0 DEF Acc!SessionExpires, AccReqsTyped
<1>7. ASSUME Acc!ApiRestarts PROVE AccReqsTyped'
  BY <1>7, <1>1 DEF Acc!ApiRestarts, AccReqsTyped, AccReqTyped
<1>8. QED
  BY <1>2, <1>3, <1>4, <1>5, <1>6, <1>7 DEF Acc!Next, SignedInOps

(* Revoking changes the state of what was active or has expired.             *)
LEMMA RevokeKeeps ==
  ASSUME SessionsTyped, NEW S, Acc!Revoke(S)
  PROVE  /\ session' \in [Sessions -> AuthSession]
         /\ \A s \in Sessions :
               /\ session'[s].token = session[s].token /\ session'[s].user = session[s].user
               /\ session'[s].state = "none" <=> session[s].state = "none"
               /\ session[s].state = "revoked" => session'[s].state = "revoked"
<1>1. \A s \in Sessions : session[s] \in AuthSession
  BY DEF SessionsTyped
<1>2. \A s \in Sessions : \/ session'[s] = session[s]
                            \/ /\ session'[s] = [session[s] EXCEPT !.state = "revoked"]
                               /\ session[s].state # "none"
  BY DEF Acc!Revoke
<1>3. \A s \in Sessions : session'[s] \in AuthSession
  BY <1>1, <1>2 DEF AuthSession
<1>4. session' \in [Sessions -> AuthSession]
  BY <1>3 DEF Acc!Revoke
<1>5. QED
  BY <1>1, <1>2, <1>4 DEF AuthSession

LEMMA NextSessionsTyped == AccountsInv /\ Acc!Next => SessionsTyped'
<1> SUFFICES ASSUME AccountsInv, Acc!Next PROVE SessionsTyped'
  OBVIOUS
<1>0. SessionsTyped /\ AccReqsTyped /\ UnmadeIsUnknown
  BY DEF AccountsInv
<1>1. CASE UNCHANGED <<session, tokens, jar, workspaces, oauthStates, signIns>>
  BY <1>1, <1>0 DEF SessionsTyped
<1>2. ASSUME NEW r \in Slots, Acc!RequestStep(r) PROVE SessionsTyped'
  <2>0. AccReqTyped(accReq[r]) /\ accReq[r] \in AccRequest
    BY <1>0 DEF AccReqsTyped, AccReqTyped
  <2>1. CASE Acc!exchangeCode(r)
    BY <2>1, <1>0 DEF Acc!exchangeCode, SessionsTyped
  <2>2. CASE Acc!createUser(r) \/ Acc!listOrganizationsForUser(r) \/ Acc!workspaceFails(r)
             \/ Acc!Authenticate(r) \/ Acc!AnswerLost(r)
    BY <2>2, <1>1 DEF Acc!createUser, Acc!listOrganizationsForUser, Acc!workspaceFails,
       Acc!Authenticate, Acc!AnswerLost
  <2>3. ASSUME NEW s \in Sessions, Acc!createSessionForUser(r, s) PROVE SessionsTyped'
    <3>1. accReq[r].u \in People /\ accReq[r].op \in SignInOps
          /\ (accReq[r].op = "oauth" => accReq[r].state \in States)
      BY <2>3, <2>0 DEF Acc!createSessionForUser, AccReqTyped, SignInTyped, SignedInTyped,
         AccRequest, SignInOps, SignedInOps
    <3>2. signIns' \in [States -> Nat]
      BY <2>3, <1>0, <3>1 DEF Acc!createSessionForUser, SessionsTyped
    <3>3. QED
      BY <2>3, <1>0, <3>1, <3>2 DEF Acc!createSessionForUser, SessionsTyped, AuthSession
  <2>4. CASE Acc!ensurePersonalOrganization(r)
    <3>0. accReq[r].u \in People
      BY <2>4, <2>0 DEF Acc!ensurePersonalOrganization, AccReqTyped
    <3>1. workspaces' \in [People -> Nat]
      BY <2>4, <1>0, <3>0 DEF Acc!ensurePersonalOrganization, SessionsTyped
    <3>2. QED
      BY <2>4, <3>1, <1>0 DEF Acc!ensurePersonalOrganization, SessionsTyped
  <2>5. CASE Acc!rotateSessionRefreshToken(r)
    <3> DEFINE s == accReq[r].cookie.s
               row == [session[s] EXCEPT !.token = tokens + 1, !.state = IF @ = "expired" THEN "active" ELSE @]
    <3>1. s \in Sessions
      BY <2>5, <2>0 DEF Acc!rotateSessionRefreshToken, Acc!Rotation, AccReqTyped, SignInTyped,
         SignedInTyped, AccRequest, Cookie, SignInOps, SignedInOps
    <3>2. row \in AuthSession /\ row.token = tokens + 1 /\ row.user = session[s].user
          /\ (row.state # "none" => session[s].state # "none")
      <4>1. session[s] \in AuthSession /\ tokens + 1 \in Nat
        BY <3>1, <1>0 DEF SessionsTyped
      <4>2. (IF session[s].state = "expired" THEN "active" ELSE session[s].state)
               \in {"none", "active", "revoked", "expired"}
        BY <4>1 DEF AuthSession
      <4>3. QED
        BY <4>1, <4>2 DEF AuthSession
    <3>3. session' = [session EXCEPT ![s] = row] /\ tokens' = tokens + 1
          /\ UNCHANGED <<jar, workspaces, oauthStates, signIns>>
      BY <2>5 DEF Acc!rotateSessionRefreshToken, Acc!Rotation
    <3> HIDE DEF row
    <3>4. session' \in [Sessions -> AuthSession]
      BY <3>1, <3>2, <3>3, <1>0 DEF SessionsTyped
    <3>5. \A x \in Sessions : session'[x] = IF x = s THEN row ELSE session[x]
      BY <3>1, <3>3, <1>0 DEF SessionsTyped
    <3>6. ASSUME NEW x \in Sessions
          PROVE  session'[x].token <= tokens' /\ (session'[x].state # "none" => session'[x].user \in People)
      <4>1. session[x].token \in Nat /\ session[x].token <= tokens /\ tokens \in Nat
            /\ (session[x].state # "none" => session[x].user \in People)
        BY <1>0 DEF SessionsTyped, AuthSession
      <4>2. QED
        BY <3>1, <3>2, <3>3, <3>5, <4>1
    <3>7. QED
      BY <3>3, <3>4, <3>6, <1>0 DEF SessionsTyped
  <2>6. CASE Acc!logout(r) \/ Acc!logoutAll(r)
    BY <2>6, <1>0, RevokeKeeps DEF Acc!logout, Acc!logoutAll, SessionsTyped
  <2>7. CASE Acc!Answer(r)
    <3>1. accReq[r].set \in Cookie /\ Acc!NoCookie \in Cookie
      BY <2>0 DEF AccRequest, Cookie, Acc!NoCookie
    <3>2. jar' \in [Browsers -> Cookie]
      BY <2>7, <1>0, <3>1 DEF Acc!Answer, SessionsTyped
    <3>3. QED
      BY <2>7, <1>0, <3>2 DEF Acc!Answer, SessionsTyped
  <2>8. QED
    BY <1>2, <2>1, <2>2, <2>3, <2>4, <2>5, <2>6, <2>7 DEF Acc!RequestStep
<1>3. ASSUME NEW r \in Slots, NEW b \in Browsers, NEW u \in People, NEW x \in States,
             Acc!oauthCallback(r, b, x, u)
      PROVE  SessionsTyped'
  BY <1>3, <1>0 DEF Acc!oauthCallback, SessionsTyped
<1>4. ASSUME NEW r \in Slots, NEW b \in Browsers, NEW u \in People,
             Acc!signup(r, b, u) \/ Acc!login(r, b, u)
      PROVE  SessionsTyped'
  BY <1>4, <1>1 DEF Acc!signup, Acc!login
<1>5. ASSUME NEW r \in Slots, NEW b \in Browsers, NEW op, NEW bearer, Acc!SignedIn(r, b, op, bearer)
      PROVE  SessionsTyped'
  BY <1>5, <1>1 DEF Acc!SignedIn
<1>6. ASSUME NEW x \in States, Acc!oauthStart(x) PROVE SessionsTyped'
  BY <1>6, <1>0 DEF Acc!oauthStart, SessionsTyped
<1>7. ASSUME NEW s \in Sessions, Acc!SessionExpires(s) PROVE SessionsTyped'
  BY <1>7, <1>0 DEF Acc!SessionExpires, Acc!SessionActive, SessionsTyped, AuthSession
<1>8. CASE Acc!ApiRestarts
  BY <1>8, <1>0 DEF Acc!ApiRestarts, SessionsTyped
<1>9. QED
  BY <1>2, <1>3, <1>4, <1>5, <1>6, <1>7, <1>8 DEF Acc!Next

(* A quiet step changes no cookie: its requests go on, begin without one or  *)
(* end, and a browser whose request ends with a cookie it did not get is     *)
(* disturbed.                                                                *)
SameButPc(p, q) ==
    /\ p.op = q.op /\ p.b = q.b /\ p.u = q.u /\ p.state = q.state
    /\ p.cookie = q.cookie /\ p.bearer = q.bearer /\ p.stale = q.stale /\ p.set = q.set
WithoutCookie(p) == p.cookie = Acc!NoCookie /\ p.set = Acc!NoCookie /\ p.stale = "no" /\ p.op # "refresh"
Quiet ==
    /\ \A r \in Slots :
          \/ SameButPc(accReq'[r], accReq[r])
          \/ /\ WithoutCookie(accReq'[r])
             /\ accReq[r].set.s # None => accReq[r].b \in disturbed'
    /\ jar' = jar /\ disturbed \subseteq disturbed' /\ exchanged' = exchanged
    /\ \A s \in Sessions :
          /\ session'[s].token = session[s].token
          /\ session'[s].state = "none" => session[s].state = "none"
          /\ session[s].state = "revoked" => session'[s].state = "revoked"

CookiesInv ==
    /\ ExchangedAreOld /\ StaleStays
    /\ UnmadeIsUnknown /\ OneBrowser /\ MadeIsAlone
    /\ OneRefresh /\ SetIsCurrent /\ JarIsCurrent

LEMMA QuietSteps ==
  ASSUME AccountsInv, Quiet PROVE CookiesInv'
<1> USE PeopleAssumption
<1>0. /\ AccReqsTyped /\ SessionsTyped /\ ExchangedAreOld /\ StaleStays /\ UnmadeIsUnknown /\ OneBrowser
      /\ MadeIsAlone /\ OneRefresh /\ SetIsCurrent /\ JarIsCurrent
  BY DEF AccountsInv
<1>1. \A r \in Slots : \/ SameButPc(accReq'[r], accReq[r])
                       \/ /\ WithoutCookie(accReq'[r])
                          /\ accReq[r].set.s # None => accReq[r].b \in disturbed'
  BY DEF Quiet
<1>2. jar' = jar /\ disturbed \subseteq disturbed' /\ exchanged' = exchanged
  BY DEF Quiet
<1>3. \A s \in Sessions : /\ session'[s].token = session[s].token
                          /\ session'[s].state = "none" => session[s].state = "none"
                          /\ session[s].state = "revoked" => session'[s].state = "revoked"
  BY DEF Quiet
<1>4. \A r \in Slots : accReq[r].set.s \in Sessions \cup {None} /\ accReq[r].cookie.s \in Sessions \cup {None}
  BY <1>0 DEF AccReqsTyped, AccRequest, Cookie
<1>5. \A b \in Browsers : jar[b].s \in Sessions \cup {None}
  BY <1>0 DEF SessionsTyped, Cookie
<1>6. ASSUME NEW r \in Slots, NEW s \in Sessions, Presents(accReq'[r], s)
      PROVE  Presents(accReq[r], s) /\ SameButPc(accReq'[r], accReq[r])
  BY <1>1, <1>6 DEF Presents, SameButPc, WithoutCookie, Acc!NoCookie
<1>7. ExchangedAreOld'
  BY <1>0, <1>2, <1>3 DEF ExchangedAreOld
<1>8. StaleStays'
  BY <1>0, <1>1, <1>2, <1>3, <1>4 DEF StaleStays, SameButPc, WithoutCookie
<1>9. UnmadeIsUnknown'
  BY <1>0, <1>2, <1>3, <1>6 DEF UnmadeIsUnknown
<1>10. OneBrowser'
  BY <1>0, <1>2, <1>5, <1>6 DEF OneBrowser, SameButPc
<1>11. MadeIsAlone'
  BY <1>0, <1>1, <1>2, <1>4, <1>6 DEF MadeIsAlone, SameButPc, WithoutCookie, Acc!NoCookie
<1>12. OneRefresh'
  BY <1>0, <1>1, <1>2 DEF OneRefresh, Refreshes, SameButPc, WithoutCookie
<1>13. SetIsCurrent'
  BY <1>0, <1>1, <1>2, <1>3, <1>4 DEF SetIsCurrent, SameButPc, WithoutCookie, Acc!NoCookie
<1>14. JarIsCurrent'
  BY <1>0, <1>1, <1>2, <1>3, <1>5 DEF JarIsCurrent, Refreshes, SameButPc
<1>15. QED
  BY <1>7, <1>8, <1>9, <1>10, <1>11, <1>12, <1>13, <1>14 DEF CookiesInv

LEMMA GoesOn ==
  ASSUME AccReqsTyped, NEW r \in Slots, NEW pc, accReq' = [accReq EXCEPT ![r].pc = pc]
  PROVE  \A p \in Slots : SameButPc(accReq'[p], accReq[p]) /\ (p # r => accReq'[p] = accReq[p])
BY DEF AccReqsTyped, AccRequest, SameButPc

LEMMA QuietActions ==
  ASSUME AccountsInv, Acc!Next
  PROVE  \/ Quiet
         \/ \E r \in Slots :
               \/ Acc!rotateSessionRefreshToken(r) \/ Acc!Answer(r)
               \/ \E s \in Sessions : Acc!createSessionForUser(r, s)
               \/ \E b \in Browsers, op \in SignedInOps, bearer \in BOOLEAN : Acc!SignedIn(r, b, op, bearer)
<1>0. AccReqsTyped /\ SessionsTyped
  BY DEF AccountsInv
<1>1. ASSUME UNCHANGED <<jar, disturbed, exchanged>>,
             \A r \in Slots : \/ SameButPc(accReq'[r], accReq[r])
                              \/ WithoutCookie(accReq'[r]) /\ accReq[r].set.s = None,
             \A s \in Sessions : /\ session'[s].token = session[s].token
                                 /\ session'[s].state = "none" => session[s].state = "none"
                                 /\ session[s].state = "revoked" => session'[s].state = "revoked"
      PROVE  Quiet
  BY <1>1 DEF Quiet
<1>2. WithoutCookie(Acc!Idle)
  BY DEF WithoutCookie, Acc!Idle
<1>3. ASSUME NEW r \in Slots, NEW q, accReq' = [accReq EXCEPT ![r] = q], WithoutCookie(q),
             accReq[r].set.s = None, UNCHANGED <<jar, disturbed, exchanged, session>>
      PROVE  Quiet
  <2>1. \A p \in Slots : accReq'[p] = IF p = r THEN q ELSE accReq[p]
    BY <1>3, <1>0 DEF AccReqsTyped
  <2>2. QED
    BY <2>1, <1>1, <1>3 DEF SameButPc
<1>4. ASSUME NEW r \in Slots, Acc!RequestStep(r), ~Acc!rotateSessionRefreshToken(r), ~Acc!Answer(r),
             ~\E s \in Sessions : Acc!createSessionForUser(r, s)
      PROVE  Quiet
  <2>0. AccReqTyped(accReq[r])
    BY <1>0 DEF AccReqsTyped
  <2>1. ASSUME NEW pc, Acc!Go(r, pc), UNCHANGED <<jar, disturbed, exchanged, session>> PROVE Quiet
    BY <2>1, <1>0, <1>1, GoesOn DEF Acc!Go
  <2>2. CASE Acc!exchangeCode(r) \/ Acc!listOrganizationsForUser(r) \/ Acc!ensurePersonalOrganization(r)
             \/ Acc!workspaceFails(r)
    BY <2>2, <2>1 DEF Acc!exchangeCode, Acc!listOrganizationsForUser, Acc!ensurePersonalOrganization,
       Acc!workspaceFails
  <2>3. CASE Acc!createUser(r)
    <3>1. accReq[r].set.s = None
      BY <2>3, <2>0 DEF Acc!createUser, AccReqTyped
    <3>2. QED
      BY <2>3, <2>1, <3>1, <1>2, <1>3 DEF Acc!createUser, Acc!Refuse
  <2>4. CASE Acc!Authenticate(r)
    <3>1. accReq[r].set.s = None
      BY <2>4, <2>0 DEF Acc!Authenticate, AccReqTyped
    <3>2. QED
      BY <2>4, <2>1, <3>1, <1>2, <1>3 DEF Acc!Authenticate, Acc!Refuse
  <2>5. CASE Acc!logout(r) \/ Acc!logoutAll(r)
    <3>1. PICK S : Acc!Revoke(S) /\ Acc!Go(r, "answerClear") /\ UNCHANGED <<jar, disturbed, exchanged>>
      BY <2>5 DEF Acc!logout, Acc!logoutAll
    <3>2. \A p \in Slots : SameButPc(accReq'[p], accReq[p])
      BY <3>1, <1>0, GoesOn DEF Acc!Go
    <3>3. QED
      BY <3>1, <3>2, <1>0, <1>1, RevokeKeeps
  <2>6. CASE Acc!AnswerLost(r)
    <3>1. \A p \in Slots : accReq'[p] = IF p = r THEN Acc!Idle ELSE accReq[p]
      BY <2>6, <1>0 DEF Acc!AnswerLost, Acc!Refuse, AccReqsTyped
    <3>2. QED
      BY <2>6, <3>1, <1>2 DEF Acc!AnswerLost, Quiet, SameButPc
  <2>7. QED
    BY <1>4, <2>2, <2>3, <2>4, <2>5, <2>6 DEF Acc!RequestStep
<1>5. ASSUME NEW r \in Slots, NEW b \in Browsers, NEW u \in People,
             \/ Acc!signup(r, b, u) \/ Acc!login(r, b, u)
             \/ \E x \in States : Acc!oauthCallback(r, b, x, u)
      PROVE  Quiet
  <2>1. accReq[r].set.s = None
    BY <1>5, <1>0 DEF Acc!signup, Acc!login, Acc!oauthCallback, Acc!Begin, AccReqsTyped, AccReqTyped,
       Acc!Idle, Acc!NoCookie
  <2>2. CASE Acc!signup(r, b, u)
    <3> DEFINE q == [Acc!Idle EXCEPT !.pc = "create", !.op = "signup", !.b = b, !.u = u]
    <3>1. accReq' = [accReq EXCEPT ![r] = q] /\ UNCHANGED <<jar, disturbed, exchanged, session>>
      BY <2>2 DEF Acc!signup, Acc!Begin
    <3>2. WithoutCookie(q)
      BY DEF WithoutCookie, Acc!Idle
    <3> HIDE DEF q
    <3>3. QED
      BY <3>1, <3>2, <2>1, <1>3
  <2>3. CASE Acc!login(r, b, u)
    <3> DEFINE q == [Acc!Idle EXCEPT !.pc = "session", !.op = "login", !.b = b, !.u = u]
    <3>1. accReq' = [accReq EXCEPT ![r] = q] /\ UNCHANGED <<jar, disturbed, exchanged, session>>
      BY <2>3 DEF Acc!login, Acc!Begin
    <3>2. WithoutCookie(q)
      BY DEF WithoutCookie, Acc!Idle
    <3> HIDE DEF q
    <3>3. QED
      BY <3>1, <3>2, <2>1, <1>3
  <2>4. ASSUME NEW x \in States, Acc!oauthCallback(r, b, x, u) PROVE Quiet
    <3>1. accReq' = [accReq EXCEPT ![r] = Acc!Callback(r, b, x, u)]
          /\ UNCHANGED <<jar, disturbed, exchanged, session>>
      BY <2>4 DEF Acc!oauthCallback, Acc!Begin
    <3>2. WithoutCookie(Acc!Callback(r, b, x, u))
      BY DEF WithoutCookie, Acc!Callback, Acc!Idle
    <3>3. QED
      BY <3>1, <3>2, <2>1, <1>3
  <2>5. QED
    BY <1>5, <2>2, <2>3, <2>4
<1>6. ASSUME NEW x \in States, Acc!oauthStart(x) PROVE Quiet
  BY <1>6, <1>1 DEF Acc!oauthStart, SameButPc
<1>7. ASSUME NEW s \in Sessions, Acc!SessionExpires(s) PROVE Quiet
  BY <1>7, <1>1, <1>0 DEF Acc!SessionExpires, Acc!SessionActive, SameButPc, SessionsTyped, AuthSession
<1>8. CASE Acc!ApiRestarts
  <2>1. \A r \in Slots : accReq'[r] = Acc!Idle /\ (accReq[r].set.s # None => accReq[r].b \in disturbed')
    BY <1>8, <1>0 DEF Acc!ApiRestarts, AccReqsTyped, AccReqTyped
  <2>2. QED
    BY <1>8, <2>1, <1>2 DEF Acc!ApiRestarts, Quiet
<1>9. QED
  BY <1>4, <1>5, <1>6, <1>7, <1>8 DEF Acc!Next, SignedInOps

(* The steps that are not quiet, in the same terms.                          *)
LEMMA NewSessionKeepsCookies ==
  ASSUME AccountsInv, NEW r \in Slots, NEW s \in Sessions, Acc!createSessionForUser(r, s)
  PROVE  CookiesInv'
<1> USE PeopleAssumption
<1>0. /\ AccReqsTyped /\ SessionsTyped /\ ExchangedAreOld /\ StaleStays /\ UnmadeIsUnknown /\ OneBrowser
      /\ MadeIsAlone /\ OneRefresh /\ SetIsCurrent /\ JarIsCurrent
  BY DEF AccountsInv
<1>1. /\ AccReqTyped(accReq[r]) /\ accReq[r].pc = "session" /\ accReq[r].op \in SignInOps
      /\ accReq[r].cookie = Acc!NoCookie /\ accReq[r].set.s = None
  BY <1>0 DEF Acc!createSessionForUser, AccReqsTyped, AccReqTyped, SignInTyped, SignedInTyped,
     AccRequest, SignInOps, SignedInOps
<1>2. /\ \A p \in Slots : p # r => accReq'[p] = accReq[p]
      /\ accReq'[r].cookie = Acc!NoCookie /\ accReq'[r].set = [s |-> s, token |-> tokens + 1]
      /\ accReq'[r].b = accReq[r].b /\ accReq'[r].op = accReq[r].op /\ accReq'[r].stale = accReq[r].stale
      /\ accReq'[r].bearer = accReq[r].bearer
  BY <1>0, <1>1 DEF Acc!createSessionForUser, AccReqsTyped, AccRequest
<1>3. /\ \A x \in Sessions \ {s} : session'[x] = session[x]
      /\ session'[s].state = "active" /\ session'[s].token = tokens + 1 /\ session[s].state = "none"
      /\ jar' = jar /\ disturbed' = disturbed /\ exchanged' = exchanged
  BY <1>0 DEF Acc!createSessionForUser, SessionsTyped
<1>4. /\ \A p \in Slots : accReq[p].set.s # s /\ accReq[p].cookie.s # s
      /\ \A b \in Browsers : jar[b].s # s
  BY <1>0, <1>3 DEF UnmadeIsUnknown, Presents
<1>5. \A p \in Slots : accReq[p].set.s \in Sessions \cup {None} /\ accReq[p].cookie.s \in Sessions \cup {None}
  BY <1>0 DEF AccReqsTyped, AccRequest, Cookie
<1>6. \A b \in Browsers : jar[b].s \in Sessions \cup {None}
  BY <1>0 DEF SessionsTyped, Cookie
<1>7. ExchangedAreOld'
  <2>1. \A e \in exchanged : e[1] \in Sessions /\ e[2] \in Nat /\ e[2] < session[e[1]].token
                             /\ session[e[1]].token \in Nat /\ session[e[1]].token <= tokens
    BY <1>0 DEF ExchangedAreOld, SessionsTyped, AuthSession
  <2>2. QED
    BY <2>1, <1>0, <1>3 DEF ExchangedAreOld, SessionsTyped
<1>8. StaleStays'
  BY <1>0, <1>1, <1>2, <1>3, <1>4, <1>5 DEF StaleStays, Acc!NoCookie, SignInTyped, AccReqTyped
<1>9. UnmadeIsUnknown'
  BY <1>0, <1>2, <1>3 DEF UnmadeIsUnknown, Presents, Acc!NoCookie
<1>10. OneBrowser'
  BY <1>0, <1>2, <1>3, <1>4, <1>6 DEF OneBrowser, Presents, Acc!NoCookie
<1>11. MadeIsAlone'
  BY <1>0, <1>2, <1>3, <1>4, <1>5 DEF MadeIsAlone, Presents, Acc!NoCookie
<1>12. OneRefresh'
  BY <1>0, <1>2, <1>3 DEF OneRefresh, Refreshes
<1>13. SetIsCurrent'
  BY <1>0, <1>2, <1>3, <1>4, <1>5 DEF SetIsCurrent
<1>14. JarIsCurrent'
  BY <1>0, <1>1, <1>2, <1>3, <1>4, <1>6 DEF JarIsCurrent, Refreshes, SignInOps
<1>15. QED
  BY <1>7, <1>8, <1>9, <1>10, <1>11, <1>12, <1>13, <1>14 DEF CookiesInv

LEMMA RotationKeepsCookies ==
  ASSUME AccountsInv, NEW r \in Slots, Acc!rotateSessionRefreshToken(r)
  PROVE  CookiesInv'
<1> USE PeopleAssumption
<1> DEFINE s == accReq[r].cookie.s
           b == accReq[r].b
<1>0. /\ AccReqsTyped /\ SessionsTyped /\ ExchangedAreOld /\ StaleStays /\ UnmadeIsUnknown /\ OneBrowser
      /\ MadeIsAlone /\ OneRefresh /\ SetIsCurrent /\ JarIsCurrent
  BY DEF AccountsInv
<1>1. /\ accReq[r].pc = "rotate" /\ accReq[r].op = "refresh" /\ accReq[r].set.s = None
      /\ s \in Sessions /\ b \in Browsers /\ accReq[r] \in AccRequest
  BY <1>0 DEF Acc!rotateSessionRefreshToken, Acc!Rotation, AccReqsTyped, AccReqTyped, SignInTyped,
     SignedInTyped, AccRequest, Cookie, SignInOps, SignedInOps
<1>2. /\ \A p \in Slots : p # r => accReq'[p] = accReq[p]
      /\ accReq'[r].cookie = accReq[r].cookie /\ accReq'[r].set.s = s /\ accReq'[r].set.token = tokens + 1
      /\ accReq'[r].b = b /\ accReq'[r].op = "refresh" /\ accReq'[r].stale = accReq[r].stale
      /\ accReq'[r].bearer = accReq[r].bearer
  BY <1>0, <1>1 DEF Acc!rotateSessionRefreshToken, Acc!Rotation, Acc!NewCookie, AccReqsTyped, AccRequest, Cookie
<1>3. /\ \A x \in Sessions \ {s} : session'[x] = session[x]
      /\ session'[s].token = tokens + 1
      /\ session'[s].state = "none" => session[s].state = "none"
      /\ session[s].state = "revoked" => session'[s].state = "revoked"
      /\ jar' = jar /\ disturbed' = disturbed /\ exchanged' = exchanged \cup {<<s, session[s].token>>}
  <2>1. session[s] \in AuthSession
    BY <1>0, <1>1 DEF SessionsTyped
  <2>2. QED
    BY <2>1, <1>0, <1>1 DEF Acc!rotateSessionRefreshToken, Acc!Rotation, SessionsTyped, AuthSession
<1>5. \A p \in Slots : accReq[p].set.s \in Sessions \cup {None} /\ accReq[p].cookie.s \in Sessions \cup {None}
  BY <1>0 DEF AccReqsTyped, AccRequest, Cookie
<1>6. \A c \in Browsers : jar[c].s \in Sessions \cup {None}
  BY <1>0 DEF SessionsTyped, Cookie
<1> HIDE DEF s, b
<1>p. \A p \in Slots, x \in Sessions : Presents(accReq'[p], x) => Presents(accReq[p], x)
  BY <1>1, <1>2 DEF Presents, s
<1>q. Presents(accReq[r], s)
  BY DEF Presents, s
<1>7. ExchangedAreOld'
  <2>1. \A e \in exchanged : e[1] \in Sessions /\ e[2] \in Nat /\ e[2] < session[e[1]].token
                             /\ session[e[1]].token \in Nat /\ session[e[1]].token <= tokens
    BY <1>0 DEF ExchangedAreOld, SessionsTyped, AuthSession
  <2>2. session[s].token \in Nat /\ session[s].token <= tokens /\ tokens \in Nat
    BY <1>0, <1>1 DEF SessionsTyped, AuthSession
  <2>3. \A e \in exchanged' : e \in exchanged \/ e = <<s, session[s].token>>
    BY <1>3
  <2>4. QED
    BY <2>1, <2>2, <2>3, <1>0, <1>1, <1>3 DEF ExchangedAreOld
<1>8. StaleStays'
  BY <1>0, <1>1, <1>2, <1>3, <1>5 DEF StaleStays
<1>9. UnmadeIsUnknown'
  BY <1>0, <1>p, <1>3 DEF UnmadeIsUnknown
<1>10. OneBrowser'
  <2>1. \A p \in Slots : accReq'[p].b = accReq[p].b
    BY <1>2 DEF b
  <2>2. QED
    BY <2>1, <1>0, <1>p, <1>3, <1>6 DEF OneBrowser
<1>11. MadeIsAlone'
  BY <1>0, <1>2, <1>3, <1>5, <1>p DEF MadeIsAlone
<1>12. OneRefresh'
  BY <1>0, <1>1, <1>2, <1>3 DEF OneRefresh, Refreshes, b
<1>13. SetIsCurrent'
  <2> SUFFICES ASSUME NEW p \in Slots, accReq'[p].b \notin disturbed, accReq'[p].set.s # None
               PROVE  accReq'[p].set.token = session'[accReq'[p].set.s].token
    BY <1>3 DEF SetIsCurrent
  <2>1. CASE p = r
    BY <2>1, <1>2, <1>3
  <2>2. CASE p # r /\ accReq[p].set.s = s
    <3>1. accReq[p].op = "refresh"
      BY <2>2, <1>0, <1>1, <1>q DEF MadeIsAlone
    <3>2. accReq[p].b = b
      BY <2>2, <1>0, <1>1, <1>q DEF OneBrowser, Presents, b
    <3>3. b \notin disturbed
      BY <3>2, <2>2, <1>2
    <3>4. QED
      BY <3>1, <3>2, <3>3, <2>2, <1>0, <1>1 DEF OneRefresh, Refreshes, b
  <2>3. CASE p # r /\ accReq[p].set.s # s
    BY <2>3, <1>0, <1>2, <1>3, <1>5 DEF SetIsCurrent
  <2>4. QED
    BY <2>1, <2>2, <2>3
<1>14. JarIsCurrent'
  <2> SUFFICES ASSUME NEW c \in Browsers, c \notin disturbed, jar[c].s # None
               PROVE  \/ jar[c].token = session'[jar[c].s].token
                      \/ \E p \in Slots : Refreshes(accReq'[p], c) /\ accReq'[p].set.s = jar[c].s
    BY <1>3 DEF JarIsCurrent
  <2>1. CASE jar[c].s = s
    <3>1. b = c
      BY <2>1, <1>0, <1>q DEF OneBrowser, b
    <3>2. Refreshes(accReq'[r], c) /\ accReq'[r].set.s = jar[c].s
      BY <2>1, <3>1, <1>2 DEF Refreshes
    <3>3. QED
      BY <3>2
  <2>2. CASE jar[c].s # s
    <3>1. CASE jar[c].token = session[jar[c].s].token
      BY <3>1, <2>2, <1>3, <1>6
    <3>2. ASSUME NEW p \in Slots, Refreshes(accReq[p], c), accReq[p].set.s = jar[c].s
          PROVE  Refreshes(accReq'[p], c) /\ accReq'[p].set.s = jar[c].s
      BY <3>2, <1>1, <1>2
    <3>3. QED
      BY <3>1, <3>2, <1>0 DEF JarIsCurrent
  <2>3. QED
    BY <2>1, <2>2
<1>15. QED
  BY <1>7, <1>8, <1>9, <1>10, <1>11, <1>12, <1>13, <1>14 DEF CookiesInv

LEMMA BeginningKeepsCookies ==
  ASSUME AccountsInv, NEW r \in Slots, NEW b \in Browsers, NEW op \in SignedInOps, NEW bearer \in BOOLEAN,
         Acc!SignedIn(r, b, op, bearer)
  PROVE  CookiesInv'
<1> USE PeopleAssumption
<1> DEFINE s == jar[b].s
<1>0. /\ AccReqsTyped /\ SessionsTyped /\ ExchangedAreOld /\ StaleStays /\ UnmadeIsUnknown /\ OneBrowser
      /\ MadeIsAlone /\ OneRefresh /\ SetIsCurrent /\ JarIsCurrent
  BY DEF AccountsInv
<1>1. accReq[r] = Acc!Idle /\ s \in Sessions
  BY <1>0 DEF Acc!SignedIn, Acc!Begin, AccReqsTyped, AccReqTyped, SessionsTyped, Cookie
<1>2. /\ \A p \in Slots : p # r => accReq'[p] = accReq[p]
      /\ accReq'[r].cookie = jar[b] /\ accReq'[r].set = Acc!NoCookie /\ accReq'[r].b = b
      /\ accReq'[r].op = op /\ accReq'[r].bearer = bearer /\ accReq'[r].stale = Acc!Stale(jar[b], bearer)
  <2> DEFINE q == [Acc!Idle EXCEPT !.pc = "authenticate", !.op = op, !.b = b, !.bearer = bearer,
                             !.cookie = jar[b], !.u = session[jar[b].s].user,
                             !.stale = Acc!Stale(jar[b], bearer)]
  <2>1. accReq' = [accReq EXCEPT ![r] = q]
    BY DEF Acc!SignedIn, Acc!Begin
  <2>2. /\ q.cookie = jar[b] /\ q.set = Acc!NoCookie /\ q.b = b
        /\ q.op = op /\ q.bearer = bearer /\ q.stale = Acc!Stale(jar[b], bearer)
    BY DEF Acc!Idle
  <2> HIDE DEF q
  <2>3. QED
    BY <2>1, <2>2, <1>0 DEF AccReqsTyped
<1>3. /\ UNCHANGED <<session, jar, exchanged>> /\ disturbed \subseteq disturbed'
      /\ op = "refresh" /\ Acc!InFlight(b, op) => b \in disturbed'
  BY DEF Acc!SignedIn
<1>5. \A p \in Slots : accReq[p].set.s \in Sessions \cup {None} /\ accReq[p].cookie.s \in Sessions \cup {None}
  BY <1>0 DEF AccReqsTyped, AccRequest, Cookie
<1>6. \A c \in Browsers : jar[c].s \in Sessions \cup {None}
  BY <1>0 DEF SessionsTyped, Cookie
<1> HIDE DEF s
<1>p. \A p \in Slots, x \in Sessions : Presents(accReq'[p], x) => Presents(accReq[p], x) \/ (p = r /\ x = s)
  <2>1. \A p \in Slots, x \in Sessions : p = r /\ Presents(accReq'[p], x) => x = s
    BY <1>2 DEF Presents, s, Acc!NoCookie
  <2>2. \A p \in Slots, x \in Sessions : p # r /\ Presents(accReq'[p], x) => Presents(accReq[p], x)
    BY <1>2 DEF Presents
  <2>3. QED
    BY <2>1, <2>2
<1>7. ExchangedAreOld'
  BY <1>0, <1>3 DEF ExchangedAreOld
<1>8. StaleStays'
  <2>1. Acc!Stale(jar[b], bearer) = "revoked" => session[jar[b].s].state = "revoked"
    BY DEF Acc!Stale
  <2>2. Acc!Stale(jar[b], bearer) = "exchanged" => ~bearer /\ <<jar[b].s, jar[b].token>> \in exchanged
    BY DEF Acc!Stale
  <2>3. QED
    BY <2>1, <2>2, <1>0, <1>1, <1>2, <1>3 DEF StaleStays, s
<1>9. UnmadeIsUnknown'
  BY <1>0, <1>p, <1>3 DEF UnmadeIsUnknown, s
<1>10. OneBrowser'
  <2>1. \A c \in Browsers, p \in Slots :
           jar[c].s # None /\ Presents(accReq'[p], jar[c].s) => accReq'[p].b = c
    BY <1>0, <1>p, <1>2, <1>6 DEF OneBrowser, s, Presents, Acc!NoCookie
  <2>2. ASSUME NEW p \in Slots, NEW q \in Slots, NEW x \in Sessions,
               Presents(accReq'[p], x), Presents(accReq'[q], x)
        PROVE  accReq'[p].b = accReq'[q].b
    <3>1. CASE x = s
      BY <3>1, <2>1, <2>2, <1>1 DEF s
    <3>2. CASE x # s
      <4>1. p # r /\ q # r
        BY <3>2, <2>2, <1>1, <1>2 DEF Presents, s, Acc!NoCookie
      <4>2. QED
        BY <4>1, <2>2, <1>0, <1>2 DEF OneBrowser
    <3>3. QED
      BY <3>1, <3>2
  <2>3. QED
    BY <2>1, <2>2, <1>0, <1>3 DEF OneBrowser
<1>11. MadeIsAlone'
  <2> SUFFICES ASSUME NEW p \in Slots, accReq'[p].set.s # None, accReq'[p].op # "refresh"
               PROVE  /\ \A c \in Browsers : jar[c].s # accReq'[p].set.s
                      /\ \A q \in Slots : Presents(accReq'[q], accReq'[p].set.s) => q = p
    BY <1>3 DEF MadeIsAlone
  <2>1. p # r
    BY <1>2 DEF Acc!NoCookie
  <2>2. accReq[p].set.s \in Sessions /\ accReq'[p] = accReq[p]
    BY <2>1, <1>2, <1>5
  <2>3. QED
    BY <2>2, <1>0, <1>p DEF MadeIsAlone, s
<1>12. OneRefresh'
  <2> SUFFICES ASSUME NEW c \in Browsers, c \notin disturbed', NEW p \in Slots, NEW q \in Slots,
                      Refreshes(accReq'[p], c), Refreshes(accReq'[q], c)
               PROVE  p = q
    BY DEF OneRefresh
  <2>1. CASE p # r /\ q # r
    BY <2>1, <1>0, <1>2, <1>3 DEF OneRefresh
  <2>2. ASSUME NEW x \in Slots, x # r, Refreshes(accReq'[x], c), Refreshes(accReq'[r], c) PROVE FALSE
    BY <2>2, <1>2, <1>3 DEF Refreshes, Acc!InFlight
  <2>3. QED
    BY <2>1, <2>2
<1>13. SetIsCurrent'
  BY <1>0, <1>2, <1>3 DEF SetIsCurrent, Acc!NoCookie
<1>14. JarIsCurrent'
  <2>1. accReq[r].op # "refresh"
    BY <1>1 DEF Acc!Idle
  <2>2. \A p \in Slots, c \in Browsers : Refreshes(accReq[p], c) => p # r /\ accReq'[p] = accReq[p]
    BY <2>1, <1>2 DEF Refreshes
  <2>3. QED
    BY <2>2, <1>0, <1>3 DEF JarIsCurrent
<1>15. QED
  BY <1>7, <1>8, <1>9, <1>10, <1>11, <1>12, <1>13, <1>14 DEF CookiesInv

LEMMA AnswerKeepsCookies ==
  ASSUME AccountsInv, NEW r \in Slots, Acc!Answer(r)
  PROVE  CookiesInv'
<1> USE PeopleAssumption
<1> DEFINE b == accReq[r].b
<1>0. /\ AccReqsTyped /\ SessionsTyped /\ ExchangedAreOld /\ StaleStays /\ UnmadeIsUnknown /\ OneBrowser
      /\ MadeIsAlone /\ OneRefresh /\ SetIsCurrent /\ JarIsCurrent
  BY DEF AccountsInv
<1>1. /\ b \in Browsers /\ accReq[r].set.s \in Sessions \cup {None}
      /\ accReq[r].op \in SignInOps \cup SignedInOps
      /\ accReq[r].set.s # None /\ accReq[r].op = "refresh" => accReq[r].set.s = accReq[r].cookie.s
      /\ accReq[r].set.s # None => accReq[r].pc # "answerClear"
  BY <1>0 DEF Acc!Answer, Acc!Answers, AccReqsTyped, AccReqTyped, AccRequest, Cookie
<1>2. \A p \in Slots : accReq'[p] = IF p = r THEN Acc!Idle ELSE accReq[p]
  BY <1>0 DEF Acc!Answer, Acc!Refuse, AccReqsTyped
<1>3. /\ UNCHANGED <<session, disturbed, exchanged>>
      /\ \A c \in Browsers : c # b => jar'[c] = jar[c]
      /\ \/ jar'[b] = jar[b] /\ accReq[r].set.s = None
         \/ jar'[b] = Acc!NoCookie
         \/ jar'[b] = accReq[r].set /\ accReq[r].set.s # None
  BY <1>0, <1>1 DEF Acc!Answer, SessionsTyped
<1>4. \A p \in Slots, x \in Sessions : Presents(accReq'[p], x) => p # r /\ Presents(accReq[p], x)
  BY <1>2 DEF Presents, Acc!Idle, Acc!NoCookie
<1>5. \A p \in Slots : accReq[p].set.s \in Sessions \cup {None} /\ accReq[p].cookie.s \in Sessions \cup {None}
  BY <1>0 DEF AccReqsTyped, AccRequest, Cookie
<1>6. \A c \in Browsers : jar[c].s \in Sessions \cup {None} /\ jar'[c].s \in Sessions \cup {None}
  BY <1>0, <1>1, <1>3 DEF SessionsTyped, Cookie, Acc!NoCookie
<1> HIDE DEF b
<1>m. \A c \in Browsers : jar'[c].s # None =>
         jar'[c] = jar[c] \/ (c = b /\ jar'[c] = accReq[r].set /\ Presents(accReq[r], jar'[c].s))
  <2>1. \A c \in Browsers : c = b /\ jar'[c].s # None => jar'[c] = jar[c] \/ jar'[c] = accReq[r].set
    BY <1>3 DEF Acc!NoCookie
  <2>2. \A c \in Browsers : jar'[c] = accReq[r].set => Presents(accReq[r], jar'[c].s)
    BY DEF Presents
  <2>3. \A c \in Browsers : c # b => jar'[c] = jar[c]
    BY <1>3
  <2>4. QED
    BY <2>1, <2>2, <2>3
<1>7. ExchangedAreOld'
  BY <1>0, <1>3 DEF ExchangedAreOld
<1>8. StaleStays'
  BY <1>0, <1>2, <1>3 DEF StaleStays, Acc!Idle
<1>9. UnmadeIsUnknown'
  BY <1>0, <1>m, <1>3, <1>4, <1>6 DEF UnmadeIsUnknown
<1>10. OneBrowser'
  <2>0. \A p \in Slots : p # r => accReq'[p].b = accReq[p].b
    BY <1>2
  <2>1. \A c, d \in Browsers : jar'[c].s # None /\ jar'[c].s = jar'[d].s => c = d
    BY <1>0, <1>m DEF OneBrowser, b
  <2>2. \A c \in Browsers, p \in Slots :
           jar'[c].s # None /\ Presents(accReq'[p], jar'[c].s) => accReq'[p].b = c
    BY <2>0, <1>0, <1>m, <1>4, <1>6 DEF OneBrowser, b
  <2>3. QED
    BY <2>0, <2>1, <2>2, <1>0, <1>4 DEF OneBrowser
<1>11. MadeIsAlone'
  <2> SUFFICES ASSUME NEW p \in Slots, accReq'[p].set.s # None, accReq'[p].op # "refresh"
               PROVE  /\ \A c \in Browsers : jar'[c].s # accReq'[p].set.s
                      /\ \A q \in Slots : Presents(accReq'[q], accReq'[p].set.s) => q = p
    BY DEF MadeIsAlone
  <2>1. p # r /\ accReq'[p] = accReq[p] /\ accReq[p].set.s \in Sessions
    BY <1>2, <1>5 DEF Acc!Idle, Acc!NoCookie
  <2>2. QED
    BY <2>1, <1>0, <1>4, <1>m DEF MadeIsAlone
<1>12. OneRefresh'
  BY <1>0, <1>2, <1>3 DEF OneRefresh, Refreshes, Acc!Idle
<1>13. SetIsCurrent'
  BY <1>0, <1>2, <1>3 DEF SetIsCurrent, Acc!Idle, Acc!NoCookie
<1>14. JarIsCurrent'
  <2> SUFFICES ASSUME NEW c \in Browsers, c \notin disturbed, jar'[c].s # None
               PROVE  \/ jar'[c].token = session[jar'[c].s].token
                      \/ \E p \in Slots : Refreshes(accReq'[p], c) /\ accReq'[p].set.s = jar'[c].s
    BY <1>3 DEF JarIsCurrent
  <2>1. CASE c = b /\ jar'[c] = accReq[r].set
    BY <2>1, <1>0 DEF SetIsCurrent, b
  <2>2. CASE jar'[c] = jar[c] /\ (c = b => accReq[r].set.s = None)
    <3>1. ASSUME NEW p \in Slots, Refreshes(accReq[p], c), accReq[p].set.s = jar[c].s
          PROVE  Refreshes(accReq'[p], c) /\ accReq'[p].set.s = jar'[c].s
      BY <3>1, <2>2, <1>2 DEF Refreshes, b
    <3>2. QED
      BY <3>1, <2>2, <1>0 DEF JarIsCurrent
  <2>3. QED
    BY <2>1, <2>2, <1>3 DEF Acc!NoCookie
<1>15. QED
  BY <1>7, <1>8, <1>9, <1>10, <1>11, <1>12, <1>13, <1>14 DEF CookiesInv

LEMMA NextCookiesInv == AccountsInv /\ Acc!Next => CookiesInv'
BY QuietActions, QuietSteps, NewSessionKeepsCookies, RotationKeepsCookies, BeginningKeepsCookies,
   AnswerKeepsCookies

(* Only Authenticate lets a request in, and it reads the row that is stale.  *)
LEMMA NextStaleIsOut == AccountsInv /\ Acc!Next => StaleIsOut'
<1> SUFFICES ASSUME AccountsInv, Acc!Next PROVE StaleIsOut'
  OBVIOUS
<1>0. AccReqsTyped /\ SessionsTyped /\ ExchangedAreOld /\ StaleStays /\ StaleIsOut
  BY DEF AccountsInv
<1> DEFINE Out(q) == Acc!Authenticated(q) => accReq[q].stale = "no"
<1>a. \A p \in Slots : accReq[p].stale \in {"no", "revoked", "exchanged"} /\ Out(p)
  BY <1>0 DEF AccReqsTyped, AccRequest, StaleIsOut, Acc!RevokedStaysOut, Acc!ExchangedStaysOut
<1>b. ASSUME \A p \in Slots : \/ accReq'[p] = accReq[p]
                              \/ accReq'[p].stale = "no"
                              \/ SameButPc(accReq'[p], accReq[p]) /\ Acc!Authenticated(p)
                              \/ accReq'[p].pc = "authenticate"
      PROVE  StaleIsOut'
  BY <1>a, <1>b DEF StaleIsOut, Acc!RevokedStaysOut, Acc!ExchangedStaysOut, Acc!Authenticated, SameButPc
<1>c. ASSUME NEW r \in Slots, NEW q, accReq' = [accReq EXCEPT ![r] = q],
             q.stale = "no" \/ q.pc = "authenticate"
      PROVE  StaleIsOut'
  <2>1. \A p \in Slots : accReq'[p] = IF p = r THEN q ELSE accReq[p]
    BY <1>c, <1>0 DEF AccReqsTyped
  <2>2. QED
    BY <2>1, <1>b, <1>c
<1>1. ASSUME NEW r \in Slots, Acc!RequestStep(r) PROVE StaleIsOut'
  <2>0. AccReqTyped(accReq[r]) /\ accReq[r] \in AccRequest
    BY <1>0 DEF AccReqsTyped, AccReqTyped
  <2>1. ASSUME NEW pc, Acc!Go(r, pc), accReq[r].stale = "no" \/ Acc!Authenticated(r)
        PROVE  StaleIsOut'
    <3>1. \A p \in Slots : SameButPc(accReq'[p], accReq[p]) /\ (p # r => accReq'[p] = accReq[p])
      BY <2>1, <1>0, GoesOn DEF Acc!Go
    <3>2. QED
      BY <3>1, <2>1, <1>b DEF SameButPc
  <2>2. CASE accReq[r].pc \in {"exchange", "create", "session"}
    <3>1. accReq[r].stale = "no"
      BY <2>2, <2>0 DEF AccReqTyped, SignInTyped, SignedInTyped, AccRequest, SignInOps, SignedInOps
    <3>2. CASE Acc!exchangeCode(r)
      BY <3>1, <3>2, <2>1 DEF Acc!exchangeCode
    <3>3. CASE Acc!createUser(r)
      BY <3>1, <3>3, <2>1, <1>c DEF Acc!createUser, Acc!Refuse, Acc!Idle
    <3>4. ASSUME NEW s \in Sessions, Acc!createSessionForUser(r, s) PROVE StaleIsOut'
      <4>1. \A p \in Slots : p # r => accReq'[p] = accReq[p]
        BY <3>4, <1>0 DEF Acc!createSessionForUser, AccReqsTyped
      <4>2. accReq'[r].stale = "no"
        BY <3>1, <3>4, <2>0, <1>0 DEF Acc!createSessionForUser, AccReqsTyped, AccRequest
      <4>3. QED
        BY <4>1, <4>2, <1>b
    <3>5. QED
      BY <1>1, <2>2, <3>2, <3>3, <3>4 DEF Acc!RequestStep, Acc!listOrganizationsForUser,
         Acc!ensurePersonalOrganization, Acc!workspaceFails, Acc!Authenticate,
         Acc!rotateSessionRefreshToken, Acc!Rotation, Acc!logout, Acc!logoutAll, Acc!Answer,
         Acc!AnswerLost, Acc!Answers
  <2>3. CASE Acc!Authenticate(r)
    <3>1. CASE Acc!Go(r, Acc!AfterAuthentication(accReq[r].op)) /\ Acc!authenticates(r)
      <4>1. accReq[r].stale = "no"
        <5>1. accReq[r].stale # "revoked"
          BY <3>1, <1>0 DEF Acc!authenticates, Acc!SessionActive, StaleStays
        <5>2. accReq[r].stale # "exchanged"
          <6> SUFFICES ASSUME accReq[r].stale = "exchanged" PROVE FALSE
            OBVIOUS
          <6>1. <<accReq[r].cookie.s, accReq[r].cookie.token>> \in exchanged /\ ~accReq[r].bearer
            BY <1>0 DEF StaleStays
          <6>2. accReq[r].cookie.token < session[accReq[r].cookie.s].token
            BY <6>1, <1>0 DEF ExchangedAreOld
          <6>3. session[accReq[r].cookie.s].token = accReq[r].cookie.token
            BY <6>1, <3>1 DEF Acc!authenticates
          <6>4. accReq[r].cookie.token \in Nat
            BY <2>0 DEF AccRequest, Cookie
          <6>5. QED
            BY <6>2, <6>3, <6>4
        <5>3. QED
          BY <5>1, <5>2, <1>a
      <4>2. QED
        BY <4>1, <3>1, <2>1
    <3>2. CASE Acc!Refuse(r)
      BY <3>2, <1>c DEF Acc!Refuse, Acc!Idle
    <3>3. QED
      BY <2>3, <3>1, <3>2 DEF Acc!Authenticate
  <2>4. CASE accReq[r].pc \in {"workspace", "createWorkspace", "rotate", "revoke", "revokeAll"}
    <3>1. accReq[r].stale = "no" \/ Acc!Authenticated(r)
      BY <2>4, <2>0 DEF AccReqTyped, SignInTyped, SignedInTyped, AccRequest, SignInOps, SignedInOps,
         Acc!Authenticated
    <3>2. CASE \/ Acc!listOrganizationsForUser(r) \/ Acc!ensurePersonalOrganization(r)
               \/ Acc!workspaceFails(r) \/ Acc!logout(r) \/ Acc!logoutAll(r)
      BY <3>1, <3>2, <2>1 DEF Acc!listOrganizationsForUser, Acc!ensurePersonalOrganization,
         Acc!workspaceFails, Acc!logout, Acc!logoutAll
    <3>3. CASE Acc!rotateSessionRefreshToken(r)
      <4>1. \A p \in Slots : p # r => accReq'[p] = accReq[p]
        BY <3>3, <1>0 DEF Acc!rotateSessionRefreshToken, Acc!Rotation, AccReqsTyped
      <4>2. accReq'[r].stale = accReq[r].stale
        BY <3>3, <2>0, <1>0 DEF Acc!rotateSessionRefreshToken, Acc!Rotation, AccReqsTyped, AccRequest
      <4>3. accReq[r].stale = "no"
        BY <3>1, <1>a
      <4>4. QED
        BY <4>1, <4>2, <4>3, <1>b
    <3>4. QED
      BY <1>1, <2>4, <3>2, <3>3 DEF Acc!RequestStep, Acc!exchangeCode, Acc!createUser,
         Acc!createSessionForUser, Acc!Authenticate, Acc!Answer, Acc!AnswerLost, Acc!Answers
  <2>5. CASE Acc!Answer(r) \/ Acc!AnswerLost(r)
    BY <2>5, <1>c DEF Acc!Answer, Acc!AnswerLost, Acc!Refuse, Acc!Idle
  <2>6. QED
    BY <1>1, <2>2, <2>3, <2>4, <2>5 DEF Acc!RequestStep, Acc!exchangeCode, Acc!createUser,
       Acc!createSessionForUser, Acc!listOrganizationsForUser, Acc!ensurePersonalOrganization,
       Acc!workspaceFails, Acc!rotateSessionRefreshToken, Acc!Rotation, Acc!logout, Acc!logoutAll
<1>2. ASSUME NEW r \in Slots, NEW b \in Browsers, NEW u \in People,
             \/ Acc!signup(r, b, u) \/ Acc!login(r, b, u)
             \/ \E x \in States : Acc!oauthCallback(r, b, x, u)
      PROVE  StaleIsOut'
  BY <1>2, <1>c DEF Acc!signup, Acc!login, Acc!oauthCallback, Acc!Callback, Acc!Begin, Acc!Idle
<1>3. ASSUME NEW r \in Slots, NEW b \in Browsers, NEW op \in SignedInOps, NEW bearer \in BOOLEAN,
             Acc!SignedIn(r, b, op, bearer)
      PROVE  StaleIsOut'
  BY <1>3, <1>c DEF Acc!SignedIn, Acc!Begin, Acc!Idle
<1>4. ASSUME UNCHANGED accReq PROVE StaleIsOut'
  BY <1>4, <1>b
<1>5. CASE Acc!ApiRestarts
  BY <1>5, <1>b DEF Acc!ApiRestarts, Acc!Idle
<1>6. QED
  BY <1>1, <1>2, <1>3, <1>4, <1>5 DEF Acc!Next, SignedInOps, Acc!oauthStart, Acc!SessionExpires

(* What a request begins with.                                               *)
LEMMA BegunFields ==
  ASSUME AccReqsTyped, NEW r \in Slots, NEW b
  PROVE  /\ \A u : Acc!signup(r, b, u) \/ Acc!login(r, b, u) =>
               /\ \A p \in Slots : p # r => accReq'[p] = accReq[p]
               /\ accReq'[r].op # "oauth" /\ accReq'[r].pc # "answer"
         /\ \A u, x : Acc!oauthCallback(r, b, x, u) =>
               /\ \A p \in Slots : p # r => accReq'[p] = accReq[p]
               /\ accReq'[r].pc # "answer"
         /\ \A op \in SignedInOps : \A bearer : Acc!SignedIn(r, b, op, bearer) =>
               /\ \A p \in Slots : p # r => accReq'[p] = accReq[p]
               /\ accReq'[r].op # "oauth" /\ accReq'[r].pc # "answer"
<1> USE DEF AccReqsTyped, Acc!Begin, Acc!Idle
<1>1. ASSUME NEW u, Acc!signup(r, b, u)
      PROVE  /\ \A p \in Slots : p # r => accReq'[p] = accReq[p]
             /\ accReq'[r].op = "signup" /\ accReq'[r].pc = "create"
  BY <1>1 DEF Acc!signup
<1>2. ASSUME NEW u, Acc!login(r, b, u)
      PROVE  /\ \A p \in Slots : p # r => accReq'[p] = accReq[p]
             /\ accReq'[r].op = "login" /\ accReq'[r].pc = "session"
  BY <1>2 DEF Acc!login
<1>3. ASSUME NEW u, NEW x, Acc!oauthCallback(r, b, x, u)
      PROVE  /\ \A p \in Slots : p # r => accReq'[p] = accReq[p]
             /\ accReq'[r].pc = "exchange"
  BY <1>3 DEF Acc!oauthCallback, Acc!Callback
<1>4. ASSUME NEW op, NEW bearer, Acc!SignedIn(r, b, op, bearer)
      PROVE  /\ \A p \in Slots : p # r => accReq'[p] = accReq[p]
             /\ accReq'[r].op = op /\ accReq'[r].pc = "authenticate"
  BY <1>4 DEF Acc!SignedIn
<1>5. QED
  BY <1>1, <1>2, <1>3, <1>4 DEF SignedInOps

LEMMA NextStatesServeOnce == AccountsInv /\ Acc!Next => StatesServeOnce'
<1> SUFFICES ASSUME AccountsInv, Acc!Next PROVE StatesServeOnce'
  OBVIOUS
<1>0. AccReqsTyped /\ SessionsTyped /\ StatesServeOnce
  BY DEF AccountsInv
<1>a. ASSUME signIns' = signIns, \A x \in States : oauthStates[x] = "used" => oauthStates'[x] = "used",
             \A p \in Slots, x \in States : Carries(accReq'[p], x) => Carries(accReq[p], x)
      PROVE  StatesServeOnce'
  BY <1>a, <1>0 DEF StatesServeOnce
<1>b. ASSUME NEW r \in Slots, NEW q, accReq' = [accReq EXCEPT ![r] = q],
             \A x \in States : Carries(q, x) => Carries(accReq[r], x),
             UNCHANGED <<signIns, oauthStates>>
      PROVE  StatesServeOnce'
  <2>1. \A p \in Slots : accReq'[p] = IF p = r THEN q ELSE accReq[p]
    BY <1>b, <1>0 DEF AccReqsTyped
  <2>2. \A p \in Slots, x \in States : Carries(accReq'[p], x) => Carries(accReq[p], x)
    BY <2>1, <1>b DEF Carries
  <2>3. QED
    BY <2>2, <1>a, <1>b
<1>1. ASSUME NEW r \in Slots, Acc!RequestStep(r) PROVE StatesServeOnce'
  <2>0. AccReqTyped(accReq[r]) /\ accReq[r] \in AccRequest
    BY <1>0 DEF AccReqsTyped, AccReqTyped
  <2>1. ASSUME NEW pc, Acc!Go(r, pc), UNCHANGED signIns,
               \A x \in States : oauthStates[x] = "used" => oauthStates'[x] = "used",
               accReq[r].pc \in {"exchange", "create", "session"} \/ pc \notin {"exchange", "create", "session"}
        PROVE  StatesServeOnce'
    <3>1. \A p \in Slots : SameButPc(accReq'[p], accReq[p]) /\ (p # r => accReq'[p] = accReq[p])
      BY <2>1, <1>0, GoesOn DEF Acc!Go
    <3>2. accReq'[r].pc = pc
      BY <2>1, <2>0, <1>0 DEF Acc!Go, AccReqsTyped, AccRequest
    <3>3. \A p \in Slots, x \in States : Carries(accReq'[p], x) => Carries(accReq[p], x)
      BY <3>1, <3>2, <2>1 DEF Carries, SameButPc
    <3>4. QED
      BY <3>3, <2>1, <1>a
  <2>i. \A x \in States : Carries(Acc!Idle, x) => Carries(accReq[r], x)
    BY DEF Carries, Acc!Idle
  <2>2. CASE Acc!exchangeCode(r)
    <3>1. \A x \in States : oauthStates[x] = "used" => oauthStates'[x] = "used"
      BY <2>2, <1>0 DEF Acc!exchangeCode, SessionsTyped
    <3>2. QED
      BY <2>2, <3>1, <2>1 DEF Acc!exchangeCode
  <2>3. CASE Acc!createUser(r)
    BY <2>3, <2>1, <2>i, <1>b DEF Acc!createUser, Acc!Refuse
  <2>4. ASSUME NEW s \in Sessions, Acc!createSessionForUser(r, s) PROVE StatesServeOnce'
    <3>1. /\ \A p \in Slots : p # r => accReq'[p] = accReq[p]
          /\ accReq'[r].pc = "workspace" /\ accReq[r].pc = "session"
      BY <2>4, <2>0, <1>0 DEF Acc!createSessionForUser, AccReqsTyped, AccRequest
    <3>2. \A p \in Slots, x \in States : Carries(accReq'[p], x) => Carries(accReq[p], x) /\ p # r
      BY <3>1 DEF Carries
    <3>3. CASE accReq[r].op = "oauth"
      <4> DEFINE y == accReq[r].state
      <4>1. y \in States /\ Carries(accReq[r], y)
        BY <3>1, <3>3, <2>0 DEF Carries, AccReqTyped, SignInTyped, SignInOps
      <4>2. \A x \in States : signIns'[x] = IF x = y THEN signIns[x] + 1 ELSE signIns[x]
        BY <2>4, <3>3, <4>1, <1>0 DEF Acc!createSessionForUser, SessionsTyped
      <4>3. oauthStates' = oauthStates /\ oauthStates[y] = "used" /\ signIns[y] = 0
            /\ \A q \in Slots : Carries(accReq[q], y) => q = r
        BY <2>4, <4>1, <1>0 DEF Acc!createSessionForUser, StatesServeOnce
      <4> HIDE DEF y
      <4>4. QED
        BY <4>1, <4>2, <4>3, <3>2, <1>0 DEF StatesServeOnce
    <3>4. CASE accReq[r].op # "oauth"
      BY <2>4, <3>2, <3>4, <1>a DEF Acc!createSessionForUser
    <3>5. QED
      BY <3>3, <3>4
  <2>5. CASE \/ Acc!listOrganizationsForUser(r) \/ Acc!ensurePersonalOrganization(r)
             \/ Acc!workspaceFails(r) \/ Acc!logout(r) \/ Acc!logoutAll(r)
    BY <2>5, <2>1 DEF Acc!listOrganizationsForUser, Acc!ensurePersonalOrganization,
       Acc!workspaceFails, Acc!logout, Acc!logoutAll
  <2>6. CASE Acc!Authenticate(r)
    <3>1. accReq[r].op \in SignedInOps
      BY <2>6, <2>0 DEF Acc!Authenticate, AccReqTyped, SignInTyped, AccRequest, SignInOps
    <3>2. Acc!AfterAuthentication(accReq[r].op) \notin {"exchange", "create", "session"}
      BY <3>1 DEF Acc!AfterAuthentication, SignedInOps
    <3>3. QED
      BY <2>6, <3>2, <2>1, <2>i, <1>b DEF Acc!Authenticate, Acc!Refuse
  <2>7. CASE Acc!rotateSessionRefreshToken(r)
    <3>1. /\ \A p \in Slots : p # r => accReq'[p] = accReq[p]
          /\ accReq'[r].pc = "answer" /\ UNCHANGED <<signIns, oauthStates>>
      BY <2>7, <2>0, <1>0 DEF Acc!rotateSessionRefreshToken, Acc!Rotation, AccReqsTyped, AccRequest
    <3>2. \A p \in Slots, x \in States : Carries(accReq'[p], x) => Carries(accReq[p], x)
      BY <3>1 DEF Carries
    <3>3. QED
      BY <3>1, <3>2, <1>a
  <2>8. CASE Acc!Answer(r) \/ Acc!AnswerLost(r)
    BY <2>8, <2>i, <1>b DEF Acc!Answer, Acc!AnswerLost, Acc!Refuse
  <2>9. QED
    BY <1>1, <2>2, <2>3, <2>4, <2>5, <2>6, <2>7, <2>8 DEF Acc!RequestStep
<1>2. ASSUME NEW r \in Slots, NEW b \in Browsers, NEW u \in People,
             Acc!signup(r, b, u) \/ Acc!login(r, b, u)
      PROVE  StatesServeOnce'
  <2>1. UNCHANGED <<signIns, oauthStates>>
    BY <1>2 DEF Acc!signup, Acc!login
  <2>2. QED
    BY <1>2, <2>1, <1>a, <1>0, BegunFields DEF Carries
<1>3. ASSUME NEW r \in Slots, NEW b \in Browsers, NEW u \in People, NEW y \in States,
             Acc!oauthCallback(r, b, y, u)
      PROVE  StatesServeOnce'
  <2>1. /\ \A p \in Slots : p # r => accReq'[p] = accReq[p]
        /\ accReq'[r].state = y /\ signIns' = signIns
        /\ oauthStates[y] = "issued" /\ \A x \in States : oauthStates'[x] = IF x = y THEN "used" ELSE oauthStates[x]
    BY <1>3, <1>0 DEF Acc!oauthCallback, Acc!Callback, Acc!Begin, Acc!Idle, AccReqsTyped, SessionsTyped
  <2>2. \A x \in States : Carries(accReq'[r], x) => x = y
    BY <2>1 DEF Carries
  <2>3. \A p \in Slots : ~Carries(accReq[p], y)
    BY <2>1, <1>0 DEF StatesServeOnce
  <2>4. signIns[y] = 0
    BY <2>1, <1>0 DEF StatesServeOnce
  <2>5. ASSUME NEW p \in Slots, NEW x \in States, Carries(accReq'[p], x)
        PROVE  /\ oauthStates'[x] = "used" /\ signIns'[x] = 0
               /\ \A q \in Slots : Carries(accReq'[q], x) => q = p
    <3>1. CASE x = y
      <4>1. \A q \in Slots : q # r => ~Carries(accReq'[q], x)
        BY <3>1, <2>1, <2>3
      <4>2. QED
        BY <4>1, <3>1, <2>1, <2>4, <2>5
    <3>2. CASE x # y
      <4>1. \A q \in Slots : Carries(accReq'[q], x) => q # r /\ accReq'[q] = accReq[q] /\ Carries(accReq[q], x)
        BY <3>2, <2>1, <2>2
      <4>2. QED
        BY <4>1, <3>2, <2>1, <2>5, <1>0 DEF StatesServeOnce
    <3>3. QED
      BY <3>1, <3>2
  <2>6. QED
    BY <2>1, <2>5, <1>0 DEF StatesServeOnce
<1>4. ASSUME NEW r \in Slots, NEW b \in Browsers, NEW op \in SignedInOps, NEW bearer \in BOOLEAN,
             Acc!SignedIn(r, b, op, bearer)
      PROVE  StatesServeOnce'
  <2>1. UNCHANGED <<signIns, oauthStates>>
    BY <1>4 DEF Acc!SignedIn
  <2>2. QED
    BY <1>4, <2>1, <1>a, <1>0, BegunFields DEF Carries
<1>5. ASSUME NEW x \in States, Acc!oauthStart(x) PROVE StatesServeOnce'
  BY <1>5, <1>0, <1>a DEF Acc!oauthStart, SessionsTyped
<1>6. ASSUME NEW s \in Sessions, Acc!SessionExpires(s) PROVE StatesServeOnce'
  BY <1>6, <1>a DEF Acc!SessionExpires
<1>7. CASE Acc!ApiRestarts
  BY <1>7, <1>a DEF Acc!ApiRestarts, Carries, Acc!Idle
<1>8. QED
  BY <1>1, <1>2, <1>3, <1>4, <1>5, <1>6, <1>7 DEF Acc!Next, SignedInOps

(* A request is answered once its user's workspaces were counted or made.    *)
LEMMA NextAnsweredHasWorkspace == AccountsInv /\ Acc!Next => Acc!AnsweredHasWorkspace'
<1> SUFFICES ASSUME AccountsInv, Acc!Next PROVE Acc!AnsweredHasWorkspace'
  OBVIOUS
<1>0. AccReqsTyped /\ SessionsTyped /\ Acc!AnsweredHasWorkspace
  BY DEF AccountsInv
<1>a. ASSUME workspaces' = workspaces,
             \A p \in Slots : \/ accReq'[p] = accReq[p]
                              \/ accReq'[p].pc # "answer" \/ accReq'[p].op = "refresh"
      PROVE  Acc!AnsweredHasWorkspace'
  BY <1>a, <1>0 DEF Acc!AnsweredHasWorkspace
<1>b. ASSUME NEW r \in Slots, NEW q, accReq' = [accReq EXCEPT ![r] = q], q.pc # "answer",
             workspaces' = workspaces
      PROVE  Acc!AnsweredHasWorkspace'
  <2>1. \A p \in Slots : accReq'[p] = IF p = r THEN q ELSE accReq[p]
    BY <1>b, <1>0 DEF AccReqsTyped
  <2>2. QED
    BY <2>1, <1>a, <1>b
<1>1. ASSUME NEW r \in Slots, Acc!RequestStep(r) PROVE Acc!AnsweredHasWorkspace'
  <2>0. AccReqTyped(accReq[r]) /\ accReq[r] \in AccRequest
    BY <1>0 DEF AccReqsTyped, AccReqTyped
  <2>g. ASSUME NEW pc, Acc!Go(r, pc), workspaces' = workspaces, pc # "answer"
        PROVE  Acc!AnsweredHasWorkspace'
    <3>1. accReq' = [accReq EXCEPT ![r] = [accReq[r] EXCEPT !.pc = pc]]
      BY <2>g DEF Acc!Go
    <3>2. [accReq[r] EXCEPT !.pc = pc].pc # "answer"
      BY <2>g, <2>0 DEF AccRequest
    <3>3. QED
      BY <3>1, <3>2, <2>g, <1>b
  <2>i. Acc!Idle.pc # "answer"
    BY DEF Acc!Idle
  <2>1. CASE Acc!exchangeCode(r)
    BY <2>1, <2>g DEF Acc!exchangeCode
  <2>2. CASE Acc!createUser(r)
    BY <2>2, <2>g, <2>i, <1>b DEF Acc!createUser, Acc!Refuse
  <2>3. ASSUME NEW s \in Sessions, Acc!createSessionForUser(r, s) PROVE Acc!AnsweredHasWorkspace'
    <3>1. /\ \A p \in Slots : p # r => accReq'[p] = accReq[p]
          /\ accReq'[r].pc = "workspace" /\ workspaces' = workspaces
      BY <2>3, <2>0, <1>0 DEF Acc!createSessionForUser, AccReqsTyped, AccRequest
    <3>2. QED
      BY <3>1, <1>a
  <2>4. CASE Acc!listOrganizationsForUser(r)
    <3>1. \A p \in Slots : SameButPc(accReq'[p], accReq[p]) /\ (p # r => accReq'[p] = accReq[p])
      BY <2>4, <1>0, GoesOn DEF Acc!listOrganizationsForUser, Acc!Go
    <3>2. accReq'[r].pc = "answer" => workspaces[accReq[r].u] > 0
      BY <2>4, <2>0, <1>0 DEF Acc!listOrganizationsForUser, Acc!Go, AccReqsTyped, AccRequest
    <3>3. QED
      BY <3>1, <3>2, <2>4, <1>0 DEF Acc!listOrganizationsForUser, Acc!AnsweredHasWorkspace, SameButPc
  <2>5. CASE Acc!ensurePersonalOrganization(r)
    <3>1. \A p \in Slots : SameButPc(accReq'[p], accReq[p]) /\ (p # r => accReq'[p] = accReq[p])
      BY <2>5, <1>0, GoesOn DEF Acc!ensurePersonalOrganization, Acc!Go
    <3>2. accReq[r].u \in People
      BY <2>5, <2>0 DEF Acc!ensurePersonalOrganization, AccReqTyped
    <3>3. \A u \in People : workspaces[u] \in Nat /\ workspaces'[u] = IF u = accReq[r].u THEN workspaces[u] + 1 ELSE workspaces[u]
      BY <2>5, <3>2, <1>0 DEF Acc!ensurePersonalOrganization, SessionsTyped
    <3>4. ASSUME NEW p \in Slots, accReq'[p].pc = "answer", accReq'[p].op # "refresh"
          PROVE  workspaces'[accReq'[p].u] > 0
      <4>1. CASE p = r
        BY <4>1, <3>1, <3>2, <3>3 DEF SameButPc
      <4>2. CASE p # r
        <5>1. accReq[p].u \in People /\ workspaces[accReq[p].u] > 0 /\ accReq'[p].u = accReq[p].u
          BY <4>2, <3>1, <3>4, <1>0 DEF AccReqsTyped, AccReqTyped, Acc!AnsweredHasWorkspace
        <5>2. QED
          BY <5>1, <3>3
      <4>3. QED
        BY <4>1, <4>2
    <3>5. QED
      BY <3>4 DEF Acc!AnsweredHasWorkspace
  <2>6. CASE Acc!workspaceFails(r) \/ Acc!logout(r) \/ Acc!logoutAll(r)
    BY <2>6, <2>g DEF Acc!workspaceFails, Acc!logout, Acc!logoutAll
  <2>7. CASE Acc!Authenticate(r)
    <3>1. accReq[r].op \in SignedInOps
      BY <2>7, <2>0 DEF Acc!Authenticate, AccReqTyped, SignInTyped, AccRequest, SignInOps
    <3>2. Acc!AfterAuthentication(accReq[r].op) # "answer"
      BY <3>1 DEF Acc!AfterAuthentication, SignedInOps
    <3>3. QED
      BY <2>7, <3>2, <2>g, <2>i, <1>b DEF Acc!Authenticate, Acc!Refuse
  <2>8. CASE Acc!rotateSessionRefreshToken(r)
    <3>1. accReq[r].op = "refresh"
      BY <2>8, <2>0 DEF Acc!rotateSessionRefreshToken, Acc!Rotation, AccReqTyped, SignInTyped,
         SignedInTyped, AccRequest, SignInOps, SignedInOps
    <3>2. /\ \A p \in Slots : p # r => accReq'[p] = accReq[p]
          /\ accReq'[r].op = "refresh" /\ workspaces' = workspaces
      BY <2>8, <3>1, <2>0, <1>0 DEF Acc!rotateSessionRefreshToken, Acc!Rotation, AccReqsTyped, AccRequest
    <3>3. QED
      BY <3>2, <1>a
  <2>9. CASE Acc!Answer(r) \/ Acc!AnswerLost(r)
    BY <2>9, <2>i, <1>b DEF Acc!Answer, Acc!AnswerLost, Acc!Refuse
  <2>10. QED
    BY <1>1, <2>1, <2>2, <2>3, <2>4, <2>5, <2>6, <2>7, <2>8, <2>9 DEF Acc!RequestStep
<1>2. ASSUME NEW r \in Slots, NEW b \in Browsers, NEW u \in People,
             \/ Acc!signup(r, b, u) \/ Acc!login(r, b, u)
             \/ \E x \in States : Acc!oauthCallback(r, b, x, u)
      PROVE  Acc!AnsweredHasWorkspace'
  <2>1. workspaces' = workspaces
    BY <1>2 DEF Acc!signup, Acc!login, Acc!oauthCallback
  <2>2. QED
    BY <1>2, <2>1, <1>a, <1>0, BegunFields
<1>3. ASSUME NEW r \in Slots, NEW b \in Browsers, NEW op \in SignedInOps, NEW bearer \in BOOLEAN,
             Acc!SignedIn(r, b, op, bearer)
      PROVE  Acc!AnsweredHasWorkspace'
  <2>1. workspaces' = workspaces
    BY <1>3 DEF Acc!SignedIn
  <2>2. QED
    BY <1>3, <2>1, <1>a, <1>0, BegunFields
<1>4. ASSUME UNCHANGED <<accReq, workspaces>> PROVE Acc!AnsweredHasWorkspace'
  BY <1>4, <1>a
<1>5. CASE Acc!ApiRestarts
  BY <1>5, <1>a DEF Acc!ApiRestarts, Acc!Idle
<1>6. QED
  BY <1>1, <1>2, <1>3, <1>4, <1>5 DEF Acc!Next, SignedInOps, Acc!oauthStart, Acc!SessionExpires

LEMMA NextAccounts == AccountsInv /\ [Acc!Next]_(Acc!vars) => AccountsInv'
<1> SUFFICES ASSUME AccountsInv, [Acc!Next]_(Acc!vars) PROVE AccountsInv'
  OBVIOUS
<1>1. CASE Acc!Next
  BY <1>1, NextAccReqsTyped, NextSessionsTyped, NextCookiesInv, NextStaleIsOut, NextStatesServeOnce,
     NextAnsweredHasWorkspace DEF AccountsInv, CookiesInv
<1>2. CASE UNCHANGED Acc!vars
  BY <1>2 DEF Acc!vars, AccountsInv, SessionsTyped, AccReqsTyped, ExchangedAreOld, StaleStays, StaleIsOut,
     Acc!RevokedStaysOut, Acc!ExchangedStaysOut, Acc!Authenticated, StatesServeOnce,
     Acc!AnsweredHasWorkspace, UnmadeIsUnknown, OneBrowser, MadeIsAlone, OneRefresh, SetIsCurrent,
     JarIsCurrent
<1>3. QED
  BY <1>1, <1>2

LEMMA AccountsInvHolds == AccountsInv => SignInsHold
<1> SUFFICES ASSUME AccountsInv PROVE SignInsHold
  OBVIOUS
<1>1. Acc!RevokedStaysOut /\ Acc!ExchangedStaysOut /\ Acc!OAuthStateOnce /\ Acc!AnsweredHasWorkspace
  BY DEF AccountsInv, StaleIsOut, StatesServeOnce, Acc!OAuthStateOnce
<1>2. Acc!CookieIsCurrent
  BY DEF AccountsInv, JarIsCurrent, Refreshes, Acc!CookieIsCurrent
<1>3. QED
  BY <1>1, <1>2 DEF SignInsHold

(* What holds of one scene's specification holds of the run's: the others    *)
(* stay as they begin.                                                       *)
LEMMA AccountsAreServed == GovernanceSpec => Acc!Spec
<1>1. GovernanceInit => Acc!Init
  BY DEF GovernanceInit
<1>2. [GovernanceNext]_allVars => [Acc!Next]_(Acc!vars)
  BY DEF GovernanceNext, allVars, accVars, Acc!vars
<1>3. QED
  BY <1>1, <1>2, PTL DEF GovernanceSpec, Acc!Spec

(* Who was signed out stays out, and the rest that SignInsHold says of        *)
(* authenticateFromRefreshCookie, rotateSessionRefreshToken, the callback of  *)
(* OAuth and ensurePersonalWorkspace, for any number of people, browsers,     *)
(* sessions and requests at once.                                            *)
THEOREM SignInsAreKept == GovernanceSpec => []SignInsHold
<1>1. GovernanceSpec => []AccountsInv
  BY AccountsAreServed, InitAccounts, NextAccounts, PTL DEF Acc!Spec
<1>2. QED
  BY <1>1, AccountsInvHolds, PTL


-----------------------------------------------------------------------------
(* The organization: members were invited, a section that was patched keeps    *)
(* its value.                                                                *)

Membership == [email : Users \cup {None}, role : {"none", "member", "admin"},
               status : {"none", "pending", "accepted"}, inTime : BOOLEAN]
Sections == [Fields -> Nat]
OrgRequest == [pc : {"idle", "write", "merge", "record"},
               op : {"none", "invite", "role", "grant", "remove", "patch", "ticket"},
               u : Users \cup {None}, as : Org!Roles, of : Users \cup Org!Documents \cup {None},
               to : Org!Roles \cup Fields, n : Nat, read : Sections]

RolesTyped == role \in [Users -> Org!Roles]
MembershipsTyped ==
    /\ orgInvites \in [Invites -> Membership]
    /\ \A i \in Invites :
          IF orgInvites[i].status = "none" THEN orgInvites[i].email = None
          ELSE orgInvites[i].email \in Users /\ orgInvites[i].role # "none"
OrgRequestFits(q) ==
    /\ q.op = "invite" => q.of \in Users /\ q.to \in {"member", "admin"}
    /\ q.op = "role" => q.of \in Users /\ q.to \in Org!Roles \ {"none"}
    /\ q.op = "patch" => q.of \in Org!Documents /\ q.to \in Fields /\ q.pc \in {"merge", "record"}
    /\ q.pc = "merge" => q.op = "patch"
OrgReqsTyped == orgReq \in [Slots -> OrgRequest] /\ \A r \in Slots : OrgRequestFits(orgReq[r])
DocsTyped ==
    /\ writes \in Nat /\ doc \in [Org!Documents -> Sections]
    /\ acked \in [doc : [Org!Documents -> Sections], roles : SUBSET Nat]

(* Of a document no two patches of which met, one request at most has a patch  *)
(* under way: what it read is what there is, and its number is the largest.  *)
Patches(q, d) == q.op = "patch" /\ q.of = d
AtMostOne(d) == \A p, r \in Slots : Patches(orgReq[p], d) /\ Patches(orgReq[r], d) => p = r
PatchFits(d, q) ==
    Patches(q, d) =>
        /\ q.n <= writes /\ (q.pc = "record" => q.n <= doc[d][q.to])
        /\ q.pc = "merge" => q.read = doc[d] /\ \A f \in Fields : doc[d][f] <= q.n
PatchesAlone ==
    \A d \in Org!Documents \ overlapped :
        /\ AtMostOne(d) /\ \A r \in Slots : PatchFits(d, orgReq[r])
        /\ \A f \in Fields : doc[d][f] <= writes

OrganizationInv ==
    /\ RolesTyped /\ MembershipsTyped /\ OrgReqsTyped /\ DocsTyped
    /\ Org!MembersWereInvited /\ Org!AcceptedAreMembers
    /\ PatchesAlone /\ Org!PatchesKeepSections /\ Org!AnsweredIsAudited

LEMMA InitOrganization == Org!Init => OrganizationInv
<1> SUFFICES ASSUME Org!Init PROVE OrganizationInv
  OBVIOUS
<1>1. Org!NoInvite \in Membership
  BY DEF Org!NoInvite, Membership
<1>2. RolesTyped /\ MembershipsTyped
  BY <1>1 DEF Org!Init, RolesTyped, MembershipsTyped, Org!Roles, Org!NoInvite
<1>3. Org!Idle \in OrgRequest /\ OrgRequestFits(Org!Idle) /\ Org!Idle.op = "none"
  BY DEF Org!Idle, OrgRequest, OrgRequestFits, Org!Roles, Sections
<1>4. \A r \in Slots : orgReq[r] = Org!Idle
  BY DEF Org!Init
<1>5. OrgReqsTyped
  BY <1>3 DEF Org!Init, OrgReqsTyped
<1>6. [f \in Fields |-> 0] \in Sections
  BY DEF Sections
<1>7. DocsTyped
  BY <1>6 DEF Org!Init, DocsTyped
<1>8. Org!MembersWereInvited /\ Org!AcceptedAreMembers /\ Org!AnsweredIsAudited
  BY DEF Org!Init, Org!MembersWereInvited, Org!AcceptedAreMembers, Org!AnsweredIsAudited,
     Org!NoInvite
<1>9. PatchesAlone
  <2>1. \A d \in Org!Documents, f \in Fields : doc[d][f] <= writes
    BY DEF Org!Init
  <2>2. \A r \in Slots : orgReq[r].op # "patch"
    BY <1>3, <1>4
  <2>3. (\A d \in Org!Documents : AtMostOne(d))
        /\ \A d \in Org!Documents, r \in Slots : PatchFits(d, orgReq[r])
    BY <2>2 DEF AtMostOne, PatchFits, Patches
  <2>4. QED
    BY <2>1, <2>3 DEF PatchesAlone
<1>10. Org!PatchesKeepSections
  <2>1. \A d \in Org!Documents, f \in Fields : doc[d][f] = 0 /\ acked.doc[d][f] = 0
    BY DEF Org!Init
  <2>2. QED
    BY <2>1 DEF Org!PatchesKeepSections
<1>11. QED
  BY <1>2, <1>5, <1>7, <1>8, <1>9, <1>10 DEF OrganizationInv

-----------------------------------------------------------------------------
(* Members: a role comes from an invitation that is accepted with it.        *)

LEMMA NextMembers ==
  ASSUME OrganizationInv, Org!Next
  PROVE  RolesTyped' /\ MembershipsTyped' /\ Org!MembersWereInvited' /\ Org!AcceptedAreMembers'
<1>0. /\ RolesTyped /\ MembershipsTyped /\ Org!MembersWereInvited /\ Org!AcceptedAreMembers
      /\ role \in [Users -> Org!Roles] /\ orgInvites \in [Invites -> Membership]
      /\ None \notin Users
  BY PeopleAssumption DEF OrganizationInv, RolesTyped, MembershipsTyped
<1> DEFINE Kept == /\ RolesTyped' /\ MembershipsTyped'
                   /\ Org!MembersWereInvited' /\ Org!AcceptedAreMembers'
<1>1. ASSUME UNCHANGED <<role, orgInvites>> PROVE Kept
  BY <1>0, <1>1 DEF RolesTyped, MembershipsTyped, Org!MembersWereInvited, Org!AcceptedAreMembers
<1>2. ASSUME NEW i \in Invites, NEW m \in Membership, UNCHANGED role,
             orgInvites' = [orgInvites EXCEPT ![i] = m],
             IF m.status = "none" THEN m.email = None ELSE m.email \in Users /\ m.role # "none",
             \/ orgInvites[i].status = "none" /\ m.status = "pending"
             \/ m.status = orgInvites[i].status /\ m.email = orgInvites[i].email
      PROVE  Kept
  <2>1. \A j \in Invites : orgInvites'[j] = IF j = i THEN m ELSE orgInvites[j]
    BY <1>0, <1>2
  <2>2. RolesTyped' /\ MembershipsTyped'
    BY <1>0, <1>2, <2>1 DEF RolesTyped, MembershipsTyped
  <2>3. Org!MembersWereInvited' /\ Org!AcceptedAreMembers'
    BY <1>0, <1>2, <2>1 DEF Org!MembersWereInvited, Org!AcceptedAreMembers
  <2>4. QED
    BY <2>2, <2>3
<1>3. ASSUME NEW r \in Slots, NEW i \in Invites, Org!createInvitation(r, i) PROVE Kept
  <2> DEFINE m == [email |-> orgReq[r].of, role |-> orgReq[r].to,
                   status |-> "pending", inTime |-> TRUE]
  <2>1. CASE orgInvites' = [orgInvites EXCEPT ![i] = m]
    <3>1. orgReq[r].of \in Users /\ orgReq[r].to \in {"member", "admin"}
      BY <1>3 DEF Org!createInvitation, OrganizationInv, OrgReqsTyped, OrgRequestFits
    <3>2. /\ m \in Membership /\ m.status = "pending" /\ m.email \in Users /\ m.role # "none"
      BY <3>1 DEF Membership
    <3>3. UNCHANGED role /\ orgInvites[i].status = "none"
      BY <1>3 DEF Org!createInvitation
    <3> HIDE DEF m
    <3>4. QED
      BY <1>2, <2>1, <3>2, <3>3
  <2>2. CASE orgInvites' = orgInvites
    BY <1>1, <1>3, <2>2 DEF Org!createInvitation
  <2>3. QED
    BY <1>3, <2>1, <2>2 DEF Org!createInvitation
<1>4. ASSUME NEW i \in Invites, Org!InvitationExpires(i) PROVE Kept
  <2> DEFINE m == [orgInvites[i] EXCEPT !.inTime = FALSE]
  <2>1. orgInvites[i] \in Membership
    BY <1>0
  <2>2. /\ m \in Membership /\ m.status = orgInvites[i].status /\ m.email = orgInvites[i].email
        /\ m.role = orgInvites[i].role
    BY <2>1 DEF Membership
  <2>3. orgInvites' = [orgInvites EXCEPT ![i] = m] /\ UNCHANGED role
    BY <1>0, <1>4 DEF Org!InvitationExpires
  <2> HIDE DEF m
  <2>4. QED
    BY <1>0, <1>2, <2>2, <2>3 DEF MembershipsTyped
<1>5. ASSUME NEW i \in Invites, NEW u \in Users, Org!acceptInvitation(u, i) PROVE Kept
  <2> DEFINE m == [orgInvites[i] EXCEPT !.status = "accepted"]
             to == IF role[u] = "none" THEN orgInvites[i].role ELSE role[u]
  <2>1. orgInvites[i] \in Membership /\ orgInvites[i].email = u
    BY <1>0, <1>5 DEF Org!acceptInvitation
  <2>2. orgInvites[i].status # "none" /\ orgInvites[i].role # "none"
    BY <1>0, <2>1 DEF MembershipsTyped
  <2>3. /\ m \in Membership /\ m.status = "accepted" /\ m.email = u
        /\ m.role = orgInvites[i].role
    BY <2>1 DEF Membership
  <2>4. to \in Org!Roles /\ to # "none"
    BY <1>0, <2>1, <2>2 DEF Membership, Org!Roles
  <2>5. orgInvites' = [orgInvites EXCEPT ![i] = m] /\ role' = [role EXCEPT ![u] = to]
    BY <1>0, <1>5 DEF Org!acceptInvitation, Org!Joins
  <2> HIDE DEF m, to
  <2>6. /\ \A j \in Invites : orgInvites'[j] = IF j = i THEN m ELSE orgInvites[j]
        /\ \A v \in Users : role'[v] = IF v = u THEN to ELSE role[v]
    BY <1>0, <2>5
  <2>7. RolesTyped' /\ MembershipsTyped'
    <3>1. RolesTyped'
      BY <1>0, <2>4, <2>5 DEF RolesTyped
    <3>2. orgInvites' \in [Invites -> Membership]
      BY <1>0, <2>3, <2>5
    <3>3. MembershipsTyped'
      BY <1>0, <2>2, <2>3, <2>6, <3>2 DEF MembershipsTyped
    <3>4. QED
      BY <3>1, <3>3
  <2>8. Org!MembersWereInvited'
    <3>1. ASSUME NEW v \in Users \ {Founder}, role'[v] # "none"
          PROVE  \E j \in Invites : orgInvites'[j].email = v /\ orgInvites'[j].status = "accepted"
      <4>1. CASE v = u
        BY <2>3, <2>6, <4>1
      <4>2. CASE v # u
        <5>1. PICK j \in Invites : orgInvites[j].email = v /\ orgInvites[j].status = "accepted"
          BY <1>0, <2>6, <3>1, <4>2 DEF Org!MembersWereInvited
        <5>2. j # i
          BY <2>1, <4>2, <5>1
        <5>3. QED
          BY <2>6, <5>1, <5>2
      <4>3. QED
        BY <4>1, <4>2
    <3>2. QED
      BY <3>1 DEF Org!MembersWereInvited
  <2>9. Org!AcceptedAreMembers'
    <3>1. \A j \in Invites : orgInvites[j].status = "accepted" => orgInvites[j].email \in Users
      BY <1>0 DEF MembershipsTyped
    <3>2. QED
      BY <1>0, <2>3, <2>4, <2>6, <3>1 DEF Org!AcceptedAreMembers
  <2>10. QED
    BY <2>7, <2>8, <2>9
<1>6. ASSUME NEW r \in Slots, Org!updateMembershipRole(r) PROVE Kept
  <2> DEFINE v == orgReq[r].of
             to == IF role[v] = "none" THEN role[v] ELSE orgReq[r].to
  <2>1. v \in Users /\ orgReq[r].to \in Org!Roles \ {"none"}
    BY <1>6 DEF Org!updateMembershipRole, OrganizationInv, OrgReqsTyped, OrgRequestFits
  <2>2. UNCHANGED orgInvites /\ (role' = role \/ role' = [role EXCEPT ![v] = to])
    BY <1>0, <1>6 DEF Org!updateMembershipRole
  <2>3. to \in Org!Roles /\ (to = "none" <=> role[v] = "none")
    BY <1>0, <2>1
  <2> HIDE DEF v, to
  <2>4. role' \in [Users -> Org!Roles] /\ \A u \in Users : role'[u] = "none" <=> role[u] = "none"
    BY <1>0, <2>1, <2>2, <2>3
  <2>5. RolesTyped' /\ MembershipsTyped' /\ Org!MembersWereInvited'
    BY <1>0, <2>2, <2>4 DEF RolesTyped, MembershipsTyped, Org!MembersWereInvited
  <2>6. Org!AcceptedAreMembers'
    <3>1. \A j \in Invites : orgInvites[j].status = "accepted" => orgInvites[j].email \in Users
      BY <1>0 DEF MembershipsTyped
    <3>2. QED
      BY <1>0, <2>2, <2>4, <3>1 DEF Org!AcceptedAreMembers
  <2>7. QED
    BY <2>5, <2>6
<1>7. \/ UNCHANGED <<role, orgInvites>>
      \/ \E r \in Slots : Org!updateMembershipRole(r) \/ \E i \in Invites : Org!createInvitation(r, i)
      \/ \E i \in Invites : \/ Org!InvitationExpires(i)
                            \/ \E u \in Users : Org!acceptInvitation(u, i)
  BY DEF Org!Next, Org!requireOrgContext, Org!requireSystemAdmin, Org!getOrganizationSettings,
     Org!getOrganizationSubscription, Org!Reads, Org!updateOrganizationSettings,
     Org!upsertOrganizationSubscription, Org!Merges, Org!createPlatformUserRole,
     Org!deletePlatformUserRole, Org!patchSupportTicket, Org!appendPlatformAuditLog,
     Org!appendSupportTicketEvent, Org!RequestFails
<1>8. QED
  BY <1>1, <1>3, <1>4, <1>5, <1>6, <1>7

-----------------------------------------------------------------------------
(* Requests: each is of its kind, and only four steps are about a patch.     *)

OrgMoves(r, q) == q \in OrgRequest /\ OrgRequestFits(q) /\ orgReq' = [orgReq EXCEPT ![r] = q]

(* A step that is about no patch.                                            *)
NoPatch(r, q) ==
    /\ OrgMoves(r, q) /\ q.op # "patch"
    /\ writes' \in Nat /\ writes <= writes'
    /\ UNCHANGED <<doc, overlapped>> /\ (UNCHANGED acked \/ (Org!Ack(r) /\ orgReq[r].op # "patch"))

LEMMA OrgBegins ==
  ASSUME OrgReqsTyped, DocsTyped, NEW r \in Slots, NEW f \in OrgRequest, OrgRequestFits(f),
         Org!Begin(r, f)
  PROVE  /\ writes' = writes + 1 /\ writes' \in Nat
         /\ \E q \in OrgRequest :
              /\ OrgMoves(r, q) /\ q.n = writes + 1
              /\ q.op = f.op /\ q.of = f.of /\ q.to = f.to /\ q.pc = f.pc /\ q.read = f.read
<1> DEFINE q == [f EXCEPT !.n = writes + 1]
<1>1. orgReq' = [orgReq EXCEPT ![r] = q] /\ writes' = writes + 1 /\ writes \in Nat
  BY DEF Org!Begin, DocsTyped
<1>2. /\ q \in OrgRequest /\ q.n = writes + 1
      /\ q.op = f.op /\ q.of = f.of /\ q.to = f.to /\ q.pc = f.pc /\ q.read = f.read
  BY <1>1 DEF OrgRequest
<1> HIDE DEF q
<1>3. OrgMoves(r, q)
  BY <1>1, <1>2 DEF OrgMoves, OrgRequestFits
<1>4. QED
  BY <1>1, <1>2, <1>3

LEMMA OrgEnds ==
  ASSUME NEW r \in Slots, Org!End(r)
  PROVE  \E q \in OrgRequest : OrgMoves(r, q) /\ q.op = "none"
<1> DEFINE q == Org!Idle
<1>1. q \in OrgRequest /\ OrgRequestFits(q) /\ q.op = "none"
  BY DEF Org!Idle, OrgRequest, OrgRequestFits, Org!Roles, Sections
<1>2. orgReq' = [orgReq EXCEPT ![r] = q]
  BY DEF Org!End
<1> HIDE DEF q
<1>3. QED
  BY <1>1, <1>2 DEF OrgMoves

LEMMA OrgRecords ==
  ASSUME OrgReqsTyped, NEW r \in Slots, orgReq[r].op # "invite", Org!Go(r, "record")
  PROVE  \E q \in OrgRequest :
            /\ OrgMoves(r, q) /\ q.pc = "record" /\ q.op = orgReq[r].op /\ q.of = orgReq[r].of
            /\ q.to = orgReq[r].to /\ q.n = orgReq[r].n
<1> DEFINE q == [orgReq[r] EXCEPT !.pc = "record"]
<1>1. orgReq[r] \in OrgRequest /\ OrgRequestFits(orgReq[r]) /\ orgReq \in [Slots -> OrgRequest]
  BY DEF OrgReqsTyped
<1>2. /\ q \in OrgRequest /\ q.pc = "record" /\ q.op = orgReq[r].op /\ q.of = orgReq[r].of
      /\ q.to = orgReq[r].to /\ q.n = orgReq[r].n
  BY <1>1 DEF OrgRequest
<1>3. orgReq' = [orgReq EXCEPT ![r] = q]
  BY <1>1 DEF Org!Go
<1> HIDE DEF q
<1>4. QED
  BY <1>1, <1>2, <1>3 DEF OrgMoves, OrgRequestFits

LEMMA OrgSteps ==
  ASSUME OrganizationInv, Org!Next
  PROVE  \/ UNCHANGED <<orgReq, writes, doc, acked, overlapped>>
         \/ \E r \in Slots, q \in OrgRequest : NoPatch(r, q)
         \/ \E r \in Slots, u \in Users, d \in Org!Documents, f \in Fields : Org!Reads(r, u, d, f)
         \/ \E r \in Slots : \/ Org!updateOrganizationSettings(r)
                             \/ Org!upsertOrganizationSubscription(r)
                             \/ Org!appendPlatformAuditLog(r) /\ orgReq[r].op = "patch"
<1>0. /\ OrgReqsTyped /\ DocsTyped /\ RolesTyped /\ writes \in Nat
      /\ role \in [Users -> Org!Roles]
  BY DEF OrganizationInv, DocsTyped, RolesTyped
<1>1. ASSUME NEW r \in Slots, NEW f \in OrgRequest, OrgRequestFits(f), Org!Begin(r, f),
             f.op # "patch", UNCHANGED <<doc, acked, overlapped>>
      PROVE  \E q \in OrgRequest : NoPatch(r, q)
  <2>1. PICK q \in OrgRequest : OrgMoves(r, q) /\ q.op = f.op
    BY <1>0, <1>1, OrgBegins
  <2>2. writes' = writes + 1
    BY <1>1 DEF Org!Begin
  <2>3. QED
    BY <1>0, <1>1, <2>1, <2>2 DEF NoPatch
<1>2. ASSUME NEW r \in Slots, Org!End(r), UNCHANGED <<writes, doc, overlapped>>,
             UNCHANGED acked \/ (Org!Ack(r) /\ orgReq[r].op # "patch")
      PROVE  \E q \in OrgRequest : NoPatch(r, q)
  BY <1>0, <1>2, OrgEnds DEF NoPatch
<1>3. ASSUME NEW r \in Slots, NEW u \in Users, NEW v \in Users,
             \/ \E to \in {"member", "admin"} : Org!requireOrgContext(r, u, "invite", v, to)
             \/ \E to \in Org!Roles \ {"none"} : Org!requireOrgContext(r, u, "role", v, to)
      PROVE  \E q \in OrgRequest : NoPatch(r, q)
  <2>1. PICK op, to : /\ \/ op = "invite" /\ to \in {"member", "admin"}
                         \/ op = "role" /\ to \in Org!Roles \ {"none"}
                      /\ Org!requireOrgContext(r, u, op, v, to)
    BY <1>3
  <2> DEFINE f == [Org!Idle EXCEPT !.pc = "write", !.op = op, !.u = u, !.as = role[u], !.of = v,
                                   !.to = to]
  <2>2. Org!Begin(r, f) /\ UNCHANGED <<doc, acked, overlapped>>
    BY <2>1 DEF Org!requireOrgContext
  <2>3. role[u] \in Org!Roles /\ to \in Org!Roles
    BY <1>0, <2>1 DEF Org!Roles
  <2>4. f \in OrgRequest /\ f.op = op /\ f.pc = "write" /\ f.of = v /\ f.to = to
    BY <2>1, <2>3 DEF Org!Idle, OrgRequest, Sections
  <2> HIDE DEF f
  <2>5. OrgRequestFits(f)
    BY <2>1, <2>4 DEF OrgRequestFits
  <2>6. QED
    BY <1>1, <2>1, <2>2, <2>4, <2>5
<1>4. ASSUME NEW r \in Slots, NEW u \in Users, NEW v \in Users, NEW op \in {"grant", "remove"},
             Org!requireSystemAdmin(r, u, op, v)
      PROVE  \E q \in OrgRequest : NoPatch(r, q)
  <2> DEFINE f == [Org!Idle EXCEPT !.pc = "write", !.op = op, !.u = u, !.of = v]
  <2>1. Org!Begin(r, f) /\ UNCHANGED <<doc, acked, overlapped>>
    BY <1>4 DEF Org!requireSystemAdmin
  <2>2. f \in OrgRequest /\ f.op = op /\ f.pc = "write"
    BY DEF Org!Idle, OrgRequest, Sections, Org!Roles
  <2> HIDE DEF f
  <2>3. OrgRequestFits(f)
    BY <1>4, <2>2 DEF OrgRequestFits
  <2>4. QED
    BY <1>1, <2>1, <2>2, <2>3
<1>5. ASSUME NEW r \in Slots, NEW u \in Users, Org!patchSupportTicket(r, u)
      PROVE  \E q \in OrgRequest : NoPatch(r, q)
  <2> DEFINE f == [Org!Idle EXCEPT !.pc = "record", !.op = "ticket", !.u = u]
  <2>1. Org!Begin(r, f) /\ UNCHANGED <<doc, acked, overlapped>>
    BY <1>5 DEF Org!patchSupportTicket
  <2>2. f \in OrgRequest /\ f.op = "ticket" /\ f.pc = "record"
    BY DEF Org!Idle, OrgRequest, Sections, Org!Roles
  <2> HIDE DEF f
  <2>3. OrgRequestFits(f)
    BY <2>2 DEF OrgRequestFits
  <2>4. QED
    BY <1>1, <2>1, <2>2, <2>3
<1>6. ASSUME NEW r \in Slots,
             \/ Org!updateMembershipRole(r) \/ Org!RequestFails(r)
             \/ Org!appendSupportTicketEvent(r) \/ \E i \in Invites : Org!createInvitation(r, i)
      PROVE  \E q \in OrgRequest : NoPatch(r, q)
  <2>1. Org!End(r) /\ UNCHANGED <<writes, doc, acked, overlapped>>
    BY <1>6 DEF Org!updateMembershipRole, Org!RequestFails, Org!appendSupportTicketEvent,
       Org!createInvitation
  <2>2. QED
    BY <1>2, <2>1
<1>7. ASSUME NEW r \in Slots, Org!appendPlatformAuditLog(r), orgReq[r].op # "patch"
      PROVE  \E q \in OrgRequest : NoPatch(r, q)
  <2>1. Org!End(r) /\ UNCHANGED <<writes, doc, overlapped>> /\ Org!Ack(r)
    BY <1>7 DEF Org!appendPlatformAuditLog, Org!Ack
  <2>2. QED
    BY <1>2, <1>7, <2>1
<1>8. ASSUME NEW r \in Slots, Org!createPlatformUserRole(r) \/ Org!deletePlatformUserRole(r)
      PROVE  \E q \in OrgRequest : NoPatch(r, q)
  <2>1. /\ orgReq[r].op \in {"grant", "remove"} /\ UNCHANGED <<writes, doc, acked, overlapped>>
        /\ Org!End(r) \/ Org!Go(r, "record")
    BY <1>8 DEF Org!createPlatformUserRole, Org!deletePlatformUserRole
  <2>2. CASE Org!End(r)
    BY <1>2, <2>1, <2>2
  <2>3. CASE Org!Go(r, "record")
    <3>1. PICK q \in OrgRequest : OrgMoves(r, q) /\ q.op = orgReq[r].op
      BY <1>0, <2>1, <2>3, OrgRecords
    <3>2. QED
      BY <1>0, <2>1, <3>1 DEF NoPatch
  <2>4. QED
    BY <2>1, <2>2, <2>3
<1>9. ASSUME NEW r \in Slots, NEW u \in Users, NEW f \in Fields,
             Org!getOrganizationSettings(r, u, f) \/ Org!getOrganizationSubscription(r, u, f)
      PROVE  \E d \in Org!Documents : Org!Reads(r, u, d, f)
  BY <1>9 DEF Org!getOrganizationSettings, Org!getOrganizationSubscription, Org!Documents
<1>10. ASSUME NEW i \in Invites,
              Org!InvitationExpires(i) \/ \E u \in Users : Org!acceptInvitation(u, i)
       PROVE  UNCHANGED <<orgReq, writes, doc, acked, overlapped>>
  BY <1>10 DEF Org!InvitationExpires, Org!acceptInvitation
<1>11. QED
  BY <1>3, <1>4, <1>5, <1>6, <1>7, <1>8, <1>9, <1>10 DEF Org!Next

LEMMA OrgMoveKeeps ==
  ASSUME OrgReqsTyped, NEW r \in Slots, NEW q, OrgMoves(r, q)
  PROVE  OrgReqsTyped' /\ \A p \in Slots : orgReq'[p] = IF p = r THEN q ELSE orgReq[p]
BY DEF OrgReqsTyped, OrgMoves

(* The document that was read by a patch, its number, and the sections of it. *)
LEMMA OrgReads ==
  ASSUME OrganizationInv, NEW r \in Slots, NEW u \in Users, NEW d \in Org!Documents,
         NEW f \in Fields, Org!Reads(r, u, d, f)
  PROVE  /\ writes' = writes + 1 /\ writes' \in Nat
         /\ \E q \in OrgRequest :
              /\ OrgMoves(r, q) /\ q.n = writes + 1
              /\ q.op = "patch" /\ q.of = d /\ q.to = f /\ q.pc = "merge" /\ q.read = doc[d]
<1> DEFINE g == [Org!Idle EXCEPT !.pc = "merge", !.op = "patch", !.u = u, !.of = d, !.to = f,
                                 !.read = doc[d]]
<1>1. OrgReqsTyped /\ DocsTyped /\ doc[d] \in Sections
  BY DEF OrganizationInv, DocsTyped
<1>2. Org!Begin(r, g)
  BY DEF Org!Reads
<1>3. /\ g \in OrgRequest /\ g.op = "patch" /\ g.of = d /\ g.to = f /\ g.pc = "merge"
      /\ g.read = doc[d]
  BY <1>1 DEF Org!Idle, OrgRequest, Org!Roles
<1> HIDE DEF g
<1>4. OrgRequestFits(g)
  BY <1>3 DEF OrgRequestFits
<1>5. QED
  BY <1>1, <1>2, <1>3, <1>4, OrgBegins

(* A merge writes what it read, with its own section.                        *)
LEMMA OrgMerges ==
  ASSUME OrganizationInv, NEW r \in Slots,
         Org!updateOrganizationSettings(r) \/ Org!upsertOrganizationSubscription(r)
  PROVE  /\ orgReq[r].op = "patch" /\ orgReq[r].of \in Org!Documents /\ orgReq[r].to \in Fields
         /\ orgReq[r].n \in Nat /\ UNCHANGED <<writes, overlapped>>
         /\ orgReq[r].pc = "merge" /\ orgReq[r].read \in Sections
         /\ \A d \in Org!Documents : d # orgReq[r].of => doc'[d] = doc[d]
         /\ \A f \in Fields : doc'[orgReq[r].of][f] =
               IF f = orgReq[r].to THEN orgReq[r].n ELSE orgReq[r].read[f]
         /\ doc' \in [Org!Documents -> Sections]
<1> DEFINE d == orgReq[r].of
<1>1. orgReq[r].pc = "merge" /\ d \in {"settings", "subscription"}
  BY DEF Org!updateOrganizationSettings, Org!upsertOrganizationSubscription, Org!Merges
<1>2. orgReq[r] \in OrgRequest /\ OrgRequestFits(orgReq[r]) /\ doc \in [Org!Documents -> Sections]
  BY DEF OrganizationInv, OrgReqsTyped, DocsTyped
<1>3. /\ orgReq[r].op = "patch" /\ d \in Org!Documents /\ orgReq[r].to \in Fields
      /\ orgReq[r].n \in Nat /\ orgReq[r].read \in Sections
  BY <1>1, <1>2 DEF OrgRequestFits, OrgRequest
<1>4. doc' = [doc EXCEPT ![d] = Org!Merged(r)] /\ UNCHANGED <<writes, overlapped>>
  BY DEF Org!updateOrganizationSettings, Org!upsertOrganizationSubscription, Org!Merges
<1>5. /\ Org!Merged(r) \in Sections
      /\ \A f \in Fields : Org!Merged(r)[f] =
             IF f = orgReq[r].to THEN orgReq[r].n ELSE orgReq[r].read[f]
  BY <1>3 DEF Org!Merged, Sections
<1>6. QED
  BY <1>1, <1>2, <1>3, <1>4, <1>5

LEMMA OrgAcks ==
  ASSUME DocsTyped, NEW r \in Slots, orgReq[r].of \in Org!Documents, orgReq[r].to \in Fields,
         orgReq[r].n \in Nat, Org!AckPatch(r)
  PROVE  /\ acked' \in [doc : [Org!Documents -> Sections], roles : SUBSET Nat]
         /\ acked'.roles = acked.roles
         /\ \A d \in Org!Documents, f \in Fields :
               acked'.doc[d][f] = IF d = orgReq[r].of /\ f = orgReq[r].to THEN orgReq[r].n
                                  ELSE acked.doc[d][f]
<1> DEFINE d == orgReq[r].of
           sections == [acked.doc[d] EXCEPT ![orgReq[r].to] = orgReq[r].n]
           docs == [acked.doc EXCEPT ![d] = sections]
<1>1. /\ acked \in [doc : [Org!Documents -> Sections], roles : SUBSET Nat]
      /\ acked.doc \in [Org!Documents -> Sections] /\ acked.doc[d] \in Sections
  BY DEF DocsTyped
<1>2. /\ sections \in Sections
      /\ \A f \in Fields : sections[f] = IF f = orgReq[r].to THEN orgReq[r].n ELSE acked.doc[d][f]
  BY <1>1 DEF Sections
<1>3. acked' = [acked EXCEPT !.doc = docs]
  BY <1>1 DEF Org!AckPatch
<1> HIDE DEF sections
<1>4. /\ docs \in [Org!Documents -> Sections]
      /\ \A e \in Org!Documents : docs[e] = IF e = d THEN sections ELSE acked.doc[e]
  BY <1>1, <1>2
<1> HIDE DEF docs
<1>5. /\ acked' \in [doc : [Org!Documents -> Sections], roles : SUBSET Nat]
      /\ acked'.roles = acked.roles /\ acked'.doc = docs
  BY <1>1, <1>3, <1>4
<1>6. QED
  BY <1>2, <1>4, <1>5

(* The patches after each of the five kinds of steps.                        *)
PatchesKept ==
    OrgReqsTyped' /\ DocsTyped' /\ PatchesAlone' /\ Org!PatchesKeepSections'

LEMMA PatchesUntouched ==
  ASSUME OrganizationInv, NEW r \in Slots, NEW q \in OrgRequest, OrgMoves(r, q), q.op # "patch",
         writes' \in Nat, writes <= writes', UNCHANGED <<doc, overlapped>>,
         acked' \in [doc : [Org!Documents -> Sections], roles : SUBSET Nat],
         acked'.doc = acked.doc
  PROVE  PatchesKept
<1>0. /\ OrgReqsTyped /\ DocsTyped /\ PatchesAlone /\ Org!PatchesKeepSections
      /\ doc \in [Org!Documents -> Sections] /\ writes \in Nat
      /\ \A p \in Slots : orgReq[p] \in OrgRequest
  BY DEF OrganizationInv, DocsTyped, OrgReqsTyped
<1>1. OrgReqsTyped' /\ \A p \in Slots : orgReq'[p] = IF p = r THEN q ELSE orgReq[p]
  BY <1>0, OrgMoveKeeps
<1>2. DocsTyped' /\ Org!PatchesKeepSections'
  BY <1>0 DEF DocsTyped, Org!PatchesKeepSections
<1>3. ASSUME NEW d \in Org!Documents \ overlapped
      PROVE  /\ AtMostOne(d)' /\ \A p \in Slots : PatchFits(d, orgReq[p])'
             /\ \A f \in Fields : doc'[d][f] <= writes'
  <2>1. /\ AtMostOne(d) /\ \A p \in Slots : PatchFits(d, orgReq[p])
        /\ \A f \in Fields : doc[d][f] <= writes /\ doc[d][f] \in Nat
    BY <1>0, <1>3 DEF PatchesAlone, Sections
  <2>2. AtMostOne(d)'
    BY <1>1, <2>1 DEF AtMostOne, Patches
  <2>3. ASSUME NEW p \in Slots PROVE PatchFits(d, orgReq[p])'
    <3>1. CASE p = r
      BY <1>1, <3>1 DEF PatchFits, Patches
    <3>2. CASE p # r
      <4>1. orgReq'[p] = orgReq[p] /\ orgReq[p].n \in Nat
        BY <1>0, <1>1, <3>2 DEF OrgRequest
      <4>2. PatchFits(d, orgReq[p]) /\ doc' = doc
        BY <2>1
      <4>3. QED
        BY <1>0, <4>1, <4>2 DEF PatchFits, Patches
    <3>3. QED
      BY <3>1, <3>2
  <2>4. \A f \in Fields : doc'[d][f] <= writes'
    BY <1>0, <2>1
  <2>5. QED
    BY <2>2, <2>3, <2>4
<1>4. PatchesAlone'
  BY <1>3 DEF PatchesAlone
<1>5. QED
  BY <1>1, <1>2, <1>4 DEF PatchesKept

LEMMA PatchesAfterRead ==
  ASSUME OrganizationInv, NEW r \in Slots, NEW u \in Users, NEW d \in Org!Documents,
         NEW f \in Fields, Org!Reads(r, u, d, f)
  PROVE  PatchesKept
<1>0. /\ OrgReqsTyped /\ DocsTyped /\ PatchesAlone /\ Org!PatchesKeepSections
      /\ doc \in [Org!Documents -> Sections] /\ writes \in Nat
      /\ \A p \in Slots : orgReq[p] \in OrgRequest
  BY DEF OrganizationInv, DocsTyped, OrgReqsTyped
<1>1. /\ writes' = writes + 1 /\ writes' \in Nat /\ UNCHANGED <<doc, acked>>
      /\ overlapped' = IF Org!PatchUnderWay(d) THEN overlapped \cup {d} ELSE overlapped
  BY OrgReads DEF Org!Reads
<1>2. PICK q \in OrgRequest :
        /\ OrgMoves(r, q) /\ q.n = writes + 1
        /\ q.op = "patch" /\ q.of = d /\ q.to = f /\ q.pc = "merge" /\ q.read = doc[d]
  BY OrgReads
<1>3. OrgReqsTyped' /\ \A p \in Slots : orgReq'[p] = IF p = r THEN q ELSE orgReq[p]
  BY <1>0, <1>2, OrgMoveKeeps
<1>4. DocsTyped' /\ Org!PatchesKeepSections'
  BY <1>0, <1>1 DEF DocsTyped, Org!PatchesKeepSections
<1>5. ASSUME NEW e \in Org!Documents \ overlapped'
      PROVE  /\ AtMostOne(e)' /\ \A p \in Slots : PatchFits(e, orgReq[p])'
             /\ \A g \in Fields : doc'[e][g] <= writes'
  <2>1. /\ AtMostOne(e) /\ \A p \in Slots : PatchFits(e, orgReq[p])
        /\ \A g \in Fields : doc[e][g] <= writes /\ doc[e][g] \in Nat
    BY <1>0, <1>1, <1>5 DEF PatchesAlone, Sections
  <2>2. e = d => \A p \in Slots : ~(orgReq[p].op = "patch" /\ orgReq[p].of = d)
    BY <1>1, <1>5 DEF Org!PatchUnderWay
  <2>3. AtMostOne(e)'
    BY <1>2, <1>3, <2>1, <2>2 DEF AtMostOne, Patches
  <2>4. ASSUME NEW p \in Slots PROVE PatchFits(e, orgReq[p])'
    <3>1. CASE p = r
      <4>1. orgReq'[p] = q /\ q.n <= writes' /\ doc' = doc
        BY <1>0, <1>1, <1>2, <1>3, <3>1
      <4>2. \A g \in Fields : doc[e][g] <= q.n
        BY <1>0, <1>2, <2>1
      <4>3. QED
        BY <1>2, <4>1, <4>2 DEF PatchFits, Patches
    <3>2. CASE p # r
      <4>1. orgReq'[p] = orgReq[p] /\ orgReq[p].n \in Nat
        BY <1>0, <1>3, <3>2 DEF OrgRequest
      <4>2. PatchFits(e, orgReq[p]) /\ doc' = doc
        BY <1>1, <2>1
      <4>3. QED
        BY <1>0, <1>1, <4>1, <4>2 DEF PatchFits, Patches
    <3>3. QED
      BY <3>1, <3>2
  <2>5. \A g \in Fields : doc'[e][g] <= writes'
    BY <1>0, <1>1, <2>1
  <2>6. QED
    BY <2>3, <2>4, <2>5
<1>6. PatchesAlone'
  BY <1>5 DEF PatchesAlone
<1>7. QED
  BY <1>3, <1>4, <1>6 DEF PatchesKept

LEMMA PatchesAfterMerge ==
  ASSUME OrganizationInv, NEW r \in Slots,
         Org!updateOrganizationSettings(r) \/ Org!upsertOrganizationSubscription(r)
  PROVE  PatchesKept
<1> DEFINE d == orgReq[r].of
           to == orgReq[r].to
           n == orgReq[r].n
<1>0. /\ OrgReqsTyped /\ DocsTyped /\ PatchesAlone /\ Org!PatchesKeepSections
      /\ doc \in [Org!Documents -> Sections] /\ writes \in Nat
      /\ acked \in [doc : [Org!Documents -> Sections], roles : SUBSET Nat]
  BY DEF OrganizationInv, DocsTyped
<1>1. /\ orgReq[r].op = "patch" /\ d \in Org!Documents /\ to \in Fields /\ n \in Nat
      /\ orgReq[r].pc = "merge" /\ orgReq[r].read \in Sections
      /\ UNCHANGED <<writes, overlapped>> /\ doc' \in [Org!Documents -> Sections]
      /\ \A e \in Org!Documents : e # d => doc'[e] = doc[e]
      /\ \A f \in Fields : doc'[d][f] = IF f = to THEN n ELSE orgReq[r].read[f]
  BY OrgMerges
<1>2. /\ acked' \in [doc : [Org!Documents -> Sections], roles : SUBSET Nat]
      /\ \A e \in Org!Documents, f \in Fields :
            \/ acked'.doc[e][f] = acked.doc[e][f]
            \/ e = d /\ f = to /\ acked'.doc[e][f] = n
  <2>1. CASE UNCHANGED acked
    BY <1>0, <2>1
  <2>2. CASE Org!AckPatch(r)
    BY <1>0, <1>1, <2>2, OrgAcks
  <2>3. QED
    BY <2>1, <2>2 DEF Org!updateOrganizationSettings, Org!upsertOrganizationSubscription
<1>3. PICK q \in OrgRequest :
        /\ OrgMoves(r, q)
        /\ \/ q.op = "none"
           \/ q.pc = "record" /\ q.op = "patch" /\ q.of = d /\ q.to = to /\ q.n = n
  <2>1. CASE Org!End(r)
    BY <2>1, OrgEnds
  <2>2. CASE Org!Go(r, "record")
    BY <1>0, <1>1, <2>2, OrgRecords
  <2>3. QED
    BY <2>1, <2>2 DEF Org!updateOrganizationSettings, Org!upsertOrganizationSubscription
<1>4. OrgReqsTyped' /\ \A p \in Slots : orgReq'[p] = IF p = r THEN q ELSE orgReq[p]
  BY <1>0, <1>3, OrgMoveKeeps
<1>5. DocsTyped'
  BY <1>0, <1>1, <1>2 DEF DocsTyped
<1>6. d \notin overlapped => /\ n <= writes /\ orgReq[r].read = doc[d]
                             /\ \A f \in Fields : doc[d][f] <= n
  BY <1>0, <1>1 DEF PatchesAlone, PatchFits, Patches
<1>7. ASSUME NEW e \in Org!Documents \ overlapped
      PROVE  /\ AtMostOne(e)' /\ \A p \in Slots : PatchFits(e, orgReq[p])'
             /\ \A f \in Fields : doc'[e][f] <= writes' /\ doc'[e][f] >= acked'.doc[e][f]
  <2>1. /\ AtMostOne(e) /\ \A p \in Slots : PatchFits(e, orgReq[p])
        /\ \A f \in Fields : /\ doc[e][f] <= writes /\ doc[e][f] \in Nat
                             /\ doc[e][f] >= acked.doc[e][f] /\ acked.doc[e][f] \in Nat
    <3>1. doc[e] \in Sections /\ acked.doc[e] \in Sections
      BY <1>0, <1>7
    <3>2. QED
      BY <1>0, <1>7, <3>1 DEF PatchesAlone, Sections, Org!PatchesKeepSections
  <2>2. AtMostOne(e)'
    <3>1. \A p \in Slots : Patches(orgReq'[p], e) => Patches(orgReq[p], e)
      BY <1>1, <1>3, <1>4 DEF Patches
    <3>2. QED
      BY <2>1, <3>1 DEF AtMostOne
  <2>3. CASE e = d
    <3>1. \A p \in Slots : p # r => ~Patches(orgReq[p], d)
      BY <1>1, <2>1, <2>3 DEF AtMostOne, Patches
    <3>2. \A p \in Slots : Patches(orgReq'[p], e) => p = r /\ orgReq'[p] = q /\ q.op = "patch"
      BY <1>3, <1>4, <2>3, <3>1 DEF Patches
    <3>3. doc'[d][to] = n /\ n <= writes /\ \A f \in Fields : f # to => doc'[d][f] = doc[d][f]
      BY <1>1, <1>6, <1>7, <2>3
    <3>4. \A p \in Slots : PatchFits(e, orgReq[p])'
      BY <1>1, <1>3, <2>3, <3>2, <3>3 DEF PatchFits
    <3>5. ASSUME NEW f \in Fields
          PROVE  doc'[e][f] <= writes' /\ doc'[e][f] >= acked'.doc[e][f]
      <4>1. CASE f = to
        <5>1. doc'[e][f] = n /\ n <= writes' /\ acked.doc[e][f] <= n
          BY <1>0, <1>1, <1>6, <1>7, <2>1, <2>3, <3>3, <4>1
        <5>2. QED
          BY <1>1, <1>2, <5>1
      <4>2. CASE f # to
        BY <1>1, <1>2, <2>1, <2>3, <3>3, <4>2
      <4>3. QED
        BY <4>1, <4>2
    <3>6. QED
      BY <2>2, <3>4, <3>5
  <2>4. CASE e # d
    <3>1. doc'[e] = doc[e]
      BY <1>1, <2>4
    <3>2. \A p \in Slots : Patches(orgReq'[p], e) => orgReq'[p] = orgReq[p]
      BY <1>3, <1>4, <2>4 DEF Patches
    <3>3. \A p \in Slots : PatchFits(e, orgReq[p])'
      BY <1>1, <2>1, <3>1, <3>2 DEF PatchFits
    <3>4. \A f \in Fields : doc'[e][f] <= writes' /\ doc'[e][f] >= acked'.doc[e][f]
      BY <1>1, <1>2, <2>1, <2>4, <3>1
    <3>5. QED
      BY <2>2, <3>3, <3>4
  <2>5. QED
    BY <2>3, <2>4
<1>8. PatchesAlone' /\ Org!PatchesKeepSections'
  BY <1>1, <1>7 DEF PatchesAlone, Org!PatchesKeepSections
<1>9. QED
  BY <1>4, <1>5, <1>8 DEF PatchesKept

LEMMA PatchesAfterRecord ==
  ASSUME OrganizationInv, NEW r \in Slots, Org!appendPlatformAuditLog(r), orgReq[r].op = "patch"
  PROVE  PatchesKept
<1>0. /\ OrgReqsTyped /\ DocsTyped /\ PatchesAlone /\ Org!PatchesKeepSections
      /\ doc \in [Org!Documents -> Sections] /\ writes \in Nat
      /\ orgReq[r] \in OrgRequest /\ OrgRequestFits(orgReq[r])
  BY DEF OrganizationInv, DocsTyped, OrgReqsTyped
<1>1. /\ orgReq[r].pc = "record" /\ Org!End(r) /\ Org!AckPatch(r)
      /\ UNCHANGED <<doc, writes, overlapped>>
  BY DEF Org!appendPlatformAuditLog, Org!Ack
<1>2. /\ orgReq[r].of \in Org!Documents /\ orgReq[r].to \in Fields /\ orgReq[r].n \in Nat
  BY <1>0 DEF OrgRequestFits, OrgRequest
<1>3. /\ acked' \in [doc : [Org!Documents -> Sections], roles : SUBSET Nat]
      /\ \A d \in Org!Documents, f \in Fields :
            acked'.doc[d][f] = IF d = orgReq[r].of /\ f = orgReq[r].to THEN orgReq[r].n
                               ELSE acked.doc[d][f]
  BY <1>0, <1>1, <1>2, OrgAcks
<1>4. PICK q \in OrgRequest : OrgMoves(r, q) /\ q.op = "none"
  BY <1>1, OrgEnds
<1>5. OrgReqsTyped' /\ \A p \in Slots : orgReq'[p] = IF p = r THEN q ELSE orgReq[p]
  BY <1>0, <1>4, OrgMoveKeeps
<1>6. DocsTyped'
  BY <1>0, <1>1, <1>3 DEF DocsTyped
<1>7. Org!PatchesKeepSections'
  <2>1. orgReq[r].of \notin overlapped => orgReq[r].n <= doc[orgReq[r].of][orgReq[r].to]
    BY <1>0, <1>1, <1>2 DEF PatchesAlone, PatchFits, Patches
  <2>2. \A d \in Org!Documents, f \in Fields : doc[d][f] \in Nat
    BY <1>0 DEF Sections
  <2>3. QED
    BY <1>0, <1>1, <1>2, <1>3, <2>1, <2>2 DEF Org!PatchesKeepSections
<1>8. PatchesAlone'
  <2>1. ASSUME NEW d \in Org!Documents \ overlapped
        PROVE  AtMostOne(d)' /\ \A p \in Slots : PatchFits(d, orgReq[p])'
    <3>1. \A p \in Slots : Patches(orgReq'[p], d) => orgReq'[p] = orgReq[p]
      BY <1>4, <1>5 DEF Patches
    <3>2. AtMostOne(d) /\ \A p \in Slots : PatchFits(d, orgReq[p])
      BY <1>0, <2>1 DEF PatchesAlone
    <3>3. AtMostOne(d)'
      BY <3>1, <3>2 DEF AtMostOne
    <3>4. QED
      BY <1>1, <3>1, <3>2, <3>3 DEF PatchFits
  <2>2. QED
    BY <1>0, <1>1, <2>1 DEF PatchesAlone
<1>9. QED
  BY <1>5, <1>6, <1>7, <1>8 DEF PatchesKept

LEMMA NextPatches ==
  ASSUME OrganizationInv, Org!Next
  PROVE  PatchesKept
<1>0. /\ OrgReqsTyped /\ DocsTyped /\ PatchesAlone /\ Org!PatchesKeepSections
      /\ acked \in [doc : [Org!Documents -> Sections], roles : SUBSET Nat]
  BY DEF OrganizationInv, DocsTyped
<1>1. ASSUME UNCHANGED <<orgReq, writes, doc, acked, overlapped>> PROVE PatchesKept
  <2>1. OrgReqsTyped' /\ DocsTyped' /\ Org!PatchesKeepSections'
    BY <1>0, <1>1 DEF OrgReqsTyped, DocsTyped, Org!PatchesKeepSections
  <2>2. PatchesAlone'
    BY <1>0, <1>1 DEF PatchesAlone, AtMostOne, PatchFits
  <2>3. QED
    BY <2>1, <2>2 DEF PatchesKept
<1>2. ASSUME NEW r \in Slots, NEW q \in OrgRequest, NoPatch(r, q) PROVE PatchesKept
  <2>1. /\ acked' \in [doc : [Org!Documents -> Sections], roles : SUBSET Nat]
        /\ acked'.doc = acked.doc
    <3>1. CASE UNCHANGED acked
      BY <1>0, <3>1
    <3>2. CASE Org!Ack(r) /\ orgReq[r].op # "patch"
      <4>1. orgReq[r].n \in Nat
        BY <1>0 DEF OrgReqsTyped, OrgRequest
      <4>2. acked' = [acked EXCEPT !.roles = @ \cup {orgReq[r].n}]
        BY <3>2 DEF Org!Ack
      <4>3. QED
        BY <1>0, <4>1, <4>2
    <3>3. QED
      BY <1>2, <3>1, <3>2 DEF NoPatch
  <2>2. QED
    BY <1>2, <2>1, PatchesUntouched DEF NoPatch
<1>3. QED
  BY <1>1, <1>2, OrgSteps, PatchesAfterRead, PatchesAfterMerge, PatchesAfterRecord

LEMMA NextAudited ==
  ASSUME OrganizationInv, Org!Next
  PROVE  Org!AnsweredIsAudited'
<1>0. /\ OrgReqsTyped /\ DocsTyped /\ Org!AnsweredIsAudited
      /\ acked \in [doc : [Org!Documents -> Sections], roles : SUBSET Nat]
  BY DEF OrganizationInv, DocsTyped
<1>1. audit \subseteq audit'
  BY DEF Org!Next, Org!requireOrgContext, Org!requireSystemAdmin, Org!createInvitation,
     Org!updateMembershipRole, Org!getOrganizationSettings, Org!getOrganizationSubscription,
     Org!Reads, Org!updateOrganizationSettings, Org!upsertOrganizationSubscription, Org!Merges,
     Org!createPlatformUserRole, Org!deletePlatformUserRole, Org!patchSupportTicket,
     Org!appendPlatformAuditLog, Org!appendSupportTicketEvent, Org!RequestFails,
     Org!InvitationExpires, Org!acceptInvitation
<1>2. CASE acked' = acked
  BY <1>0, <1>1, <1>2 DEF Org!AnsweredIsAudited
<1>3. ASSUME NEW r \in Slots, Org!updateOrganizationSettings(r) PROVE Org!AnsweredIsAudited'
  <2>1. Org!AckPatch(r)
    BY <1>3 DEF Org!updateOrganizationSettings
  <2>2. acked'.roles = acked.roles
    BY <1>0, <1>3, <2>1, OrgMerges, OrgAcks
  <2>3. QED
    BY <1>0, <1>1, <2>2 DEF Org!AnsweredIsAudited
<1>4. ASSUME NEW r \in Slots, Org!appendPlatformAuditLog(r) PROVE Org!AnsweredIsAudited'
  <2>1. /\ orgReq[r] \in OrgRequest /\ OrgRequestFits(orgReq[r])
        /\ audit' = audit \cup {orgReq[r].n} /\ Org!Ack(r)
    BY <1>0, <1>4 DEF OrgReqsTyped, Org!appendPlatformAuditLog, Org!Ack
  <2>2. CASE orgReq[r].op = "patch"
    <3>1. /\ Org!AckPatch(r) /\ orgReq[r].n \in Nat
          /\ orgReq[r].of \in Org!Documents /\ orgReq[r].to \in Fields
      BY <2>1, <2>2 DEF Org!Ack, OrgRequest, OrgRequestFits
    <3>2. acked'.roles = acked.roles
      BY <1>0, <3>1, OrgAcks
    <3>3. QED
      BY <1>0, <1>1, <3>2 DEF Org!AnsweredIsAudited
  <2>3. CASE orgReq[r].op # "patch"
    <3>1. acked' = [acked EXCEPT !.roles = @ \cup {orgReq[r].n}]
      BY <2>1, <2>3 DEF Org!Ack
    <3>2. acked'.roles = acked.roles \cup {orgReq[r].n}
      BY <1>0, <3>1
    <3>3. QED
      BY <1>0, <2>1, <3>2 DEF Org!AnsweredIsAudited
  <2>4. QED
    BY <2>2, <2>3
<1>5. \/ acked' = acked
      \/ \E r \in Slots : Org!updateOrganizationSettings(r) \/ Org!appendPlatformAuditLog(r)
  BY DEF Org!Next, Org!requireOrgContext, Org!requireSystemAdmin, Org!createInvitation,
     Org!updateMembershipRole, Org!getOrganizationSettings, Org!getOrganizationSubscription,
     Org!Reads, Org!upsertOrganizationSubscription, Org!createPlatformUserRole,
     Org!deletePlatformUserRole, Org!patchSupportTicket, Org!appendSupportTicketEvent,
     Org!RequestFails, Org!InvitationExpires, Org!acceptInvitation
<1>6. QED
  BY <1>2, <1>3, <1>4, <1>5

LEMMA NextOrganization == OrganizationInv /\ [Org!Next]_(Org!vars) => OrganizationInv'
<1> SUFFICES ASSUME OrganizationInv, [Org!Next]_(Org!vars) PROVE OrganizationInv'
  OBVIOUS
<1>1. CASE Org!Next
  BY <1>1, NextMembers, NextPatches, NextAudited DEF OrganizationInv, PatchesKept
<1>2. CASE UNCHANGED Org!vars
  <2>1. RolesTyped' /\ MembershipsTyped' /\ OrgReqsTyped' /\ DocsTyped'
    BY <1>2 DEF Org!vars, OrganizationInv, RolesTyped, MembershipsTyped, OrgReqsTyped, DocsTyped
  <2>2. PatchesAlone' /\ Org!PatchesKeepSections'
    BY <1>2 DEF Org!vars, OrganizationInv, PatchesAlone, AtMostOne, PatchFits,
       Org!PatchesKeepSections
  <2>3. Org!MembersWereInvited' /\ Org!AcceptedAreMembers' /\ Org!AnsweredIsAudited'
    BY <1>2 DEF Org!vars, OrganizationInv, Org!MembersWereInvited, Org!AcceptedAreMembers,
       Org!AnsweredIsAudited
  <2>4. QED
    BY <2>1, <2>2, <2>3 DEF OrganizationInv
<1>3. QED
  BY <1>1, <1>2

LEMMA OrganizationIsServed == GovernanceSpec => Org!Spec
<1>1. GovernanceInit => Org!Init
  BY DEF GovernanceInit
<1>2. [GovernanceNext]_allVars => [Org!Next]_(Org!vars)
  BY DEF GovernanceNext, allVars, orgVars, Org!vars
<1>3. QED
  BY <1>1, <1>2, PTL DEF GovernanceSpec, Org!Spec

LEMMA OrganizationInvariant == GovernanceSpec => []OrganizationInv
BY OrganizationIsServed, InitOrganization, NextOrganization, PTL DEF Org!Spec

(* A member was invited and has accepted, a section that was patched keeps its *)
(* value unless two patches of its document met, and what was answered of an   *)
(* administrator's role is in the log (acceptInvitation,                     *)
(* updateOrganizationSettings, appendPlatformAuditLog), for any number of    *)
(* users, invitations, sections and requests.                                *)
THEOREM MembershipIsKept == GovernanceSpec => []MembershipHolds
<1>1. OrganizationInv => MembershipHolds
  BY DEF OrganizationInv, MembershipHolds
<1>2. QED
  BY <1>1, OrganizationInvariant, PTL


-----------------------------------------------------------------------------
(* Workflows: the revisions of a family are numbered without a gap.          *)

WorkflowRow == [revision : Nat, status : {"none", "draft", "published"}, trigger : Wri!Triggers, version : Nat]
WriRequest == [pc : {"idle", "update", "publish", "sync", "max", "insert", "retry"},
               w : Workflows \cup {None}, trigger : Wri!Triggers, version : Nat, max : Nat,
               result : {"none", "updated", "conflict", "published", "created", "aborted", "failed"}]
Subscription == [id : Nat, w : Workflows, type : Wri!Triggers, enabled : BOOLEAN]
Delivery == [pc : {"idle", "workflow", "refused", "create", "duplicate", "enqueue", "accepted", "undo",
                   "unavailable"},
             sub : Nat, w : Workflows \cup {None}]
WebhookRun == [sub : Nat, w : Workflows, by : Deliveries]

WorkflowsTyped == workflow \in [Workflows -> WorkflowRow]
WriReqsTyped == wriReq \in [Slots -> WriRequest]
SubsTyped == subs \subseteq Subscription /\ lastId \in Nat
DeliveriesTyped ==
    /\ delivery \in [Deliveries -> Delivery] /\ webhookRuns \subseteq WebhookRun
    /\ \A d \in Deliveries :
          delivery[d].pc \in {"workflow", "create", "enqueue"} =>
              delivery[d].w \in Workflows /\ delivery[d].sub # 0

Revisions == Cardinality(Wri!Rows)
RevisionsNumbered ==
    /\ \A w \in Wri!Rows : workflow[w].revision \in 1..Revisions
    /\ \A n \in 1..Revisions : \E w \in Wri!Rows : workflow[w].revision = n

(* A request knows a row, and what it read of it that does not change.       *)
WriReqsKnow ==
    \A r \in Slots :
        /\ wriReq[r].pc # "idle" => wriReq[r].w \in Wri!Rows
        /\ wriReq[r].pc = "insert" => wriReq[r].max <= Revisions
        /\ wriReq[r].pc = "sync" => /\ workflow[wriReq[r].w].status = "published"
                                    /\ wriReq[r].trigger = workflow[wriReq[r].w].trigger

(* An id is of one workflow for ever, whoever has kept it.                   *)
HeldFor(id, w) ==
    \/ \E x \in subs : x.id = id /\ x.w = w
    \/ id # 0 /\ \E d \in Deliveries : delivery[d].sub = id /\ delivery[d].w = w
    \/ \E x \in webhookRuns : x.sub = id /\ x.w = w
IdsServeOne ==
    /\ \A id, w : HeldFor(id, w) => id \in 1..lastId
    /\ \A id, w, v : HeldFor(id, w) /\ HeldFor(id, v) => w = v

(* A run has a job from the answer of its call, and one whose call was told to *)
(* retry is one that a worker has begun.                                     *)
RunsAreQueued ==
    /\ webhookBegun \subseteq webhookJobs
    /\ \A x \in webhookRuns :
          /\ delivery[x.by].pc \in {"enqueue", "accepted", "undo", "unavailable"}
          /\ delivery[x.by].pc \in {"accepted", "unavailable"} => x.by \in webhookJobs
          /\ delivery[x.by].pc = "unavailable" => x.by \in webhookBegun

WorkflowsInv ==
    /\ WorkflowsTyped /\ WriReqsTyped /\ SubsTyped /\ DeliveriesTyped
    /\ RevisionsNumbered /\ Wri!RevisionsDiffer /\ WriReqsKnow /\ Wri!SubscriptionsFollowDsl
    /\ IdsServeOne /\ RunsAreQueued /\ Wri!WebhookRunsOnce

LEMMA RowsAreFinite ==
  IsFiniteSet(Wri!Rows) /\ Revisions \in Nat /\ Revisions \in 0..Cardinality(Workflows)
<1>1. Wri!Rows \subseteq Workflows
  BY DEF Wri!Rows
<1>2. IsFiniteSet(Wri!Rows) /\ Cardinality(Wri!Rows) <= Cardinality(Workflows)
  BY <1>1, WorkflowsAssumption, FS_Subset
<1>3. Cardinality(Wri!Rows) \in Nat /\ Cardinality(Workflows) \in Nat
  BY <1>2, WorkflowsAssumption, FS_CardinalityType
<1>4. QED
  BY <1>2, <1>3 DEF Revisions

(* The greatest number is how many revisions there are.                      *)
LEMMA MaxRevisionIsLast ==
  ASSUME RevisionsNumbered PROVE Wri!MaxRevision = Revisions
<1> DEFINE Last(n) == /\ \A w \in Wri!Rows : workflow[w].revision <= n
                      /\ n = 0 \/ \E w \in Wri!Rows : workflow[w].revision = n
<1>1. Revisions \in Nat /\ Revisions \in 0..Cardinality(Workflows)
  BY RowsAreFinite
<1>2. Last(Revisions)
  BY <1>1 DEF RevisionsNumbered
<1>3. ASSUME NEW n \in 0..Cardinality(Workflows), Last(n) PROVE n = Revisions
  <2>1. n \in Nat
    BY RowsAreFinite
  <2>2. n <= Revisions
    BY <1>3, <1>1, <2>1 DEF RevisionsNumbered
  <2>3. Revisions <= n
    <3>1. CASE Revisions = 0
      BY <3>1, <2>1
    <3>2. CASE Revisions # 0
      <4>1. PICK w \in Wri!Rows : workflow[w].revision = Revisions
        BY <3>2, <1>1 DEF RevisionsNumbered
      <4>2. QED
        BY <4>1, <1>3
    <3>3. QED
      BY <3>1, <3>2
  <2>4. QED
    BY <2>1, <2>2, <2>3, <1>1
<1>4. Wri!MaxRevision \in 0..Cardinality(Workflows) /\ Last(Wri!MaxRevision)
  <2>1. \E n \in 0..Cardinality(Workflows) : Last(n)
    BY <1>1, <1>2
  <2>2. Wri!MaxRevision = CHOOSE n \in 0..Cardinality(Workflows) : Last(n)
    <3>1. Wri!Cardinality(Workflows) = Cardinality(Workflows)
      BY DEF Wri!Cardinality, Cardinality
    <3>2. QED
      BY <3>1 DEF Wri!MaxRevision
  <2> HIDE DEF Last
  <2>3. QED
    BY <2>1, <2>2
<1>5. QED
  BY <1>3, <1>4

LEMMA InitWorkflows == Wri!Init => WorkflowsInv
<1> SUFFICES ASSUME Wri!Init PROVE WorkflowsInv
  OBVIOUS
<1>1. /\ \A w \in Workflows : workflow[w] = Wri!NoWorkflow
      /\ \A r \in Slots : wriReq[r] = Wri!Idle
      /\ \A d \in Deliveries : delivery[d] = Wri!NoDelivery
      /\ subs = {} /\ lastId = 0 /\ webhookRuns = {} /\ webhookBegun = {}
  BY DEF Wri!Init
<1>2. Wri!NoWorkflow \in WorkflowRow /\ Wri!Idle \in WriRequest /\ Wri!NoDelivery \in Delivery
  BY DEF Wri!NoWorkflow, Wri!Idle, Wri!NoDelivery, WorkflowRow, WriRequest, Delivery, Wri!Triggers
<1>3. WorkflowsTyped /\ WriReqsTyped /\ SubsTyped
  BY <1>1, <1>2 DEF Wri!Init, WorkflowsTyped, WriReqsTyped, SubsTyped
<1>4. DeliveriesTyped
  BY <1>1, <1>2 DEF Wri!Init, DeliveriesTyped, Wri!NoDelivery
<1>5. Wri!Rows = {}
  BY <1>1 DEF Wri!Rows, Wri!NoWorkflow
<1>6. Revisions = 0
  BY <1>5, FS_EmptySet DEF Revisions
<1>7. RevisionsNumbered /\ Wri!RevisionsDiffer
  BY <1>5, <1>6 DEF RevisionsNumbered, Wri!RevisionsDiffer
<1>8. WriReqsKnow
  BY <1>1 DEF WriReqsKnow, Wri!Idle
<1>9. Wri!SubscriptionsFollowDsl /\ RunsAreQueued /\ Wri!WebhookRunsOnce
  BY <1>1 DEF Wri!SubscriptionsFollowDsl, RunsAreQueued, Wri!WebhookRunsOnce, Wri!NoDelivery
<1>10. IdsServeOne
  BY <1>1 DEF IdsServeOne, HeldFor, Wri!NoDelivery
<1>11. QED
  BY <1>3, <1>4, <1>7, <1>8, <1>9, <1>10 DEF WorkflowsInv

(* Where a request goes, the others stay.                                    *)
LEMMA WriReqMoves ==
  ASSUME WriReqsTyped, NEW r \in Slots, NEW q \in WriRequest, wriReq' = [wriReq EXCEPT ![r] = q]
  PROVE  WriReqsTyped' /\ \A p \in Slots : wriReq'[p] = IF p = r THEN q ELSE wriReq[p]
BY DEF WriReqsTyped

LEMMA WriReqEnds ==
  ASSUME WriReqsTyped, NEW r \in Slots,
         NEW result \in {"updated", "conflict", "published", "created", "aborted", "failed"},
         Wri!End(r, result)
  PROVE  /\ WriReqsTyped' /\ wriReq'[r].pc = "idle"
         /\ \A p \in Slots : p # r => wriReq'[p] = wriReq[p]
<1> DEFINE q == [Wri!Idle EXCEPT !.result = result]
<1>1. wriReq' = [wriReq EXCEPT ![r] = q]
  BY DEF Wri!End
<1>2. q \in WriRequest /\ q.pc = "idle"
  BY DEF Wri!Idle, WriRequest, Wri!Triggers
<1> HIDE DEF q
<1>3. WriReqsTyped' /\ \A p \in Slots : wriReq'[p] = IF p = r THEN q ELSE wriReq[p]
  BY <1>1, <1>2, WriReqMoves
<1>4. QED
  BY <1>2, <1>3

(* What a step that changes no revision's number or status keeps.            *)
SameRevisions ==
    \A w \in Workflows : /\ workflow'[w].revision = workflow[w].revision
                         /\ workflow'[w].status = "none" <=> workflow[w].status = "none"
LEMMA RevisionsStay ==
  ASSUME SameRevisions, RevisionsNumbered, Wri!RevisionsDiffer
  PROVE  /\ RevisionsNumbered' /\ Wri!RevisionsDiffer'
         /\ Wri!Rows' = Wri!Rows /\ Revisions' = Revisions
<1>1. Wri!Rows' = Wri!Rows
  BY DEF SameRevisions, Wri!Rows
<1>2. \A w \in Wri!Rows : workflow'[w].revision = workflow[w].revision
  BY DEF SameRevisions, Wri!Rows
<1>3. Revisions' = Revisions
  BY <1>1 DEF Revisions
<1>4. QED
  BY <1>1, <1>2, <1>3 DEF RevisionsNumbered, Wri!RevisionsDiffer


(* A step leaves the numbers as they are, or adds the next one: the insert    *)
(* runs only where nobody has it, and all the smaller ones are taken.        *)
AddsRevision(w, q) ==
    /\ w \in Workflows \ Wri!Rows /\ q \in WorkflowRow
    /\ q.status = "draft" /\ q.revision = Revisions + 1
    /\ workflow' = [workflow EXCEPT ![w] = q]

LEMMA RowChanges ==
  ASSUME NEW row \in WorkflowRow, NEW t \in Wri!Triggers, NEW n \in Nat
  PROVE  /\ [row EXCEPT !.trigger = t, !.version = n] \in WorkflowRow
         /\ [row EXCEPT !.trigger = t, !.version = n].revision = row.revision
         /\ [row EXCEPT !.trigger = t, !.version = n].status = row.status
         /\ [row EXCEPT !.status = "published", !.version = n] \in WorkflowRow
         /\ [row EXCEPT !.status = "published", !.version = n].revision = row.revision
         /\ [row EXCEPT !.status = "published", !.version = n].trigger = row.trigger
         /\ [row EXCEPT !.status = "published", !.version = n].status = "published"
BY DEF WorkflowRow

LEMMA RevisionSteps ==
  ASSUME WorkflowsInv, Wri!Next
  PROVE  \/ SameRevisions /\ WorkflowsTyped' /\ Wri!StaysPublished
         \/ \E w, q : AddsRevision(w, q)
<1> USE DEF WorkflowsInv
<1>0. /\ WorkflowsTyped /\ WriReqsTyped /\ RevisionsNumbered /\ WriReqsKnow
      /\ workflow \in [Workflows -> WorkflowRow]
  BY DEF WorkflowsTyped
<1>1. ASSUME UNCHANGED workflow PROVE SameRevisions /\ WorkflowsTyped' /\ Wri!StaysPublished
  BY <1>0, <1>1 DEF SameRevisions, WorkflowsTyped, Wri!StaysPublished
<1>2. ASSUME NEW r \in Slots, Wri!updateWorkflowDraft(r)
      PROVE  SameRevisions /\ WorkflowsTyped' /\ Wri!StaysPublished
  <2> DEFINE w == wriReq[r].w
             q == [workflow[w] EXCEPT !.trigger = wriReq[r].trigger, !.version = @ + 1]
  <2>1. CASE workflow[w].status = "draft"
    <3>1. wriReq[r] \in WriRequest /\ w \in Workflows
      BY <1>0, <1>2 DEF WriReqsTyped, WriReqsKnow, Wri!updateWorkflowDraft, Wri!Rows
    <3>2. workflow[w] \in WorkflowRow
      BY <1>0, <3>1
    <3>3. /\ q \in WorkflowRow /\ q.revision = workflow[w].revision
          /\ q.status = workflow[w].status
      <4>1. wriReq[r].trigger \in Wri!Triggers /\ workflow[w].version + 1 \in Nat
        BY <3>1, <3>2 DEF WorkflowRow, WriRequest
      <4>2. QED
        BY <3>2, <4>1, RowChanges
    <3>4. workflow' = [workflow EXCEPT ![w].trigger = wriReq[r].trigger, ![w].version = @ + 1]
      BY <1>2, <2>1 DEF Wri!updateWorkflowDraft
    <3>5. \A v \in Workflows : workflow'[v] = IF v = w THEN q ELSE workflow[v]
      BY <1>0, <3>1, <3>2, <3>4, ZenonT(20)
    <3>6. WorkflowsTyped'
      BY <1>0, <3>1, <3>3, <3>4, <3>5 DEF WorkflowsTyped
    <3>7. QED
      BY <2>1, <3>3, <3>5, <3>6 DEF SameRevisions, Wri!StaysPublished
  <2>2. CASE workflow[w].status # "draft"
    BY <1>1, <1>2, <2>2 DEF Wri!updateWorkflowDraft
  <2>3. QED
    BY <2>1, <2>2
<1>3. ASSUME NEW r \in Slots, Wri!publishWorkflow(r)
      PROVE  SameRevisions /\ WorkflowsTyped' /\ Wri!StaysPublished
  <2> DEFINE w == wriReq[r].w
             q == [workflow[w] EXCEPT !.status = "published", !.version = wriReq[r].version + 1]
  <2>1. wriReq[r] \in WriRequest /\ w \in Workflows /\ workflow[w].status # "none"
    BY <1>0, <1>3 DEF WriReqsTyped, WriReqsKnow, Wri!publishWorkflow, Wri!Rows
  <2>2. workflow[w] \in WorkflowRow
    BY <1>0, <2>1
  <2>3. /\ q \in WorkflowRow /\ q.revision = workflow[w].revision
        /\ q.trigger = workflow[w].trigger /\ q.status = "published"
    <3>1. wriReq[r].version + 1 \in Nat
      BY <2>1 DEF WriRequest
    <3>2. "cron" \in Wri!Triggers
      BY DEF Wri!Triggers
    <3>3. QED
      BY <2>2, <3>1, <3>2, RowChanges
  <2>4. workflow' = [workflow EXCEPT ![w] = q]
    BY <1>0, <1>3, <2>1 DEF Wri!publishWorkflow
  <2> HIDE DEF q, w
  <2>5. \A v \in Workflows : workflow'[v] = IF v = w THEN q ELSE workflow[v]
    BY <1>0, <2>1, <2>4
  <2>6. WorkflowsTyped'
    BY <1>0, <2>1, <2>3, <2>4 DEF WorkflowsTyped
  <2>7. QED
    BY <2>1, <2>3, <2>5, <2>6 DEF SameRevisions, Wri!StaysPublished
<1>4. ASSUME NEW w \in Workflows, NEW t \in Wri!Triggers, Wri!createWorkflow(w, t)
      PROVE  \E v, q : AddsRevision(v, q)
  <2> DEFINE q == [revision |-> 1, status |-> "draft", trigger |-> t, version |-> 1]
  <2>1. q \in WorkflowRow /\ q.status = "draft" /\ q.revision = 1
    BY DEF WorkflowRow
  <2>2. workflow' = [workflow EXCEPT ![w] = q] /\ Wri!Rows = {}
    BY <1>4 DEF Wri!createWorkflow
  <2> HIDE DEF q
  <2>3. Revisions = 0
    BY <2>2, FS_EmptySet DEF Revisions
  <2>4. AddsRevision(w, q)
    BY <2>1, <2>2, <2>3 DEF AddsRevision
  <2>5. QED
    BY <2>4
<1>5. ASSUME NEW r \in Slots, NEW w \in Workflows, Wri!createWorkflowDraftFromWorkflow(r, w)
      PROVE  \/ SameRevisions /\ WorkflowsTyped' /\ Wri!StaysPublished
             \/ \E v, q : AddsRevision(v, q)
  <2> DEFINE q == [revision |-> wriReq[r].max + 1, status |-> "draft",
                   trigger |-> workflow[wriReq[r].w].trigger, version |-> 1]
  <2>1. CASE \E v \in Wri!Rows : workflow[v].revision = wriReq[r].max + 1
    BY <1>1, <1>5, <2>1 DEF Wri!createWorkflowDraftFromWorkflow
  <2>2. CASE ~\E v \in Wri!Rows : workflow[v].revision = wriReq[r].max + 1
    <3>1. /\ wriReq[r] \in WriRequest /\ wriReq[r].w \in Workflows
          /\ wriReq[r].max <= Revisions
      BY <1>0, <1>5
      DEF WriReqsTyped, WriReqsKnow, Wri!createWorkflowDraftFromWorkflow, Wri!Rows
    <3>2. wriReq[r].max \in Nat /\ Revisions \in Nat
      BY <3>1, RowsAreFinite DEF WriRequest
    <3>3. wriReq[r].max = Revisions
      BY <1>0, <2>2, <3>1, <3>2 DEF RevisionsNumbered
    <3>4. workflow[wriReq[r].w] \in WorkflowRow
      BY <1>0, <3>1
    <3>5. q \in WorkflowRow /\ q.status = "draft" /\ q.revision = Revisions + 1
      BY <3>2, <3>3, <3>4 DEF WorkflowRow
    <3>6. workflow' = [workflow EXCEPT ![w] = q] /\ w \notin Wri!Rows
      BY <1>5, <2>2 DEF Wri!createWorkflowDraftFromWorkflow
    <3> HIDE DEF q
    <3>7. AddsRevision(w, q)
      BY <3>5, <3>6 DEF AddsRevision
    <3>8. QED
      BY <3>7
  <2>3. QED
    BY <2>1, <2>2
<1>6. \/ UNCHANGED workflow
      \/ \E r \in Slots : Wri!updateWorkflowDraft(r) \/ Wri!publishWorkflow(r)
      \/ \E r \in Slots, w \in Workflows : Wri!createWorkflowDraftFromWorkflow(r, w)
      \/ \E w \in Workflows, t \in Wri!Triggers : Wri!createWorkflow(w, t)
  BY DEF Wri!Next, Wri!readDraft, Wri!publishRead, Wri!readPublished,
     Wri!replaceWorkflowTriggerSubscriptions, Wri!selectMaxRevision, Wri!retrySelect,
     Wri!RequestFails, Wri!updateWorkflowTriggerSubscriptionEnabled,
     Wri!getWorkflowTriggerSubscriptionByWebhookTokenHash, Wri!webhookWorkflow,
     Wri!createWebhookRun, Wri!enqueueWebhookRun, Wri!webhookQueueFails, Wri!workerBegins,
     Wri!undoWebhookRun
<1>7. QED
  BY <1>1, <1>2, <1>3, <1>4, <1>5, <1>6

(* Every step keeps the numbers without a gap and unique, the rows that are   *)
(* there, and what is published.                                             *)
LEMMA NextRevisions ==
  ASSUME WorkflowsInv, Wri!Next
  PROVE  /\ WorkflowsTyped' /\ RevisionsNumbered' /\ Wri!RevisionsDiffer'
         /\ Wri!Rows \subseteq Wri!Rows' /\ Revisions <= Revisions' /\ Revisions' \in Nat
         /\ Wri!StaysPublished
<1>0. /\ WorkflowsTyped /\ RevisionsNumbered /\ Wri!RevisionsDiffer
      /\ workflow \in [Workflows -> WorkflowRow]
      /\ IsFiniteSet(Wri!Rows) /\ Revisions \in Nat
  BY RowsAreFinite DEF WorkflowsInv, WorkflowsTyped
<1>1. CASE SameRevisions /\ WorkflowsTyped' /\ Wri!StaysPublished
  BY <1>0, <1>1, RevisionsStay
<1>2. ASSUME NEW w, NEW q, AddsRevision(w, q)
      PROVE  /\ WorkflowsTyped' /\ RevisionsNumbered' /\ Wri!RevisionsDiffer'
             /\ Wri!Rows \subseteq Wri!Rows' /\ Revisions <= Revisions' /\ Revisions' \in Nat
             /\ Wri!StaysPublished
  <2>1. \A v \in Workflows : workflow'[v] = IF v = w THEN q ELSE workflow[v]
    BY <1>0, <1>2 DEF AddsRevision
  <2>2. WorkflowsTyped'
    BY <1>0, <1>2 DEF AddsRevision, WorkflowsTyped
  <2>3. Wri!Rows' = Wri!Rows \cup {w} /\ w \notin Wri!Rows
    BY <1>2, <2>1 DEF AddsRevision, Wri!Rows
  <2>4. Revisions' = Revisions + 1
    BY <1>0, <2>3, FS_AddElement DEF Revisions
  <2>5. \A v \in Wri!Rows : workflow'[v].revision = workflow[v].revision
    BY <2>1, <2>3 DEF Wri!Rows
  <2>6. workflow'[w].revision = Revisions + 1
    BY <1>2, <2>1 DEF AddsRevision
  <2>7. RevisionsNumbered'
    <3>1. \A v \in Wri!Rows' : workflow'[v].revision \in 1..(Revisions + 1)
      BY <1>0, <2>3, <2>5, <2>6 DEF RevisionsNumbered
    <3>2. ASSUME NEW n \in 1..(Revisions + 1)
          PROVE  \E v \in Wri!Rows' : workflow'[v].revision = n
      <4>1. CASE n = Revisions + 1
        BY <2>3, <2>6, <4>1
      <4>2. CASE n # Revisions + 1
        <5>1. n \in 1..Revisions
          BY <1>0, <4>2
        <5>2. PICK v \in Wri!Rows : workflow[v].revision = n
          BY <1>0, <5>1 DEF RevisionsNumbered
        <5>3. QED
          BY <2>3, <2>5, <5>2
      <4>3. QED
        BY <4>1, <4>2
    <3>3. QED
      BY <2>4, <3>1, <3>2 DEF RevisionsNumbered
  <2>8. Wri!RevisionsDiffer'
    <3>1. \A v \in Wri!Rows : workflow'[v].revision # Revisions + 1
      BY <1>0, <2>5 DEF RevisionsNumbered
    <3>2. QED
      BY <1>0, <2>3, <2>5, <2>6, <3>1 DEF Wri!RevisionsDiffer
  <2>9. Wri!StaysPublished
    BY <2>1, <2>3 DEF Wri!StaysPublished, Wri!Rows
  <2>10. QED
    BY <1>0, <2>2, <2>3, <2>4, <2>7, <2>8, <2>9
<1>3. QED
  BY <1>1, <1>2, RevisionSteps

(* What a request knows stays true after any step, its own or not.           *)
Knows(q) ==
    /\ q.pc # "idle" => q.w \in Wri!Rows
    /\ q.pc = "insert" => q.max <= Revisions
    /\ q.pc = "sync" => workflow[q.w].status = "published" /\ q.trigger = workflow[q.w].trigger
WillKnow(q) ==
    /\ q.pc # "idle" => q.w \in Wri!Rows'
    /\ q.pc = "insert" => q.max <= Revisions'
    /\ q.pc = "sync" => workflow'[q.w].status = "published" /\ q.trigger = workflow'[q.w].trigger
Moves(r, q) == q \in WriRequest /\ WillKnow(q) /\ wriReq' = [wriReq EXCEPT ![r] = q]

LEMMA NextKnown ==
  ASSUME WorkflowsInv, Wri!Next
  PROVE  \A q \in WriRequest : Knows(q) => WillKnow(q)
<1> TAKE q \in WriRequest
<1> HAVE Knows(q)
<1>1. /\ Wri!Rows \subseteq Wri!Rows' /\ Revisions <= Revisions' /\ Revisions' \in Nat
      /\ Wri!StaysPublished
  BY NextRevisions
<1>2. Revisions \in Nat /\ q.max \in Nat
  BY RowsAreFinite DEF WriRequest
<1>3. q.pc = "sync" => q.w \in Workflows
  BY DEF Knows, Wri!Rows
<1>4. QED
  BY <1>1, <1>2, <1>3 DEF Knows, WillKnow, Wri!StaysPublished

(* A request that ends knows nothing any more.                               *)
LEMMA EndedKnowNothing ==
  ASSUME NEW r \in Slots,
         NEW result \in {"updated", "conflict", "published", "created", "aborted", "failed"},
         Wri!End(r, result)
  PROVE  \E q : Moves(r, q)
<1> DEFINE q == [Wri!Idle EXCEPT !.result = result]
<1>1. wriReq' = [wriReq EXCEPT ![r] = q]
  BY DEF Wri!End
<1>2. q \in WriRequest /\ q.pc = "idle"
  BY DEF Wri!Idle, WriRequest, Wri!Triggers
<1> HIDE DEF q
<1>3. Moves(r, q)
  BY <1>1, <1>2 DEF Moves, WillKnow
<1>4. QED
  BY <1>3

LEMMA WriReqSteps ==
  ASSUME WorkflowsInv, Wri!Next
  PROVE  UNCHANGED wriReq \/ \E r \in Slots, q \in WriRequest : Moves(r, q)
<1>0. /\ WorkflowsTyped /\ WriReqsTyped /\ WriReqsKnow /\ RevisionsNumbered
      /\ wriReq \in [Slots -> WriRequest] /\ workflow \in [Workflows -> WorkflowRow]
  BY DEF WorkflowsInv, WriReqsTyped, WorkflowsTyped
<1>1. \A q \in WriRequest : Knows(q) => WillKnow(q)
  BY NextKnown
<1>2. ASSUME NEW r \in Slots,
             NEW result \in {"updated", "conflict", "published", "created", "aborted", "failed"},
             Wri!End(r, result)
      PROVE  \E q \in WriRequest : Moves(r, q)
  BY <1>2, EndedKnowNothing DEF Moves
<1>3. ASSUME NEW r \in Slots, NEW w \in Workflows, NEW t \in Wri!Triggers, Wri!readDraft(r, w, t)
      PROVE  \E q \in WriRequest : Moves(r, q)
  <2> DEFINE q == [Wri!Idle EXCEPT !.pc = "update", !.w = w, !.trigger = t]
  <2>1. wriReq' = [wriReq EXCEPT ![r] = q] /\ w \in Wri!Rows
    BY <1>3 DEF Wri!readDraft, Wri!Begin, Wri!Rows
  <2>2. q \in WriRequest /\ q.pc = "update" /\ q.w = w
    BY DEF Wri!Idle, WriRequest, Wri!Triggers
  <2> HIDE DEF q
  <2>3. QED
    BY <1>1, <2>1, <2>2 DEF Knows, Moves
<1>4. ASSUME NEW r \in Slots, NEW w \in Workflows, Wri!publishRead(r, w)
      PROVE  \E q \in WriRequest : Moves(r, q)
  <2> DEFINE q == [Wri!Idle EXCEPT !.pc = "publish", !.w = w, !.version = workflow[w].version]
  <2>1. wriReq' = [wriReq EXCEPT ![r] = q] /\ w \in Wri!Rows
    BY <1>4 DEF Wri!publishRead, Wri!Begin
  <2>2. workflow[w].version \in Nat
    BY <1>0 DEF WorkflowRow
  <2>3. q \in WriRequest /\ q.pc = "publish" /\ q.w = w
    BY <2>2 DEF Wri!Idle, WriRequest, Wri!Triggers
  <2> HIDE DEF q
  <2>4. QED
    BY <1>1, <2>1, <2>3 DEF Knows, Moves
<1>5. ASSUME NEW r \in Slots, NEW w \in Workflows, Wri!readPublished(r, w)
      PROVE  \E q \in WriRequest : Moves(r, q)
  <2> DEFINE q == [Wri!Idle EXCEPT !.pc = "max", !.w = w]
  <2>1. wriReq' = [wriReq EXCEPT ![r] = q] /\ w \in Wri!Rows
    BY <1>5 DEF Wri!readPublished, Wri!Begin, Wri!Rows
  <2>2. q \in WriRequest /\ q.pc = "max" /\ q.w = w
    BY DEF Wri!Idle, WriRequest, Wri!Triggers
  <2> HIDE DEF q
  <2>3. QED
    BY <1>1, <2>1, <2>2 DEF Knows, Moves
<1>6. ASSUME NEW r \in Slots, Wri!publishWorkflow(r)
      PROVE  \E q \in WriRequest : Moves(r, q)
  <2> DEFINE t == workflow[wriReq[r].w].trigger
             q == [wriReq[r] EXCEPT !.pc = "sync", !.trigger = t]
  <2>1. /\ wriReq[r] \in WriRequest /\ wriReq[r].w \in Wri!Rows /\ wriReq[r].w \in Workflows
    BY <1>0, <1>6 DEF WriReqsKnow, Wri!publishWorkflow, Wri!Rows
  <2>2. t \in Wri!Triggers
    BY <1>0, <2>1 DEF WorkflowRow
  <2>3. /\ wriReq' = [wriReq EXCEPT ![r] = q]
        /\ workflow'[wriReq[r].w].status = "published" /\ workflow'[wriReq[r].w].trigger = t
    BY <1>0, <1>6, <2>1 DEF Wri!publishWorkflow, Wri!Go, WorkflowRow
  <2>4. wriReq[r].w \in Wri!Rows'
    BY <2>1, NextRevisions
  <2> HIDE DEF t
  <2>5. q \in WriRequest /\ q.pc = "sync" /\ q.w = wriReq[r].w /\ q.trigger = t
    BY <2>1, <2>2 DEF WriRequest
  <2> HIDE DEF q
  <2>6. QED
    BY <2>3, <2>4, <2>5 DEF WillKnow, Moves
<1>7. ASSUME NEW r \in Slots, Wri!selectMaxRevision(r)
      PROVE  \E q \in WriRequest : Moves(r, q)
  <2> DEFINE q == [wriReq[r] EXCEPT !.pc = "insert", !.max = Wri!MaxRevision]
  <2>1. wriReq[r] \in WriRequest /\ wriReq[r].w \in Wri!Rows
    BY <1>0, <1>7 DEF WriReqsKnow, Wri!selectMaxRevision
  <2>2. Wri!MaxRevision = Revisions /\ Revisions \in Nat
    BY <1>0, MaxRevisionIsLast, RowsAreFinite
  <2>3. wriReq' = [wriReq EXCEPT ![r] = q]
    BY <1>7 DEF Wri!selectMaxRevision, Wri!Go
  <2>4. q \in WriRequest /\ q.pc = "insert" /\ q.w = wriReq[r].w /\ q.max = Revisions
    BY <2>1, <2>2 DEF WriRequest
  <2> HIDE DEF q
  <2>5. Knows(q)
    BY <2>1, <2>2, <2>4 DEF Knows
  <2>6. QED
    BY <1>1, <2>3, <2>4, <2>5 DEF Moves
<1>8. ASSUME NEW r \in Slots, NEW w \in Workflows, Wri!createWorkflowDraftFromWorkflow(r, w)
      PROVE  \E q \in WriRequest : Moves(r, q)
  <2> DEFINE q == [wriReq[r] EXCEPT !.pc = "retry"]
  <2>1. wriReq[r] \in WriRequest /\ wriReq[r].w \in Wri!Rows
    BY <1>0, <1>8 DEF WriReqsKnow, Wri!createWorkflowDraftFromWorkflow
  <2>2. CASE wriReq' = [wriReq EXCEPT ![r] = q]
    <3>1. q \in WriRequest /\ q.pc = "retry" /\ q.w = wriReq[r].w
      BY <2>1 DEF WriRequest
    <3> HIDE DEF q
    <3>2. QED
      BY <1>1, <2>1, <2>2, <3>1 DEF Knows, Moves
  <2>3. CASE Wri!End(r, "created")
    BY <1>2, <2>3
  <2>4. QED
    BY <1>8, <2>2, <2>3 DEF Wri!createWorkflowDraftFromWorkflow, Wri!Go
<1>9. ASSUME NEW r \in Slots,
             \/ Wri!updateWorkflowDraft(r) \/ Wri!replaceWorkflowTriggerSubscriptions(r)
             \/ Wri!retrySelect(r) \/ Wri!RequestFails(r)
      PROVE  \E q \in WriRequest : Moves(r, q)
  <2>1. \/ Wri!End(r, "updated") \/ Wri!End(r, "conflict") \/ Wri!End(r, "published")
        \/ Wri!End(r, "aborted") \/ Wri!End(r, "failed")
    BY <1>9 DEF Wri!updateWorkflowDraft, Wri!replaceWorkflowTriggerSubscriptions,
       Wri!retrySelect, Wri!RequestFails
  <2>2. QED
    BY <1>2, <2>1
<1>10. \/ UNCHANGED wriReq
       \/ \E r \in Slots, w \in Workflows :
             \/ \E t \in Wri!Triggers : Wri!readDraft(r, w, t)
             \/ Wri!publishRead(r, w) \/ Wri!readPublished(r, w)
             \/ Wri!createWorkflowDraftFromWorkflow(r, w)
       \/ \E r \in Slots :
             \/ Wri!updateWorkflowDraft(r) \/ Wri!publishWorkflow(r)
             \/ Wri!replaceWorkflowTriggerSubscriptions(r) \/ Wri!selectMaxRevision(r)
             \/ Wri!retrySelect(r) \/ Wri!RequestFails(r)
  BY DEF Wri!Next, Wri!createWorkflow, Wri!updateWorkflowTriggerSubscriptionEnabled,
     Wri!getWorkflowTriggerSubscriptionByWebhookTokenHash, Wri!webhookWorkflow,
     Wri!createWebhookRun, Wri!enqueueWebhookRun, Wri!webhookQueueFails, Wri!workerBegins,
     Wri!undoWebhookRun
<1>11. QED
  BY <1>3, <1>4, <1>5, <1>6, <1>7, <1>8, <1>9, <1>10

LEMMA NextWriReqs ==
  ASSUME WorkflowsInv, Wri!Next
  PROVE  WriReqsTyped' /\ WriReqsKnow'
<1>0. WriReqsTyped /\ WriReqsKnow /\ wriReq \in [Slots -> WriRequest]
  BY DEF WorkflowsInv, WriReqsTyped
<1>1. \A p \in Slots : WillKnow(wriReq[p])
  BY <1>0, NextKnown DEF WriReqsKnow, Knows
<1>2. WriReqsTyped' /\ \A p \in Slots : WillKnow(wriReq'[p])
  <2>1. CASE UNCHANGED wriReq
    BY <1>0, <1>1, <2>1 DEF WriReqsTyped
  <2>2. ASSUME NEW r \in Slots, NEW q \in WriRequest, Moves(r, q)
        PROVE  WriReqsTyped' /\ \A p \in Slots : WillKnow(wriReq'[p])
    <3>1. WriReqsTyped' /\ \A p \in Slots : wriReq'[p] = IF p = r THEN q ELSE wriReq[p]
      BY <1>0, <2>2, WriReqMoves DEF Moves
    <3>2. QED
      BY <1>1, <2>2, <3>1 DEF Moves
  <2>3. QED
    BY <2>1, <2>2, WriReqSteps
<1>3. QED
  BY <1>2 DEF WillKnow, WriReqsKnow

(* The subscriptions after a step are those of their workflows' dsls, and an   *)
(* id that is new is beyond all that were drawn, and of one row.             *)
NewIds ==
    /\ lastId' \in Nat /\ lastId <= lastId'
    /\ \A x \in subs' : \/ \E y \in subs : y.id = x.id /\ y.w = x.w
                        \/ x.id \in (lastId + 1)..lastId'
    /\ \A x, y \in subs' : x.id > lastId /\ y.id > lastId => x.w = y.w

LEMMA NextSubs ==
  ASSUME WorkflowsInv, Wri!Next
  PROVE  SubsTyped' /\ Wri!SubscriptionsFollowDsl' /\ NewIds
<1>0. /\ SubsTyped /\ Wri!SubscriptionsFollowDsl /\ WriReqsKnow /\ WriReqsTyped
      /\ lastId \in Nat /\ subs \subseteq Subscription
      /\ \A x \in subs : x.id \in 1..lastId
  BY DEF WorkflowsInv, SubsTyped, IdsServeOne, HeldFor
<1>1. \A x \in subs : /\ x.id \in Nat /\ x.w \in Workflows /\ x.type \in Wri!Triggers
                      /\ x.id <= lastId
  BY <1>0 DEF Subscription
<1>2. CASE UNCHANGED <<subs, lastId>>
  <2>1. Wri!SubscriptionsFollowDsl'
    BY <1>0, <1>1, <1>2, NextRevisions DEF Wri!SubscriptionsFollowDsl, Wri!StaysPublished
  <2>2. SubsTyped' /\ NewIds
    BY <1>0, <1>1, <1>2 DEF SubsTyped, NewIds
  <2>3. QED
    BY <2>1, <2>2
<1>3. ASSUME NEW r \in Slots, Wri!replaceWorkflowTriggerSubscriptions(r)
      PROVE  SubsTyped' /\ Wri!SubscriptionsFollowDsl' /\ NewIds
  <2> DEFINE w == wriReq[r].w
             t == wriReq[r].trigger
             specs == Wri!deriveTriggerSubscriptionsFromDsl(t)
             new == [id |-> lastId + 1, w |-> w, type |-> t, enabled |-> TRUE]
  <2>1. CASE UNCHANGED <<subs, lastId>>
    BY <1>2, <2>1
  <2>2. CASE ~UNCHANGED <<subs, lastId>>
    <3>1. /\ wriReq[r] \in WriRequest /\ w \in Workflows /\ t \in Wri!Triggers
          /\ workflow[w].status = "published" /\ t = workflow[w].trigger
      BY <1>0, <1>3
      DEF WriReqsTyped, WriReqsKnow, WriRequest, Wri!replaceWorkflowTriggerSubscriptions, Wri!Rows
    <3>2. /\ workflow' = workflow /\ lastId' = lastId + Wri!Cardinality(specs)
          /\ subs' = Wri!Others(w) \cup
                {[id |-> lastId + 1, w |-> w, type |-> s, enabled |-> TRUE] : s \in specs}
      BY <1>3, <2>2 DEF Wri!replaceWorkflowTriggerSubscriptions
    <3>3. Wri!Cardinality(specs) = Cardinality(specs)
      BY DEF Wri!Cardinality, Cardinality
    <3>4. CASE t = "manual"
      <4>1. specs = {}
        BY <3>4 DEF Wri!deriveTriggerSubscriptionsFromDsl
      <4> HIDE DEF specs
      <4>2. Cardinality(specs) = 0
        BY <4>1, FS_EmptySet
      <4>3. lastId' = lastId /\ subs' \subseteq subs
        BY <1>0, <3>2, <3>3, <4>1, <4>2 DEF Wri!Others
      <4>4. SubsTyped' /\ NewIds
        BY <1>0, <1>1, <4>3 DEF SubsTyped, NewIds
      <4>5. Wri!SubscriptionsFollowDsl'
        BY <1>0, <3>2, <4>3 DEF Wri!SubscriptionsFollowDsl
      <4>6. QED
        BY <4>4, <4>5
    <3>5. CASE t # "manual"
      <4>1. specs = {t}
        BY <3>5 DEF Wri!deriveTriggerSubscriptionsFromDsl
      <4> HIDE DEF specs
      <4>2. Cardinality(specs) = 1
        BY <4>1, FS_Singleton
      <4>3. lastId' = lastId + 1 /\ subs' = Wri!Others(w) \cup {new}
        BY <3>2, <3>3, <4>1, <4>2
      <4>4. /\ new \in Subscription /\ new.id = lastId + 1 /\ new.w = w /\ new.type = t
        BY <1>0, <3>1 DEF Subscription
      <4> HIDE DEF new, w, t
      <4>5. \A x \in subs' : x = new \/ (x \in subs /\ x.w # w)
        BY <4>3 DEF Wri!Others
      <4>6. SubsTyped' /\ NewIds
        <5>1. SubsTyped'
          BY <1>0, <4>3, <4>4, <4>5 DEF SubsTyped
        <5>2. \A x \in subs' : x.id > lastId => x = new
          BY <1>0, <1>1, <4>5
        <5>3. QED
          BY <1>0, <4>3, <4>4, <4>5, <5>1, <5>2 DEF NewIds
      <4>7. Wri!SubscriptionsFollowDsl'
        BY <1>0, <3>1, <3>2, <4>4, <4>5 DEF Wri!SubscriptionsFollowDsl
      <4>8. QED
        BY <4>6, <4>7
    <3>6. QED
      BY <3>4, <3>5
  <2>3. QED
    BY <2>1, <2>2
<1>4. ASSUME NEW x \in subs, Wri!updateWorkflowTriggerSubscriptionEnabled(x)
      PROVE  SubsTyped' /\ Wri!SubscriptionsFollowDsl' /\ NewIds
  <2> DEFINE new == [x EXCEPT !.enabled = ~@]
  <2>1. /\ subs' = (subs \ {x}) \cup {new} /\ workflow' = workflow /\ lastId' = lastId
    BY <1>4 DEF Wri!updateWorkflowTriggerSubscriptionEnabled
  <2>2. x \in Subscription
    BY <1>0
  <2>3. new \in Subscription /\ new.id = x.id /\ new.w = x.w /\ new.type = x.type
    BY <2>2 DEF Subscription
  <2> HIDE DEF new
  <2>4. SubsTyped' /\ NewIds
    BY <1>0, <1>1, <2>1, <2>3 DEF SubsTyped, NewIds
  <2>5. Wri!SubscriptionsFollowDsl'
    BY <1>0, <2>1, <2>3 DEF Wri!SubscriptionsFollowDsl
  <2>6. QED
    BY <2>4, <2>5
<1>5. \/ UNCHANGED <<subs, lastId>>
      \/ \E r \in Slots : Wri!replaceWorkflowTriggerSubscriptions(r)
      \/ \E x \in subs : Wri!updateWorkflowTriggerSubscriptionEnabled(x)
  BY DEF Wri!Next, Wri!readDraft, Wri!publishRead, Wri!readPublished,
     Wri!createWorkflowDraftFromWorkflow, Wri!updateWorkflowDraft, Wri!publishWorkflow,
     Wri!selectMaxRevision, Wri!retrySelect, Wri!RequestFails, Wri!createWorkflow,
     Wri!getWorkflowTriggerSubscriptionByWebhookTokenHash, Wri!webhookWorkflow,
     Wri!createWebhookRun, Wri!enqueueWebhookRun, Wri!webhookQueueFails, Wri!workerBegins,
     Wri!undoWebhookRun
<1>6. QED
  BY <1>2, <1>3, <1>4, <1>5

(* What a step of a webhook call does: it holds the id and the workflow of a   *)
(* subscription or those it held, and at most one run comes or goes.         *)
DeliverySteps(d) ==
    \E c \in Delivery :
        /\ delivery' = [delivery EXCEPT ![d] = c]
        /\ c.pc # "idle" /\ UNCHANGED <<subs, lastId>>
        /\ \/ c.sub = 0 /\ c.pc = "refused"
           \/ c.sub = delivery[d].sub /\ c.w = delivery[d].w /\ delivery[d].pc # "idle"
           \/ \E x \in subs : c.sub = x.id /\ c.w = x.w
        /\ c.pc \in {"workflow", "create", "enqueue"} => c.w \in Workflows /\ c.sub # 0
        /\ \/ /\ delivery[d].pc \in {"idle", "workflow", "create"}
              /\ UNCHANGED webhookRuns
           \/ /\ delivery[d].pc = "create" /\ c.pc = "enqueue"
              /\ c.sub = delivery[d].sub /\ c.w = delivery[d].w
              /\ ~\E x \in webhookRuns : x.sub = c.sub /\ x.w = c.w
              /\ webhookRuns' = webhookRuns \cup {[sub |-> c.sub, w |-> c.w, by |-> d]}
           \/ /\ delivery[d].pc = "enqueue" /\ c.pc = "accepted" /\ UNCHANGED webhookRuns
              /\ d \in webhookJobs'
           \/ delivery[d].pc = "enqueue" /\ c.pc = "undo" /\ UNCHANGED webhookRuns
           \/ /\ delivery[d].pc = "undo" /\ c.pc = "unavailable"
              /\ webhookRuns' = {x \in webhookRuns : x.by # d \/ d \in webhookBegun}

(* A job stays in the books, and only one that is there is begun.            *)
JobsGrow ==
    /\ webhookJobs \subseteq webhookJobs' /\ webhookBegun \subseteq webhookBegun'
    /\ webhookBegun' \subseteq webhookJobs'

LEMMA JobsStep ==
  ASSUME WorkflowsInv, Wri!Next
  PROVE  JobsGrow
<1>0. webhookBegun \subseteq webhookJobs
  BY DEF WorkflowsInv, RunsAreQueued
<1>1. ASSUME NEW d \in Deliveries,
             \/ Wri!enqueueWebhookRun(d) \/ Wri!webhookQueueFails(d) \/ Wri!workerBegins(d)
      PROVE  JobsGrow
  BY <1>0, <1>1 DEF JobsGrow, Wri!enqueueWebhookRun, Wri!webhookQueueFails, Wri!workerBegins
<1>2. \/ UNCHANGED <<webhookJobs, webhookBegun>>
      \/ \E d \in Deliveries :
            Wri!enqueueWebhookRun(d) \/ Wri!webhookQueueFails(d) \/ Wri!workerBegins(d)
  BY DEF Wri!Next, Wri!queueVars, Wri!readDraft, Wri!publishRead, Wri!readPublished,
     Wri!createWorkflowDraftFromWorkflow, Wri!updateWorkflowDraft, Wri!publishWorkflow,
     Wri!replaceWorkflowTriggerSubscriptions, Wri!updateWorkflowTriggerSubscriptionEnabled,
     Wri!selectMaxRevision, Wri!retrySelect, Wri!RequestFails, Wri!createWorkflow,
     Wri!getWorkflowTriggerSubscriptionByWebhookTokenHash, Wri!webhookWorkflow,
     Wri!createWebhookRun, Wri!undoWebhookRun
<1>3. QED
  BY <1>0, <1>1, <1>2 DEF JobsGrow

LEMMA DeliveriesStep ==
  ASSUME WorkflowsInv, Wri!Next
  PROVE  UNCHANGED <<delivery, webhookRuns>> \/ \E d \in Deliveries : DeliverySteps(d)
<1>0. /\ DeliveriesTyped /\ SubsTyped /\ delivery \in [Deliveries -> Delivery]
      /\ \A x \in subs : x.id \in 1..lastId /\ x.id \in Nat /\ x.w \in Workflows
      /\ lastId \in Nat
  BY DEF WorkflowsInv, DeliveriesTyped, SubsTyped, IdsServeOne, HeldFor, Subscription
<1>1. ASSUME NEW d \in Deliveries, Wri!getWorkflowTriggerSubscriptionByWebhookTokenHash(d)
      PROVE  DeliverySteps(d)
  <2>1. CASE \E x \in subs : x.type = "webhook" /\ x.enabled
    <3> DEFINE x == CHOOSE y \in subs : y.type = "webhook"
               c == [pc |-> "workflow", sub |-> x.id, w |-> x.w]
    <3>1. x \in subs
      BY <2>1
    <3>2. delivery' = [delivery EXCEPT ![d] = c]
      BY <1>1, <2>1 DEF Wri!getWorkflowTriggerSubscriptionByWebhookTokenHash
    <3>3. c \in Delivery /\ c.pc = "workflow" /\ c.sub = x.id /\ c.w = x.w
      BY <1>0, <3>1 DEF Delivery
    <3>4. c.w \in Workflows /\ c.sub # 0
      BY <1>0, <3>1, <3>3
    <3> HIDE DEF x, c
    <3>5. QED
      BY <1>1, <3>1, <3>2, <3>3, <3>4
      DEF DeliverySteps, Wri!getWorkflowTriggerSubscriptionByWebhookTokenHash
  <2>2. CASE ~\E x \in subs : x.type = "webhook" /\ x.enabled
    <3> DEFINE c == [Wri!NoDelivery EXCEPT !.pc = "refused"]
    <3>1. delivery' = [delivery EXCEPT ![d] = c]
      BY <1>1, <2>2 DEF Wri!getWorkflowTriggerSubscriptionByWebhookTokenHash
    <3>2. c \in Delivery /\ c.pc = "refused" /\ c.sub = 0
      BY DEF Delivery, Wri!NoDelivery
    <3> HIDE DEF c
    <3>3. QED
      BY <1>1, <3>1, <3>2
      DEF DeliverySteps, Wri!getWorkflowTriggerSubscriptionByWebhookTokenHash
  <2>3. QED
    BY <2>1, <2>2
<1>2. ASSUME NEW d \in Deliveries, NEW pc \in {"create", "refused", "duplicate", "enqueue",
                                              "accepted", "undo", "unavailable"}
      PROVE  LET c == [delivery[d] EXCEPT !.pc = pc]
             IN  c \in Delivery /\ c.pc = pc /\ c.sub = delivery[d].sub /\ c.w = delivery[d].w
  <2>1. delivery[d] \in Delivery
    BY <1>0
  <2>2. QED
    BY <2>1 DEF Delivery
<1>3. ASSUME NEW d \in Deliveries, Wri!webhookWorkflow(d)
      PROVE  DeliverySteps(d)
  <2>1. PICK pc \in {"create", "refused"} : delivery' = [delivery EXCEPT ![d].pc = pc]
    BY <1>3 DEF Wri!webhookWorkflow
  <2> DEFINE c == [delivery[d] EXCEPT !.pc = pc]
  <2>2. c \in Delivery /\ c.pc = pc /\ c.sub = delivery[d].sub /\ c.w = delivery[d].w
    <3>1. delivery[d] \in Delivery
      BY <1>0
    <3>2. QED
      BY <3>1 DEF Delivery
  <2>3. delivery' = [delivery EXCEPT ![d] = c]
    BY <1>0, <2>1
  <2> HIDE DEF c
  <2>4. QED
    BY <1>0, <1>3, <2>2, <2>3 DEF DeliverySteps, Wri!webhookWorkflow, DeliveriesTyped
<1>4. ASSUME NEW d \in Deliveries, Wri!createWebhookRun(d)
      PROVE  DeliverySteps(d)
  <2>1. delivery[d].w \in Workflows /\ delivery[d].sub # 0
    BY <1>0, <1>4 DEF Wri!createWebhookRun, DeliveriesTyped
  <2>2. CASE \E x \in webhookRuns : x.sub = delivery[d].sub /\ x.w = delivery[d].w
    <3> DEFINE c == [delivery[d] EXCEPT !.pc = "duplicate"]
    <3>1. c \in Delivery /\ c.pc = "duplicate" /\ c.sub = delivery[d].sub /\ c.w = delivery[d].w
      BY <1>2
    <3>2. delivery' = [delivery EXCEPT ![d] = c]
      BY <1>0, <1>4, <2>2 DEF Wri!createWebhookRun
    <3> HIDE DEF c
    <3>3. QED
      BY <1>4, <2>1, <2>2, <3>1, <3>2 DEF DeliverySteps, Wri!createWebhookRun
  <2>3. CASE ~\E x \in webhookRuns : x.sub = delivery[d].sub /\ x.w = delivery[d].w
    <3> DEFINE c == [delivery[d] EXCEPT !.pc = "enqueue"]
    <3>1. c \in Delivery /\ c.pc = "enqueue" /\ c.sub = delivery[d].sub /\ c.w = delivery[d].w
      BY <1>2
    <3>2. delivery' = [delivery EXCEPT ![d] = c]
      BY <1>0, <1>4, <2>3 DEF Wri!createWebhookRun
    <3> HIDE DEF c
    <3>3. QED
      BY <1>4, <2>1, <2>3, <3>1, <3>2 DEF DeliverySteps, Wri!createWebhookRun
  <2>4. QED
    BY <2>2, <2>3
<1>5. ASSUME NEW d \in Deliveries, Wri!enqueueWebhookRun(d)
      PROVE  DeliverySteps(d)
  <2> DEFINE c == [delivery[d] EXCEPT !.pc = "accepted"]
  <2>1. c \in Delivery /\ c.pc = "accepted" /\ c.sub = delivery[d].sub /\ c.w = delivery[d].w
    BY <1>2
  <2>2. delivery' = [delivery EXCEPT ![d] = c]
    BY <1>0, <1>5 DEF Wri!enqueueWebhookRun
  <2> HIDE DEF c
  <2>3. QED
    BY <1>5, <2>1, <2>2 DEF DeliverySteps, Wri!enqueueWebhookRun
<1>6. ASSUME NEW d \in Deliveries, Wri!webhookQueueFails(d)
      PROVE  DeliverySteps(d)
  <2> DEFINE c == [delivery[d] EXCEPT !.pc = "undo"]
  <2>1. c \in Delivery /\ c.pc = "undo" /\ c.sub = delivery[d].sub /\ c.w = delivery[d].w
    BY <1>2
  <2>2. delivery' = [delivery EXCEPT ![d] = c]
    BY <1>0, <1>6 DEF Wri!webhookQueueFails
  <2> HIDE DEF c
  <2>3. QED
    BY <1>6, <2>1, <2>2 DEF DeliverySteps, Wri!webhookQueueFails
<1>7. ASSUME NEW d \in Deliveries, Wri!undoWebhookRun(d)
      PROVE  DeliverySteps(d)
  <2> DEFINE c == [delivery[d] EXCEPT !.pc = "unavailable"]
  <2>1. c \in Delivery /\ c.pc = "unavailable" /\ c.sub = delivery[d].sub /\ c.w = delivery[d].w
    BY <1>2
  <2>2. delivery' = [delivery EXCEPT ![d] = c]
    BY <1>0, <1>7 DEF Wri!undoWebhookRun
  <2> HIDE DEF c
  <2>3. QED
    BY <1>7, <2>1, <2>2 DEF DeliverySteps, Wri!undoWebhookRun, Wri!deleteQueuedWorkflowRun
<1>8. \/ UNCHANGED <<delivery, webhookRuns>>
      \/ \E d \in Deliveries :
            \/ Wri!getWorkflowTriggerSubscriptionByWebhookTokenHash(d) \/ Wri!webhookWorkflow(d)
            \/ Wri!createWebhookRun(d) \/ Wri!enqueueWebhookRun(d) \/ Wri!webhookQueueFails(d)
            \/ Wri!undoWebhookRun(d)
  BY DEF Wri!Next, Wri!readDraft, Wri!publishRead, Wri!readPublished,
     Wri!createWorkflowDraftFromWorkflow, Wri!updateWorkflowDraft, Wri!publishWorkflow,
     Wri!replaceWorkflowTriggerSubscriptions, Wri!updateWorkflowTriggerSubscriptionEnabled,
     Wri!selectMaxRevision, Wri!retrySelect, Wri!RequestFails, Wri!createWorkflow, Wri!workerBegins
<1>9. QED
  BY <1>1, <1>3, <1>4, <1>5, <1>6, <1>7, <1>8

LEMMA NextDeliveries ==
  ASSUME WorkflowsInv, Wri!Next
  PROVE  DeliveriesTyped' /\ RunsAreQueued' /\ IdsServeOne' /\ Wri!WebhookRunsOnce'
<1>0. /\ DeliveriesTyped /\ RunsAreQueued /\ IdsServeOne /\ Wri!WebhookRunsOnce
      /\ delivery \in [Deliveries -> Delivery] /\ webhookRuns \subseteq WebhookRun
      /\ lastId \in Nat
  BY DEF WorkflowsInv, DeliveriesTyped, SubsTyped
<1>1. DeliveriesTyped' /\ RunsAreQueued'
  <2>1. CASE UNCHANGED <<delivery, webhookRuns>>
    BY <1>0, <2>1, JobsStep DEF DeliveriesTyped, RunsAreQueued, JobsGrow
  <2>2. ASSUME NEW d \in Deliveries, DeliverySteps(d)
        PROVE  DeliveriesTyped' /\ RunsAreQueued'
    <3>1. PICK c \in Delivery :
            /\ delivery' = [delivery EXCEPT ![d] = c]
            /\ c.pc \in {"workflow", "create", "enqueue"} => c.w \in Workflows /\ c.sub # 0
            /\ \/ /\ delivery[d].pc \in {"idle", "workflow", "create"}
                  /\ UNCHANGED webhookRuns
               \/ /\ delivery[d].pc = "create" /\ c.pc = "enqueue"
                  /\ c.sub = delivery[d].sub /\ c.w = delivery[d].w
                  /\ webhookRuns' = webhookRuns \cup {[sub |-> c.sub, w |-> c.w, by |-> d]}
               \/ /\ delivery[d].pc = "enqueue" /\ c.pc = "accepted" /\ UNCHANGED webhookRuns
                  /\ d \in webhookJobs'
               \/ delivery[d].pc = "enqueue" /\ c.pc = "undo" /\ UNCHANGED webhookRuns
               \/ /\ delivery[d].pc = "undo" /\ c.pc = "unavailable"
                  /\ webhookRuns' = {x \in webhookRuns : x.by # d \/ d \in webhookBegun}
      BY <2>2 DEF DeliverySteps
    <3>2. /\ delivery' \in [Deliveries -> Delivery]
          /\ \A e \in Deliveries : delivery'[e] = IF e = d THEN c ELSE delivery[e]
      BY <1>0, <3>1
    <3>3. webhookRuns' \subseteq WebhookRun
      <4>1. c.pc = "enqueue" => [sub |-> c.sub, w |-> c.w, by |-> d] \in WebhookRun
        BY <3>1 DEF WebhookRun, Delivery
      <4>2. QED
        BY <1>0, <3>1, <4>1
    <3>4. DeliveriesTyped'
      BY <1>0, <3>1, <3>2, <3>3 DEF DeliveriesTyped
    <3>5. RunsAreQueued'
      <4>1. \A x \in webhookRuns' : x.by \in Deliveries
        BY <3>3 DEF WebhookRun
      <4>2. \A x \in webhookRuns' : x \in webhookRuns \/ (x.by = d /\ c.pc = "enqueue")
        BY <3>1
      <4>3. ASSUME NEW x \in webhookRuns', x.by # d
            PROVE  /\ delivery'[x.by].pc \in {"enqueue", "accepted", "undo", "unavailable"}
                   /\ delivery'[x.by].pc \in {"accepted", "unavailable"} => x.by \in webhookJobs'
                   /\ delivery'[x.by].pc = "unavailable" => x.by \in webhookBegun'
        <5>1. x \in webhookRuns /\ delivery'[x.by] = delivery[x.by]
          BY <3>2, <4>1, <4>2, <4>3
        <5>2. webhookJobs \subseteq webhookJobs' /\ webhookBegun \subseteq webhookBegun'
          BY JobsStep DEF JobsGrow
        <5> HIDE DEF WorkflowsInv
        <5>3. QED
          BY <1>0, <5>1, <5>2 DEF RunsAreQueued
      <4>4. ASSUME NEW x \in webhookRuns', x.by = d
            PROVE  /\ c.pc \in {"enqueue", "accepted", "undo", "unavailable"}
                   /\ c.pc \in {"accepted", "unavailable"} => d \in webhookJobs'
                   /\ c.pc = "unavailable" => d \in webhookBegun'
        BY <1>0, <3>1, <4>2, <4>4, JobsStep DEF RunsAreQueued, JobsGrow
      <4>5. QED
        BY <3>2, <4>3, <4>4, JobsStep DEF RunsAreQueued, JobsGrow
    <3>6. QED
      BY <3>4, <3>5
  <2>3. QED
    BY <2>1, <2>2, DeliveriesStep
<1>2. ASSUME NEW id, NEW w, HeldFor(id, w)'
      PROVE  HeldFor(id, w) \/ \E x \in subs' : x.id = id /\ x.w = w /\ id > lastId
  <2>1. CASE \E x \in subs' : x.id = id /\ x.w = w
    <3>1. PICK x \in subs' : x.id = id /\ x.w = w
      BY <2>1
    <3>2. \/ \E y \in subs : y.id = id /\ y.w = w
          \/ id \in (lastId + 1)..lastId'
      BY <3>1, NextSubs DEF NewIds
    <3>3. lastId' \in Nat
      BY NextSubs DEF NewIds
    <3>4. QED
      BY <1>0, <3>1, <3>2, <3>3 DEF HeldFor
  <2>2. CASE id # 0 /\ \E d \in Deliveries : delivery'[d].sub = id /\ delivery'[d].w = w
    <3>1. PICK e \in Deliveries : delivery'[e].sub = id /\ delivery'[e].w = w
      BY <2>2
    <3>2. CASE UNCHANGED <<delivery, webhookRuns>>
      BY <2>2, <3>1, <3>2 DEF HeldFor
    <3>3. ASSUME NEW d \in Deliveries, DeliverySteps(d)
          PROVE  HeldFor(id, w)
      <4>1. PICK c \in Delivery :
              /\ delivery' = [delivery EXCEPT ![d] = c]
              /\ \/ c.sub = 0
                 \/ c.sub = delivery[d].sub /\ c.w = delivery[d].w
                 \/ \E x \in subs : c.sub = x.id /\ c.w = x.w
        BY <3>3 DEF DeliverySteps
      <4>2. delivery'[e] = IF e = d THEN c ELSE delivery[e]
        BY <1>0, <4>1
      <4>3. QED
        BY <2>2, <3>1, <4>1, <4>2 DEF HeldFor
    <3>4. QED
      BY <3>2, <3>3, DeliveriesStep
  <2>3. CASE \E x \in webhookRuns' : x.sub = id /\ x.w = w
    <3>1. CASE UNCHANGED <<delivery, webhookRuns>>
      BY <2>3, <3>1 DEF HeldFor
    <3>2. ASSUME NEW d \in Deliveries, DeliverySteps(d)
          PROVE  HeldFor(id, w)
      <4>1. PICK c \in Delivery :
              \/ webhookRuns' \subseteq webhookRuns
              \/ /\ c.sub = delivery[d].sub /\ c.w = delivery[d].w
                 /\ delivery[d].pc = "create"
                 /\ webhookRuns' = webhookRuns \cup {[sub |-> c.sub, w |-> c.w, by |-> d]}
        BY <3>2 DEF DeliverySteps
      <4>2. delivery[d].pc = "create" => delivery[d].sub # 0
        BY <1>0 DEF DeliveriesTyped
      <4>3. QED
        BY <2>3, <4>1, <4>2 DEF HeldFor
    <3>3. QED
      BY <3>1, <3>2, DeliveriesStep
  <2>4. QED
    BY <1>2, <2>1, <2>2, <2>3 DEF HeldFor
<1>3. IdsServeOne'
  <2>1. \A id, w : HeldFor(id, w) => id \in 1..lastId
    BY <1>0 DEF IdsServeOne
  <2>2. /\ lastId' \in Nat /\ lastId <= lastId'
        /\ \A x \in subs' : \/ \E y \in subs : y.id = x.id /\ y.w = x.w
                            \/ x.id \in (lastId + 1)..lastId'
        /\ \A x, y \in subs' : x.id > lastId /\ y.id > lastId => x.w = y.w
    BY NextSubs DEF NewIds
  <2>3. ASSUME NEW id, NEW w, HeldFor(id, w)' PROVE id \in 1..lastId'
    <3>1. CASE HeldFor(id, w)
      BY <1>0, <2>1, <2>2, <3>1
    <3>2. ASSUME NEW x \in subs', x.id = id, x.w = w, id > lastId PROVE id \in 1..lastId'
      <4>1. CASE \E y \in subs : y.id = x.id /\ y.w = x.w
        <5>1. HeldFor(id, w)
          BY <3>2, <4>1 DEF HeldFor
        <5>2. QED
          BY <1>0, <2>1, <2>2, <5>1
      <4>2. CASE x.id \in (lastId + 1)..lastId'
        BY <1>0, <2>2, <3>2, <4>2
      <4>3. QED
        BY <2>2, <4>1, <4>2
    <3>3. QED
      BY <1>2, <2>3, <3>1, <3>2
  <2>4. ASSUME NEW id, NEW w, NEW v, HeldFor(id, w)', HeldFor(id, v)' PROVE w = v
    <3>1. HeldFor(id, w) \/ \E x \in subs' : x.id = id /\ x.w = w /\ id > lastId
      BY <1>2, <2>4
    <3>2. HeldFor(id, v) \/ \E x \in subs' : x.id = id /\ x.w = v /\ id > lastId
      BY <1>2, <2>4
    <3>3. HeldFor(id, w) \/ HeldFor(id, v) => id \in 1..lastId
      BY <2>1
    <3>4. CASE id > lastId
      <4>1. ~HeldFor(id, w) /\ ~HeldFor(id, v)
        BY <1>0, <3>3, <3>4
      <4>2. QED
        BY <2>2, <3>1, <3>2, <3>4, <4>1
    <3>5. CASE ~(id > lastId)
      BY <1>0, <3>1, <3>2, <3>5 DEF IdsServeOne
    <3>6. QED
      BY <3>4, <3>5
  <2>5. QED
    BY <2>3, <2>4 DEF IdsServeOne
<1>4. Wri!WebhookRunsOnce'
  <2>1. \A x, y \in webhookRuns' : x.sub = y.sub => x = y
    <3>1. CASE webhookRuns' \subseteq webhookRuns
      BY <1>0, <3>1 DEF Wri!WebhookRunsOnce
    <3>2. ASSUME NEW d \in Deliveries, NEW c \in Delivery, delivery[d].pc = "create",
                 c.sub = delivery[d].sub, c.w = delivery[d].w,
                 ~\E x \in webhookRuns : x.sub = c.sub /\ x.w = c.w,
                 webhookRuns' = webhookRuns \cup {[sub |-> c.sub, w |-> c.w, by |-> d]}
          PROVE  \A x, y \in webhookRuns' : x.sub = y.sub => x = y
      <4>1. delivery[d].sub # 0
        BY <1>0, <3>2 DEF DeliveriesTyped
      <4>2. HeldFor(c.sub, c.w)
        BY <3>2, <4>1 DEF HeldFor
      <4>3. \A x \in webhookRuns : HeldFor(x.sub, x.w)
        BY DEF HeldFor
      <4>4. \A x \in webhookRuns : x.sub # c.sub
        BY <1>0, <3>2, <4>2, <4>3 DEF IdsServeOne
      <4>5. QED
        BY <1>0, <3>2, <4>4 DEF Wri!WebhookRunsOnce
    <3>3. QED
      BY <3>1, <3>2, DeliveriesStep DEF DeliverySteps
  <2>2. QED
    BY <1>1, <2>1 DEF RunsAreQueued, Wri!WebhookRunsOnce
<1>5. QED
  BY <1>1, <1>3, <1>4

LEMMA NextWorkflows == WorkflowsInv /\ [Wri!Next]_(Wri!vars) => WorkflowsInv'
<1> SUFFICES ASSUME WorkflowsInv, [Wri!Next]_(Wri!vars) PROVE WorkflowsInv'
  OBVIOUS
<1>1. CASE Wri!Next
  BY <1>1, NextRevisions, NextWriReqs, NextSubs, NextDeliveries DEF WorkflowsInv
<1>2. CASE UNCHANGED Wri!vars
  <2>1. WorkflowsTyped' /\ WriReqsTyped' /\ SubsTyped' /\ DeliveriesTyped'
    BY <1>2 DEF Wri!vars, Wri!queueVars, WorkflowsInv, WorkflowsTyped, WriReqsTyped, SubsTyped,
       DeliveriesTyped
  <2>2. Wri!Rows' = Wri!Rows /\ Revisions' = Revisions
    BY <1>2 DEF Wri!vars, Wri!Rows, Revisions
  <2>3. RevisionsNumbered' /\ Wri!RevisionsDiffer' /\ WriReqsKnow' /\ Wri!SubscriptionsFollowDsl'
    BY <1>2, <2>2 DEF Wri!vars, WorkflowsInv, RevisionsNumbered, Wri!RevisionsDiffer, WriReqsKnow,
       Wri!SubscriptionsFollowDsl
  <2>4. IdsServeOne' /\ RunsAreQueued' /\ Wri!WebhookRunsOnce'
    BY <1>2 DEF Wri!vars, Wri!queueVars, WorkflowsInv, IdsServeOne, HeldFor, RunsAreQueued,
       Wri!WebhookRunsOnce
  <2>5. QED
    BY <2>1, <2>3, <2>4 DEF WorkflowsInv
<1>3. QED
  BY <1>1, <1>2

(* A deletion leaves the runs of the other calls, and a begun one.           *)
LEMMA NextWebhookBegun ==
  ASSUME WorkflowsInv, Wri!Next
  PROVE  Wri!BegunStay
<1>1. CASE UNCHANGED <<delivery, webhookRuns>>
  BY <1>1 DEF Wri!BegunStay
<1>2. ASSUME NEW d \in Deliveries, DeliverySteps(d) PROVE Wri!BegunStay
  <2>1. \/ webhookRuns \subseteq webhookRuns'
        \/ webhookRuns' = {x \in webhookRuns : x.by # d \/ d \in webhookBegun}
    BY <1>2 DEF DeliverySteps
  <2>2. QED
    BY <2>1 DEF Wri!BegunStay
<1>3. QED
  BY <1>1, <1>2, DeliveriesStep

LEMMA WorkflowsAreServed == GovernanceSpec => Wri!Spec
<1>1. GovernanceInit => Wri!Init
  BY DEF GovernanceInit
<1>2. [GovernanceNext]_allVars => [Wri!Next]_(Wri!vars)
  BY DEF GovernanceNext, allVars, wriVars, Wri!vars, Wri!queueVars
<1>3. QED
  BY <1>1, <1>2, PTL DEF GovernanceSpec, Wri!Spec

LEMMA WorkflowsInvariant == GovernanceSpec => []WorkflowsInv
BY WorkflowsAreServed, InitWorkflows, NextWorkflows, PTL DEF Wri!Spec

(* The revisions of a family differ however many requests read the same       *)
(* maximum, the subscriptions follow the published dsl, and an idempotency key *)
(* has one run, which has a job once its call is answered, and is begun if its *)
(* call was told to retry (createWorkflowDraftFromWorkflow,                  *)
(* replaceWorkflowTriggerSubscriptionsForWorkflow, the webhook's handler,    *)
(* deleteQueuedWorkflowRun), for any number of workflows, requests and calls. *)
THEOREM RevisionsAreKept == GovernanceSpec => []RevisionsHold
<1>1. WorkflowsInv => RevisionsHold
  BY DEF WorkflowsInv, RevisionsHold
<1>2. QED
  BY <1>1, WorkflowsInvariant, PTL

-----------------------------------------------------------------------------
(* What no step of the governance may do.                                    *)

(* Who removes an administrator is another person: when nobody is left, it was *)
(* no administrator any more itself.                                         *)
LEMMA NextLastAdmin ==
  ASSUME Org!Next
  PROVE  Org!LastAdminGoes
<1> SUFFICES ASSUME admins # {}, admins' = {}
             PROVE  \E r \in Slots : /\ orgReq[r].pc = "write" /\ orgReq[r].op = "remove"
                                     /\ orgReq[r].u \notin admins
  BY DEF Org!LastAdminGoes
<1>1. PICK r \in Slots : Org!deletePlatformUserRole(r)
  BY DEF Org!Next, Org!requireOrgContext, Org!requireSystemAdmin, Org!createInvitation,
     Org!updateMembershipRole, Org!getOrganizationSettings, Org!getOrganizationSubscription,
     Org!Reads, Org!updateOrganizationSettings, Org!upsertOrganizationSubscription, Org!Merges,
     Org!createPlatformUserRole, Org!patchSupportTicket,
     Org!appendPlatformAuditLog, Org!appendSupportTicketEvent, Org!RequestFails,
     Org!InvitationExpires, Org!acceptInvitation
<1>2. orgReq[r].pc = "write" /\ orgReq[r].op = "remove"
  BY <1>1 DEF Org!deletePlatformUserRole
<1>3. orgReq[r].of # orgReq[r].u /\ admins' = admins \ {orgReq[r].of}
  BY <1>1 DEF Org!deletePlatformUserRole
<1>4. QED
  BY <1>2, <1>3

(* An invitation makes no owner, and a change of role does only if an owner    *)
(* asked for it.                                                             *)
LEMMA NextOwner ==
  ASSUME OrganizationInv, Org!Next
  PROVE  Org!OwnerIsMade
<1> SUFFICES ASSUME NEW u \in Users, role'[u] = "owner", role[u] # "owner"
             PROVE  \E r \in Slots : /\ orgReq[r].of = u /\ orgReq[r].as = "owner"
                                     /\ orgReq[r].to = "owner"
  BY DEF Org!OwnerIsMade
<1>0. role \in [Users -> Org!Roles] /\ orgInvites \in [Invites -> Membership]
  BY DEF OrganizationInv, RolesTyped, MembershipsTyped
<1>1. \/ \E r \in Slots : Org!updateMembershipRole(r)
      \/ \E i \in Invites, v \in Users : Org!acceptInvitation(v, i)
  BY DEF Org!Next, Org!requireOrgContext, Org!requireSystemAdmin, Org!createInvitation,
     Org!getOrganizationSettings, Org!getOrganizationSubscription, Org!Reads,
     Org!updateOrganizationSettings, Org!upsertOrganizationSubscription, Org!Merges,
     Org!createPlatformUserRole, Org!deletePlatformUserRole, Org!patchSupportTicket,
     Org!appendPlatformAuditLog, Org!appendSupportTicketEvent, Org!RequestFails,
     Org!InvitationExpires
<1>2. ASSUME NEW i \in Invites, NEW v \in Users, Org!acceptInvitation(v, i) PROVE FALSE
  <2>1. orgInvites[i].role # "owner"
    BY <1>0 DEF Membership
  <2>2. role'[u] = role[u] \/ role'[u] = orgInvites[i].role
    BY <1>0, <1>2 DEF Org!acceptInvitation, Org!Joins
  <2>3. QED
    BY <2>1, <2>2
<1>3. ASSUME NEW r \in Slots, Org!updateMembershipRole(r)
      PROVE  orgReq[r].of = u /\ orgReq[r].as = "owner" /\ orgReq[r].to = "owner"
  <2>1. /\ ~(orgReq[r].to = "owner" /\ orgReq[r].as # "owner")
        /\ role' = [role EXCEPT ![orgReq[r].of] = IF @ = "none" THEN @ ELSE orgReq[r].to]
    BY <1>3 DEF Org!updateMembershipRole
  <2>2. orgReq[r].of = u
    BY <1>0, <2>1
  <2>3. role'[u] = orgReq[r].to
    BY <1>0, <2>1, <2>2
  <2>4. QED
    BY <2>1, <2>2, <2>3
<1>4. QED
  BY <1>1, <1>2, <1>3

LEMMA RunsAreServed == GovernanceSpec => Spec
<1>1. GovernanceInit => Init
  BY DEF GovernanceInit
<1>2. [GovernanceNext]_allVars => [Next]_vars
  BY DEF GovernanceNext, allVars
<1>3. QED
  BY <1>1, <1>2, PTL DEF GovernanceSpec, Spec

LEMMA NextOversteps ==
  ASSUME IInv, OrganizationInv, WorkflowsInv, [GovernanceNext]_allVars
  PROVE  /\ scene = "organization" => Org!LastAdminGoes /\ Org!OwnerIsMade
         /\ scene = "workflows" => Wri!StaysPublished /\ Wri!BegunStay
         /\ scene = "runs" => TriedStay
<1>1. Org!Next \/ UNCHANGED orgVars
  BY DEF GovernanceNext, allVars
<1>2. Org!LastAdminGoes /\ Org!OwnerIsMade
  <2>1. CASE Org!Next
    BY <2>1, NextLastAdmin, NextOwner
  <2>2. CASE UNCHANGED orgVars
    BY <2>2 DEF orgVars, Org!LastAdminGoes, Org!OwnerIsMade
  <2>3. QED
    BY <1>1, <2>1, <2>2
<1>3. Wri!Next \/ UNCHANGED wriVars
  BY DEF GovernanceNext, allVars
<1>4. Wri!StaysPublished /\ Wri!BegunStay
  <2>1. CASE Wri!Next
    BY <2>1, NextRevisions, NextWebhookBegun
  <2>2. CASE UNCHANGED wriVars
    BY <2>2 DEF wriVars, Wri!StaysPublished, Wri!BegunStay
  <2>3. QED
    BY <1>3, <2>1, <2>2
<1>5. TriedStay
  <2>1. [Next]_vars
    BY DEF GovernanceNext, allVars
  <2>2. QED
    BY <2>1, NextBegunStay
<1>6. QED
  BY <1>2, <1>4, <1>5

(* The last administrator goes only in a race of two removals, an owner is     *)
(* made by an owner, what is published stays, and a run that was begun is not  *)
(* deleted (deletePlatformUserRole, updateMembershipRole, updateWorkflowDraft, *)
(* deleteQueuedWorkflowRun), whatever the numbers of people, workflows and   *)
(* requests.                                                                 *)
THEOREM NobodyOverstepsEver == GovernanceSpec => NobodyOversteps
<1>1. GovernanceSpec => []IInv
  BY RunsAreServed, InitIInv, NextIInv, PTL DEF Spec
<1>2. QED
  BY <1>1, OrganizationInvariant, WorkflowsInvariant, NextOversteps, PTL
  DEF GovernanceSpec, NobodyOversteps
=============================================================================
