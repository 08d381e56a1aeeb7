------------------------------ MODULE Capacity ------------------------------
(***************************************************************************)
(* The in-flight counters with which the gateway's brains limit the work   *)
(* of an executor and of an organization (apps/gateway/src/brain/          *)
(* scheduler.ts), and the selection of an executor that uses them          *)
(* (selectExecutorForTool in apps/gateway/src/brain/runtime.ts).           *)
(*                                                                         *)
(* A call is one execution of invokeToolOnExecutor or handleSessionSend on *)
(* some brain; it takes a place on one executor and in its organization,   *)
(* works, and gives both places back with two separate commands.  The      *)
(* counters are Redis keys with a time to live.                            *)
(***************************************************************************)
EXTENDS Integers, FiniteSets

CONSTANTS
    Calls,          \* concurrent executions, on any brain
    Executors,
    NoExecutor,     \* what a call that holds no place has for executor
    Orgs,
    OrgOf,          \* the organization of each call
    Eligible,       \* the executors that pass the filters of each call
    MaxInFlight,    \* maxInFlight of each executor's route
    OrgMax,         \* getOrgMaxInFlight of each organization
    LongCalls,      \* a call may outlast GATEWAY_RESERVE_TTL_MS
    MaxErrors,      \* bound: Redis commands that fail
    MaxCrashes      \* bound: brains that die

ASSUME CallAssumption ==
    /\ IsFiniteSet(Calls)
    /\ OrgOf \in [Calls -> Orgs]
    /\ Eligible \in [Calls -> SUBSET Executors]
    /\ NoExecutor \notin Executors

ASSUME LimitAssumption ==
    /\ MaxInFlight \in [Executors -> Nat \ {0}]
    /\ OrgMax \in [Orgs -> Nat \ {0}]
    /\ LongCalls \in BOOLEAN
    /\ MaxErrors \in Nat
    /\ MaxCrashes \in Nat

VARIABLES
    \* executor:inflight:<id> and org:quota:<id>:inflight; a missing key reads
    \* as 0.  A key that DECR creates has no time to live.
    execCount, execTtl, orgCount, orgTtl,
    \* The calls: control point, candidates not yet scored, candidates not yet
    \* tried, the loads that were read, and the executor reserved.
    pc, unread, cand, load, exec,
    \* What the bounds count.
    errors, crashes

redisVars == <<execCount, execTtl, orgCount, orgTtl>>
callVars  == <<pc, unread, cand, load, exec>>
faultVars == <<errors, crashes>>
vars == <<redisVars, callVars, faultVars>>

Pcs == {"idle", "score", "reserve", "work", "releaseOrg"}

Init ==
    /\ execCount = [e \in Executors |-> 0] /\ execTtl = [e \in Executors |-> FALSE]
    /\ orgCount = [o \in Orgs |-> 0] /\ orgTtl = [o \in Orgs |-> FALSE]
    /\ pc = [c \in Calls |-> "idle"]
    /\ unread = [c \in Calls |-> {}] /\ cand = [c \in Calls |-> {}]
    /\ load = [c \in Calls |-> [e \in Executors |-> 0]]
    /\ exec = [c \in Calls |-> NoExecutor]
    /\ errors = 0 /\ crashes = 0
-----------------------------------------------------------------------------
(* Selection.  A request that names its executor has one candidate; that   *)
(* the code reads no load for it makes no difference.                      *)

\* The call is over, and its local variables with it.
EndCall(c) ==
    /\ pc' = [pc EXCEPT ![c] = "idle"]
    /\ unread' = [unread EXCEPT ![c] = {}]
    /\ cand' = [cand EXCEPT ![c] = {}]
    /\ load' = [load EXCEPT ![c] = [e \in Executors |-> 0]]
    /\ exec' = [exec EXCEPT ![c] = NoExecutor]

\* The routes R that are registered now and match.  With none, the call ends
\* with NO_EXECUTOR_AVAILABLE.
listExecutorRoutes(c, R) ==
    /\ pc[c] = "idle" /\ R # {}
    /\ pc' = [pc EXCEPT ![c] = "score"]
    /\ unread' = [unread EXCEPT ![c] = R] /\ cand' = [cand EXCEPT ![c] = R]
    /\ UNCHANGED <<load, exec, redisVars, faultVars>>

\* A negative counter counts as 0.
getInFlight(c, e) ==
    /\ pc[c] = "score" /\ e \in unread[c]
    /\ load' = [load EXCEPT ![c][e] = IF execCount[e] > 0 THEN execCount[e] ELSE 0]
    /\ unread' = [unread EXCEPT ![c] = @ \ {e}]
    /\ pc' = [pc EXCEPT ![c] = IF unread[c] = {e} THEN "reserve" ELSE "score"]
    /\ UNCHANGED <<cand, exec, redisVars, faultVars>>

\* The read fails and counts as 0.
getInFlightFails(c, e) ==
    /\ pc[c] = "score" /\ e \in unread[c]
    /\ errors < MaxErrors /\ errors' = errors + 1
    /\ unread' = [unread EXCEPT ![c] = @ \ {e}]
    /\ pc' = [pc EXCEPT ![c] = IF unread[c] = {e} THEN "reserve" ELSE "score"]
    /\ UNCHANGED <<cand, load, exec, redisVars, crashes>>

\* e has the least load ratio of the candidates left, as it was read; the
\* time of last use breaks ties and is left out.
LeastLoaded(c, e) ==
    \A f \in cand[c] : load[c][e] * MaxInFlight[f] <= load[c][f] * MaxInFlight[e]

\* Mutant: the organization's quota is not looked at.
HasRoom_NoQuota(c, e) == execCount[e] + 1 <= MaxInFlight[e]

\* Mutant: off by one on the executor's side.
HasRoom_OneMore(c, e) ==
    /\ execCount[e] <= MaxInFlight[e]
    /\ orgCount[OrgOf[c]] + 1 <= OrgMax[OrgOf[c]]

\* The Lua script finds a place on e and in the organization of c.
HasRoom(c, e) ==
    /\ execCount[e] + 1 <= MaxInFlight[e]
    /\ orgCount[OrgOf[c]] + 1 <= OrgMax[OrgOf[c]]

\* Mutant: the script sets no expiry on the executor's key.
TakePlace_NoExpiry(c, e) ==
    /\ execCount' = [execCount EXCEPT ![e] = @ + 1]
    /\ orgCount' = [orgCount EXCEPT ![OrgOf[c]] = @ + 1]
    /\ orgTtl' = [orgTtl EXCEPT ![OrgOf[c]] = TRUE]
    /\ UNCHANGED execTtl

\* INCR and PEXPIRE of both keys, in the one script.
TakePlace(c, e) ==
    /\ execCount' = [execCount EXCEPT ![e] = @ + 1]
    /\ execTtl' = [execTtl EXCEPT ![e] = TRUE]
    /\ orgCount' = [orgCount EXCEPT ![OrgOf[c]] = @ + 1]
    /\ orgTtl' = [orgTtl EXCEPT ![OrgOf[c]] = TRUE]

reserveCapacity(c, e) ==
    /\ pc[c] = "reserve" /\ e \in cand[c] /\ LeastLoaded(c, e) /\ HasRoom(c, e)
    /\ TakePlace(c, e)
    /\ pc' = [pc EXCEPT ![c] = "work"]
    /\ exec' = [exec EXCEPT ![c] = e]
    /\ cand' = [cand EXCEPT ![c] = {}]
    /\ load' = [load EXCEPT ![c] = [f \in Executors |-> 0]]
    /\ UNCHANGED <<unread, faultVars>>

\* EXECUTOR_OVER_CAPACITY or ORG_QUOTA_EXCEEDED: the next candidate is tried;
\* with none left the call ends with that error.
reserveRefused(c, e) ==
    /\ pc[c] = "reserve" /\ e \in cand[c] /\ LeastLoaded(c, e) /\ ~HasRoom(c, e)
    /\ IF cand[c] = {e}
       THEN EndCall(c)
       ELSE cand' = [cand EXCEPT ![c] = @ \ {e}] /\ UNCHANGED <<pc, unread, load, exec>>
    /\ UNCHANGED <<redisVars, faultVars>>

\* The eval throws; it may have taken the place all the same.
reserveThrows(c, e) ==
    /\ pc[c] = "reserve" /\ e \in cand[c] /\ LeastLoaded(c, e)
    /\ errors < MaxErrors /\ errors' = errors + 1
    /\ (HasRoom(c, e) /\ TakePlace(c, e)) \/ UNCHANGED redisVars
    /\ EndCall(c)
    /\ UNCHANGED crashes

-----------------------------------------------------------------------------
(* The finally block: releaseCapacity, whose DECRs may fail one by one.    *)

releaseExecutor(c) ==
    /\ pc[c] = "work"
    /\ execCount' = [execCount EXCEPT ![exec[c]] = @ - 1]
    /\ pc' = [pc EXCEPT ![c] = "releaseOrg"]
    /\ UNCHANGED <<execTtl, orgCount, orgTtl, unread, cand, load, exec, faultVars>>

releaseOrg(c) ==
    /\ pc[c] = "releaseOrg"
    /\ orgCount' = [orgCount EXCEPT ![OrgOf[c]] = @ - 1]
    /\ EndCall(c)
    /\ UNCHANGED <<execCount, execTtl, orgTtl, faultVars>>

\* A DECR that fails is ignored.
releaseFails(c) ==
    /\ pc[c] \in {"work", "releaseOrg"}
    /\ errors < MaxErrors /\ errors' = errors + 1
    /\ IF pc[c] = "work"
       THEN pc' = [pc EXCEPT ![c] = "releaseOrg"] /\ UNCHANGED <<unread, cand, load, exec>>
       ELSE EndCall(c)
    /\ UNCHANGED <<redisVars, crashes>>

\* The brain that runs c dies.
BrainCrash(c) ==
    /\ pc[c] # "idle" /\ crashes < MaxCrashes /\ crashes' = crashes + 1
    /\ EndCall(c)
    /\ UNCHANGED <<redisVars, errors>>

-----------------------------------------------------------------------------
(* Redis expires a key whose time to live has passed since the last        *)
(* reservation.  If no call lasts that long, no call that counted on the   *)
(* key is left by then.                                                    *)

\* The calls that hold a place on e, and in o.
OnExecutor(e) == {c \in Calls : pc[c] = "work" /\ exec[c] = e}
InOrg(o)      == {c \in Calls : pc[c] \in {"work", "releaseOrg"} /\ OrgOf[c] = o}

ExpireExecutorKey(e) ==
    /\ execTtl[e] /\ (LongCalls \/ OnExecutor(e) = {})
    /\ execCount' = [execCount EXCEPT ![e] = 0] /\ execTtl' = [execTtl EXCEPT ![e] = FALSE]
    /\ UNCHANGED <<orgCount, orgTtl, callVars, faultVars>>

ExpireOrgKey(o) ==
    /\ orgTtl[o] /\ (LongCalls \/ InOrg(o) = {})
    /\ orgCount' = [orgCount EXCEPT ![o] = 0] /\ orgTtl' = [orgTtl EXCEPT ![o] = FALSE]
    /\ UNCHANGED <<execCount, execTtl, callVars, faultVars>>

CallStep(c) ==
    \/ \E R \in SUBSET Eligible[c] : listExecutorRoutes(c, R)
    \/ \E e \in Executors :
        \/ getInFlight(c, e) \/ getInFlightFails(c, e) \/ reserveCapacity(c, e)
        \/ reserveRefused(c, e) \/ reserveThrows(c, e)
    \/ releaseExecutor(c) \/ releaseOrg(c) \/ releaseFails(c) \/ BrainCrash(c)

Next ==
    \/ \E c \in Calls : CallStep(c)
    \/ \E e \in Executors : ExpireExecutorKey(e)
    \/ \E o \in Orgs : ExpireOrgKey(o)

Spec == Init /\ [][Next]_vars

\* A full counter is not refreshed, since only a reservation that succeeds
\* renews the time to live: in the end Redis expires it.
Fairness ==
    /\ \A e \in Executors : WF_vars(execCount[e] >= MaxInFlight[e] /\ ExpireExecutorKey(e))
    /\ \A o \in Orgs : WF_vars(orgCount[o] >= OrgMax[o] /\ ExpireOrgKey(o))

FairSpec == Spec /\ Fairness

-----------------------------------------------------------------------------
(* Properties.                                                             *)

\* Every variable keeps its type.
TypeOK ==
    /\ execCount \in [Executors -> Int] /\ execTtl \in [Executors -> BOOLEAN]
    /\ orgCount \in [Orgs -> Int] /\ orgTtl \in [Orgs -> BOOLEAN]
    /\ pc \in [Calls -> Pcs]
    /\ unread \in [Calls -> SUBSET Executors] /\ cand \in [Calls -> SUBSET Executors]
    /\ load \in [Calls -> [Executors -> Nat]]
    /\ exec \in [Calls -> Executors \cup {NoExecutor}]
    /\ errors \in Nat /\ crashes \in Nat

\* No executor works on more calls than its route's maxInFlight: whatever calls
\* race for its last place, whatever DECR or brain is lost, the counter is never
\* below the number of calls that hold a place.
ExecutorLimitKept ==
    \A e \in Executors : Cardinality(OnExecutor(e)) <= MaxInFlight[e]

\* No organization has more calls in flight, on all executors and brains, than
\* its quota.
OrgQuotaKept ==
    \A o \in Orgs : Cardinality(InOrg(o)) <= OrgMax[o]

\* An executor whose counter is full of places nobody holds (their brains died,
\* or the DECR failed) is usable again in the end.
LeakedPlacesReturn ==
    \A e \in Executors :
        (execCount[e] >= MaxInFlight[e] /\ OnExecutor(e) = {})
            ~> (execCount[e] < MaxInFlight[e])
=============================================================================
