--------------------------- MODULE CapacityProofs ---------------------------
(***************************************************************************)
(* For every set of calls, executors and organizations: if no call         *)
(* outlasts the time to live of the counters, no executor and no           *)
(* organization has more calls in flight than its limit, whatever Redis    *)
(* commands fail and whatever brains die.                                  *)
(***************************************************************************)
EXTENDS Capacity, FiniteSetTheorems, TLAPS

\* A call that works has an executor.
HolderInv == \A c \in Calls : pc[c] = "work" => exec[c] \in Executors

\* The counters never fall below the number of places held, and stay within
\* their limits: a lost DECR only makes a counter too high.
ExecInv ==
    \A e \in Executors :
        Cardinality(OnExecutor(e)) <= execCount[e] /\ execCount[e] <= MaxInFlight[e]

OrgInv ==
    \A o \in Orgs :
        Cardinality(InOrg(o)) <= orgCount[o] /\ orgCount[o] <= OrgMax[o]

CapacityInv == TypeOK /\ HolderInv /\ ExecInv /\ OrgInv

-----------------------------------------------------------------------------
\* A set of calls is finite and has a size.
LEMMA FiniteCalls ==
    ASSUME NEW S \in SUBSET Calls
    PROVE  IsFiniteSet(S) /\ Cardinality(S) \in Nat
BY CallAssumption, FS_Subset, FS_CardinalityType

\* A smaller set of calls has no larger size.
LEMMA SmallerSet ==
    ASSUME NEW S \in SUBSET Calls, NEW T \in SUBSET S
    PROVE  Cardinality(T) <= Cardinality(S)
BY FiniteCalls, FS_Subset

\* No holders, no places.
LEMMA NoneHeld == ASSUME NEW S, S = {} PROVE Cardinality(S) = 0
BY FS_EmptySet

\* The types of the calls' variables alone.
CallTypes ==
    /\ pc \in [Calls -> Pcs]
    /\ unread \in [Calls -> SUBSET Executors] /\ cand \in [Calls -> SUBSET Executors]
    /\ load \in [Calls -> [Executors -> Nat]]
    /\ exec \in [Calls -> Executors \cup {NoExecutor}]

\* The types of the counters alone.
RedisTypes ==
    /\ execCount \in [Executors -> Int] /\ execTtl \in [Executors -> BOOLEAN]
    /\ orgCount \in [Orgs -> Int] /\ orgTtl \in [Orgs -> BOOLEAN]

\* A call that ends leaves well-typed variables and no place held.
LEMMA EndCallType ==
    ASSUME TypeOK, HolderInv, NEW c \in Calls, EndCall(c)
    PROVE  CallTypes' /\ HolderInv'
BY DEF TypeOK, HolderInv, EndCall, CallTypes, Pcs

\* A reservation leaves well-typed counters.
LEMMA TakePlaceType ==
    ASSUME TypeOK, NEW c \in Calls, NEW e \in Executors, TakePlace(c, e)
    PROVE  RedisTypes'
BY CallAssumption DEF TypeOK, TakePlace, RedisTypes

\* Every step keeps the types, and a call that works keeps its executor.
LEMMA TypeStep ==
    ASSUME TypeOK, HolderInv, [Next]_vars
    PROVE  TypeOK' /\ HolderInv'
<1> USE CallAssumption, LimitAssumption
<1> USE DEF TypeOK, HolderInv, Pcs
<1>1. ASSUME NEW c \in Calls, CallStep(c) PROVE TypeOK' /\ HolderInv'
  <2>1. ASSUME NEW R \in SUBSET Eligible[c], listExecutorRoutes(c, R)
        PROVE  TypeOK' /\ HolderInv'
    BY <2>1 DEF listExecutorRoutes, redisVars, faultVars
  <2>2. ASSUME NEW e \in Executors, getInFlight(c, e)
        PROVE  TypeOK' /\ HolderInv'
    <3> DEFINE n == IF execCount[e] > 0 THEN execCount[e] ELSE 0
    <3>1. n \in Nat
      OBVIOUS
    <3>2. load' = [load EXCEPT ![c][e] = n]
      BY <2>2 DEF getInFlight
    <3> HIDE DEF n
    <3>3. load' \in [Calls -> [Executors -> Nat]]
      BY <3>1, <3>2
    <3> QED BY <2>2, <3>3 DEF getInFlight, redisVars, faultVars
  <2>3. ASSUME NEW e \in Executors, getInFlightFails(c, e)
        PROVE  TypeOK' /\ HolderInv'
    BY <2>3 DEF getInFlightFails, redisVars
  <2>4. ASSUME NEW e \in Executors, reserveCapacity(c, e)
        PROVE  TypeOK' /\ HolderInv'
    BY <2>4 DEF reserveCapacity, TakePlace, faultVars
  <2>5. ASSUME NEW e \in Executors, reserveRefused(c, e)
        PROVE  TypeOK' /\ HolderInv'
    <3>1. CASE cand[c] = {e}
      BY <2>5, <3>1, EndCallType DEF reserveRefused, redisVars, faultVars, CallTypes
    <3>2. CASE cand[c] # {e}
      <4>1. /\ cand' = [cand EXCEPT ![c] = cand[c] \ {e}]
            /\ UNCHANGED <<pc, unread, load, exec, redisVars, faultVars>>
        BY <2>5, <3>2 DEF reserveRefused
      <4>2. cand' \in [Calls -> SUBSET Executors]
        BY <4>1
      <4> QED BY <4>1, <4>2 DEF redisVars, faultVars
    <3> QED BY <3>1, <3>2
  <2>6. ASSUME NEW e \in Executors, reserveThrows(c, e)
        PROVE  TypeOK' /\ HolderInv'
    <3>1. EndCall(c) /\ errors' \in Nat /\ crashes' \in Nat
      BY <2>6 DEF reserveThrows
    <3>2. RedisTypes'
      <4>1. CASE TakePlace(c, e)
        BY <4>1, TakePlaceType
      <4>2. CASE UNCHANGED redisVars
        BY <4>2 DEF redisVars, RedisTypes
      <4> QED BY <2>6, <4>1, <4>2 DEF reserveThrows
    <3> QED BY <3>1, <3>2, EndCallType DEF RedisTypes, CallTypes
  <2>7. CASE releaseExecutor(c)
    BY <2>7 DEF releaseExecutor, faultVars
  <2>8. CASE releaseOrg(c)
    BY <2>8 DEF releaseOrg, EndCall, faultVars
  <2>9. CASE releaseFails(c)
    <3>1. CASE pc[c] = "work"
      BY <2>9, <3>1 DEF releaseFails, redisVars
    <3>2. CASE pc[c] # "work"
      BY <2>9, <3>2, EndCallType DEF releaseFails, redisVars, CallTypes
    <3> QED BY <3>1, <3>2
  <2>10. CASE BrainCrash(c)
    BY <2>10 DEF BrainCrash, EndCall, redisVars
  <2> QED BY <1>1, <2>1, <2>2, <2>3, <2>4, <2>5, <2>6, <2>7, <2>8, <2>9, <2>10 DEF CallStep
<1>2. ASSUME NEW e \in Executors, ExpireExecutorKey(e) PROVE TypeOK' /\ HolderInv'
  BY <1>2 DEF ExpireExecutorKey, callVars, faultVars
<1>3. ASSUME NEW o \in Orgs, ExpireOrgKey(o) PROVE TypeOK' /\ HolderInv'
  BY <1>3 DEF ExpireOrgKey, callVars, faultVars
<1>4. CASE UNCHANGED vars
  BY <1>4 DEF vars, redisVars, callVars, faultVars
<1> QED BY <1>1, <1>2, <1>3, <1>4 DEF Next

\* What ExecInv and OrgInv say of one executor and of one organization.
ExecOk(e) == Cardinality(OnExecutor(e)) <= execCount[e] /\ execCount[e] <= MaxInFlight[e]
OrgOk(o)  == Cardinality(InOrg(o)) <= orgCount[o] /\ orgCount[o] <= OrgMax[o]

\* A step in which no call takes a place on e and its counter does not fall.
LEMMA ExecKept ==
    ASSUME CapacityInv, TypeOK', NEW e \in Executors,
           OnExecutor(e)' \subseteq OnExecutor(e),
           execCount[e] <= execCount'[e], execCount'[e] <= MaxInFlight[e]
    PROVE  ExecOk(e)'
<1>1. OnExecutor(e) \in SUBSET Calls /\ OnExecutor(e)' \in SUBSET Calls
  BY DEF OnExecutor
<1>2. Cardinality(OnExecutor(e)') <= Cardinality(OnExecutor(e))
  BY <1>1, SmallerSet
<1>3. Cardinality(OnExecutor(e)) \in Nat /\ Cardinality(OnExecutor(e)') \in Nat
  BY <1>1, FiniteCalls
<1>4. /\ execCount[e] \in Int /\ execCount'[e] \in Int
      /\ Cardinality(OnExecutor(e)) <= execCount[e]
  BY DEF CapacityInv, ExecInv, TypeOK
<1>5. Cardinality(OnExecutor(e)') <= execCount'[e]
  BY <1>2, <1>3, <1>4
<1> QED BY <1>5 DEF ExecOk

\* The same for an organization.
LEMMA OrgKept ==
    ASSUME CapacityInv, TypeOK', NEW o \in Orgs,
           InOrg(o)' \subseteq InOrg(o),
           orgCount[o] <= orgCount'[o], orgCount'[o] <= OrgMax[o]
    PROVE  OrgOk(o)'
<1>1. InOrg(o) \in SUBSET Calls /\ InOrg(o)' \in SUBSET Calls
  BY DEF InOrg
<1>2. Cardinality(InOrg(o)') <= Cardinality(InOrg(o))
  BY <1>1, SmallerSet
<1>3. Cardinality(InOrg(o)) \in Nat /\ Cardinality(InOrg(o)') \in Nat
  BY <1>1, FiniteCalls
<1>4. /\ orgCount[o] \in Int /\ orgCount'[o] \in Int
      /\ Cardinality(InOrg(o)) <= orgCount[o]
  BY DEF CapacityInv, OrgInv, TypeOK
<1>5. Cardinality(InOrg(o)') <= orgCount'[o]
  BY <1>2, <1>3, <1>4
<1> QED BY <1>5 DEF OrgOk

\* The call takes a place on e: one more holder, one more counted.
LEMMA ReserveStep ==
    ASSUME CapacityInv, TypeOK', NEW c \in Calls, NEW f \in Executors, reserveCapacity(c, f)
    PROVE  (\A e \in Executors : ExecOk(e)') /\ (\A o \in Orgs : OrgOk(o)')
<1> USE CallAssumption, LimitAssumption
<1>0. /\ pc' = [pc EXCEPT ![c] = "work"] /\ exec' = [exec EXCEPT ![c] = f]
      /\ execCount' = [execCount EXCEPT ![f] = @ + 1]
      /\ orgCount' = [orgCount EXCEPT ![OrgOf[c]] = @ + 1]
      /\ pc[c] = "reserve" /\ HasRoom(c, f)
  BY DEF reserveCapacity, TakePlace
<1>1. ASSUME NEW e \in Executors PROVE ExecOk(e)'
  <2>1. CASE e = f
    <3>1. OnExecutor(e)' = OnExecutor(e) \cup {c}
      BY <1>0, <2>1 DEF OnExecutor, CapacityInv, TypeOK
    <3>2. c \notin OnExecutor(e)
      BY <1>0 DEF OnExecutor
    <3>3. OnExecutor(e) \in SUBSET Calls
      BY DEF OnExecutor
    <3>4. Cardinality(OnExecutor(e)') = Cardinality(OnExecutor(e)) + 1
      BY <3>1, <3>2, <3>3, FiniteCalls, FS_AddElement
    <3>5. execCount'[e] = execCount[e] + 1
      BY <1>0, <2>1 DEF CapacityInv, TypeOK
    <3>6. /\ execCount[e] \in Int /\ Cardinality(OnExecutor(e)) <= execCount[e]
          /\ execCount[e] + 1 <= MaxInFlight[e]
      BY <1>0, <2>1 DEF CapacityInv, ExecInv, TypeOK, HasRoom
    <3>7. Cardinality(OnExecutor(e)) \in Nat
      BY <3>3, FiniteCalls
    <3>8. Cardinality(OnExecutor(e)') <= execCount'[e] /\ execCount'[e] <= MaxInFlight[e]
      BY <3>4, <3>5, <3>6, <3>7
    <3> QED BY <3>8 DEF ExecOk
  <2>2. CASE e # f
    <3>1. OnExecutor(e)' \subseteq OnExecutor(e)
      BY <1>0, <2>2 DEF OnExecutor, CapacityInv, TypeOK
    <3>2. execCount'[e] = execCount[e] /\ execCount[e] \in Int /\ execCount[e] <= MaxInFlight[e]
      BY <1>0, <2>2 DEF CapacityInv, ExecInv, TypeOK
    <3> QED BY <3>1, <3>2, ExecKept
  <2> QED BY <2>1, <2>2
<1>2. ASSUME NEW o \in Orgs PROVE OrgOk(o)'
  <2>1. CASE o = OrgOf[c]
    <3>1. InOrg(o)' = InOrg(o) \cup {c}
      BY <1>0, <2>1 DEF InOrg, CapacityInv, TypeOK
    <3>2. c \notin InOrg(o)
      BY <1>0 DEF InOrg
    <3>3. InOrg(o) \in SUBSET Calls
      BY DEF InOrg
    <3>4. Cardinality(InOrg(o)') = Cardinality(InOrg(o)) + 1
      BY <3>1, <3>2, <3>3, FiniteCalls, FS_AddElement
    <3>5. orgCount'[o] = orgCount[o] + 1
      BY <1>0, <2>1 DEF CapacityInv, TypeOK
    <3>6. /\ orgCount[o] \in Int /\ Cardinality(InOrg(o)) <= orgCount[o]
          /\ orgCount[o] + 1 <= OrgMax[o]
      BY <1>0, <2>1 DEF CapacityInv, OrgInv, TypeOK, HasRoom
    <3>7. Cardinality(InOrg(o)) \in Nat
      BY <3>3, FiniteCalls
    <3>8. Cardinality(InOrg(o)') <= orgCount'[o] /\ orgCount'[o] <= OrgMax[o]
      BY <3>4, <3>5, <3>6, <3>7
    <3> QED BY <3>8 DEF OrgOk
  <2>2. CASE o # OrgOf[c]
    <3>1. InOrg(o)' \subseteq InOrg(o)
      BY <1>0, <2>2 DEF InOrg, CapacityInv, TypeOK
    <3>2. orgCount'[o] = orgCount[o] /\ orgCount[o] \in Int /\ orgCount[o] <= OrgMax[o]
      BY <1>0, <2>2 DEF CapacityInv, OrgInv, TypeOK
    <3> QED BY <3>1, <3>2, OrgKept
  <2> QED BY <2>1, <2>2
<1> QED BY <1>1, <1>2

\* The call gives its place on its executor back.
LEMMA ReleaseExecutorStep ==
    ASSUME CapacityInv, TypeOK', NEW c \in Calls, releaseExecutor(c)
    PROVE  (\A e \in Executors : ExecOk(e)') /\ (\A o \in Orgs : OrgOk(o)')
<1> USE CallAssumption, LimitAssumption
<1>0. /\ pc' = [pc EXCEPT ![c] = "releaseOrg"] /\ exec' = exec
      /\ execCount' = [execCount EXCEPT ![exec[c]] = @ - 1] /\ orgCount' = orgCount
      /\ pc[c] = "work" /\ exec[c] \in Executors
  BY DEF releaseExecutor, CapacityInv, HolderInv
<1>1. ASSUME NEW e \in Executors PROVE ExecOk(e)'
  <2>1. CASE e = exec[c]
    <3>1. OnExecutor(e)' = OnExecutor(e) \ {c}
      BY <1>0, <2>1 DEF OnExecutor, CapacityInv, TypeOK
    <3>2. c \in OnExecutor(e)
      BY <1>0, <2>1 DEF OnExecutor
    <3>3. OnExecutor(e) \in SUBSET Calls
      BY DEF OnExecutor
    <3>4. Cardinality(OnExecutor(e)') = Cardinality(OnExecutor(e)) - 1
      BY <3>1, <3>2, <3>3, FiniteCalls, FS_RemoveElement
    <3>5. execCount'[e] = execCount[e] - 1
      BY <1>0, <2>1 DEF CapacityInv, TypeOK
    <3>6. /\ execCount[e] \in Int /\ Cardinality(OnExecutor(e)) <= execCount[e]
          /\ execCount[e] <= MaxInFlight[e]
      BY DEF CapacityInv, ExecInv, TypeOK
    <3>7. Cardinality(OnExecutor(e)) \in Nat
      BY <3>3, FiniteCalls
    <3>8. Cardinality(OnExecutor(e)') <= execCount'[e] /\ execCount'[e] <= MaxInFlight[e]
      BY <3>4, <3>5, <3>6, <3>7
    <3> QED BY <3>8 DEF ExecOk
  <2>2. CASE e # exec[c]
    <3>1. OnExecutor(e)' \subseteq OnExecutor(e)
      BY <1>0, <2>2 DEF OnExecutor, CapacityInv, TypeOK
    <3>2. execCount'[e] = execCount[e] /\ execCount[e] \in Int /\ execCount[e] <= MaxInFlight[e]
      BY <1>0, <2>2 DEF CapacityInv, ExecInv, TypeOK
    <3> QED BY <3>1, <3>2, ExecKept
  <2> QED BY <2>1, <2>2
<1>2. ASSUME NEW o \in Orgs PROVE OrgOk(o)'
  <2>1. InOrg(o)' \subseteq InOrg(o)
    BY <1>0 DEF InOrg, CapacityInv, TypeOK
  <2>2. orgCount'[o] = orgCount[o] /\ orgCount[o] \in Int /\ orgCount[o] <= OrgMax[o]
    BY <1>0 DEF CapacityInv, OrgInv, TypeOK
  <2> QED BY <2>1, <2>2, OrgKept
<1> QED BY <1>1, <1>2

\* The call gives its place in the organization back.
LEMMA ReleaseOrgStep ==
    ASSUME CapacityInv, TypeOK', NEW c \in Calls, releaseOrg(c)
    PROVE  (\A e \in Executors : ExecOk(e)') /\ (\A o \in Orgs : OrgOk(o)')
<1> USE CallAssumption, LimitAssumption
<1>0. /\ pc' = [pc EXCEPT ![c] = "idle"] /\ exec' = [exec EXCEPT ![c] = NoExecutor]
      /\ orgCount' = [orgCount EXCEPT ![OrgOf[c]] = @ - 1] /\ execCount' = execCount
      /\ pc[c] = "releaseOrg"
  BY DEF releaseOrg, EndCall
<1>1. ASSUME NEW e \in Executors PROVE ExecOk(e)'
  <2>1. OnExecutor(e)' \subseteq OnExecutor(e)
    BY <1>0 DEF OnExecutor, CapacityInv, TypeOK
  <2>2. execCount'[e] = execCount[e] /\ execCount[e] \in Int /\ execCount[e] <= MaxInFlight[e]
    BY <1>0 DEF CapacityInv, ExecInv, TypeOK
  <2> QED BY <2>1, <2>2, ExecKept
<1>2. ASSUME NEW o \in Orgs PROVE OrgOk(o)'
  <2>1. CASE o = OrgOf[c]
    <3>1. InOrg(o)' = InOrg(o) \ {c}
      BY <1>0, <2>1 DEF InOrg, CapacityInv, TypeOK
    <3>2. c \in InOrg(o)
      BY <1>0, <2>1 DEF InOrg
    <3>3. InOrg(o) \in SUBSET Calls
      BY DEF InOrg
    <3>4. Cardinality(InOrg(o)') = Cardinality(InOrg(o)) - 1
      BY <3>1, <3>2, <3>3, FiniteCalls, FS_RemoveElement
    <3>5. orgCount'[o] = orgCount[o] - 1
      BY <1>0, <2>1 DEF CapacityInv, TypeOK
    <3>6. /\ orgCount[o] \in Int /\ Cardinality(InOrg(o)) <= orgCount[o]
          /\ orgCount[o] <= OrgMax[o]
      BY DEF CapacityInv, OrgInv, TypeOK
    <3>7. Cardinality(InOrg(o)) \in Nat
      BY <3>3, FiniteCalls
    <3>8. Cardinality(InOrg(o)') <= orgCount'[o] /\ orgCount'[o] <= OrgMax[o]
      BY <3>4, <3>5, <3>6, <3>7
    <3> QED BY <3>8 DEF OrgOk
  <2>2. CASE o # OrgOf[c]
    <3>1. InOrg(o)' \subseteq InOrg(o)
      BY <1>0, <2>2 DEF InOrg, CapacityInv, TypeOK
    <3>2. orgCount'[o] = orgCount[o] /\ orgCount[o] \in Int /\ orgCount[o] <= OrgMax[o]
      BY <1>0, <2>2 DEF CapacityInv, OrgInv, TypeOK
    <3> QED BY <3>1, <3>2, OrgKept
  <2> QED BY <2>1, <2>2
<1> QED BY <1>1, <1>2

\* A step that takes no place and lowers no counter.
LEMMA QuietStep ==
    ASSUME CapacityInv, TypeOK',
           \A e \in Executors : OnExecutor(e)' \subseteq OnExecutor(e),
           \A o \in Orgs : InOrg(o)' \subseteq InOrg(o),
           \A e \in Executors : execCount'[e] \in {execCount[e], execCount[e] + 1}
                                 /\ execCount'[e] <= MaxInFlight[e],
           \A o \in Orgs : orgCount'[o] \in {orgCount[o], orgCount[o] + 1}
                            /\ orgCount'[o] <= OrgMax[o]
    PROVE  (\A e \in Executors : ExecOk(e)') /\ (\A o \in Orgs : OrgOk(o)')
<1>1. ASSUME NEW e \in Executors PROVE ExecOk(e)'
  <2>1. execCount[e] \in Int
    BY DEF CapacityInv, TypeOK
  <2>2. execCount[e] <= execCount'[e]
    BY <2>1
  <2> QED BY <2>2, ExecKept
<1>2. ASSUME NEW o \in Orgs PROVE OrgOk(o)'
  <2>1. orgCount[o] \in Int
    BY DEF CapacityInv, TypeOK
  <2>2. orgCount[o] <= orgCount'[o]
    BY <2>1
  <2> QED BY <2>2, OrgKept
<1> QED BY <1>1, <1>2

\* Every step keeps both counters between the places held and the limit.
LEMMA CountStep ==
    ASSUME CapacityInv, TypeOK', ~LongCalls, [Next]_vars
    PROVE  (\A e \in Executors : ExecOk(e)') /\ (\A o \in Orgs : OrgOk(o)')
<1> USE CallAssumption, LimitAssumption
<1> DEFINE Goal == (\A e \in Executors : ExecOk(e)') /\ (\A o \in Orgs : OrgOk(o)')
<1> HIDE DEF Goal
\* Nobody but c moves, c takes no place, the counters stay.
<1>1. ASSUME NEW c \in Calls,
             pc' \in [Calls -> Pcs], \A d \in Calls \ {c} : pc'[d] = pc[d] /\ exec'[d] = exec[d],
             \/ pc'[c] \notin {"work", "releaseOrg"}
             \/ pc[c] = "work" /\ pc'[c] = "releaseOrg",
             UNCHANGED redisVars
      PROVE  Goal
  <2>1. \A e \in Executors : OnExecutor(e)' \subseteq OnExecutor(e)
    BY <1>1 DEF OnExecutor
  <2>2. \A o \in Orgs : InOrg(o)' \subseteq InOrg(o)
    BY <1>1 DEF InOrg
  <2>3. UNCHANGED <<execCount, orgCount>>
    BY <1>1 DEF redisVars
  <2>4. /\ \A e \in Executors : execCount[e] <= MaxInFlight[e]
        /\ \A o \in Orgs : orgCount[o] <= OrgMax[o]
    BY DEF CapacityInv, ExecInv, OrgInv
  <2> QED BY <2>1, <2>2, <2>3, <2>4, QuietStep DEF Goal
\* A call that ends.
<1>2. ASSUME NEW c \in Calls, EndCall(c), UNCHANGED redisVars PROVE Goal
  <2>1. /\ pc' \in [Calls -> Pcs] /\ pc'[c] = "idle"
        /\ \A d \in Calls \ {c} : pc'[d] = pc[d] /\ exec'[d] = exec[d]
    BY <1>2 DEF EndCall, CapacityInv, TypeOK, Pcs
  <2> QED BY <1>1, <1>2, <2>1
<1>3. ASSUME NEW c \in Calls, CallStep(c) PROVE Goal
  <2> USE DEF CapacityInv, TypeOK, Pcs
  <2>1. ASSUME NEW R \in SUBSET Eligible[c], listExecutorRoutes(c, R) PROVE Goal
    <3>1. /\ pc' \in [Calls -> Pcs] /\ pc'[c] = "score" /\ UNCHANGED redisVars
          /\ \A d \in Calls \ {c} : pc'[d] = pc[d] /\ exec'[d] = exec[d]
      BY <2>1 DEF listExecutorRoutes
    <3> QED BY <1>1, <3>1
  <2>2. ASSUME NEW e \in Executors, getInFlight(c, e) \/ getInFlightFails(c, e) PROVE Goal
    <3>1. /\ pc' \in [Calls -> Pcs] /\ pc'[c] \in {"score", "reserve"} /\ UNCHANGED redisVars
          /\ \A d \in Calls \ {c} : pc'[d] = pc[d] /\ exec'[d] = exec[d]
      BY <2>2 DEF getInFlight, getInFlightFails
    <3> QED BY <1>1, <3>1
  <2>3. ASSUME NEW e \in Executors, reserveCapacity(c, e) PROVE Goal
    BY <2>3, ReserveStep DEF Goal
  <2>4. ASSUME NEW e \in Executors, reserveRefused(c, e) PROVE Goal
    <3>1. CASE cand[c] = {e}
      BY <1>2, <2>4, <3>1 DEF reserveRefused
    <3>2. CASE cand[c] # {e}
      <4>1. /\ pc' \in [Calls -> Pcs] /\ pc'[c] = "reserve" /\ UNCHANGED redisVars
            /\ \A d \in Calls \ {c} : pc'[d] = pc[d] /\ exec'[d] = exec[d]
        BY <2>4, <3>2 DEF reserveRefused
      <4> QED BY <1>1, <4>1
    <3> QED BY <3>1, <3>2
  <2>5. ASSUME NEW e \in Executors, reserveThrows(c, e) PROVE Goal
    <3>1. CASE UNCHANGED redisVars
      BY <1>2, <2>5, <3>1 DEF reserveThrows
    <3>2. CASE HasRoom(c, e) /\ TakePlace(c, e)
      <4>0. EndCall(c) /\ HasRoom(c, e)
        BY <2>5, <3>2 DEF reserveThrows
      <4>1. \A f \in Executors : OnExecutor(f)' \subseteq OnExecutor(f)
        BY <4>0 DEF EndCall, OnExecutor
      <4>2. \A o \in Orgs : InOrg(o)' \subseteq InOrg(o)
        BY <4>0 DEF EndCall, InOrg
      <4>3. \A f \in Executors : execCount'[f] \in {execCount[f], execCount[f] + 1}
                                  /\ execCount'[f] <= MaxInFlight[f]
        BY <3>2, <4>0 DEF TakePlace, HasRoom, ExecInv
      <4>4. \A o \in Orgs : orgCount'[o] \in {orgCount[o], orgCount[o] + 1}
                             /\ orgCount'[o] <= OrgMax[o]
        BY <3>2, <4>0 DEF TakePlace, HasRoom, OrgInv
      <4> QED BY <4>1, <4>2, <4>3, <4>4, QuietStep DEF Goal
    <3> QED BY <2>5, <3>1, <3>2 DEF reserveThrows
  <2>6. CASE releaseExecutor(c)
    BY <2>6, ReleaseExecutorStep DEF Goal
  <2>7. CASE releaseOrg(c)
    BY <2>7, ReleaseOrgStep DEF Goal
  <2>8. CASE releaseFails(c)
    <3>1. CASE pc[c] = "work"
      <4>1. /\ pc' \in [Calls -> Pcs] /\ pc'[c] = "releaseOrg" /\ UNCHANGED redisVars
            /\ \A d \in Calls \ {c} : pc'[d] = pc[d] /\ exec'[d] = exec[d]
        BY <2>8, <3>1 DEF releaseFails
      <4> QED BY <1>1, <3>1, <4>1
    <3>2. CASE pc[c] # "work"
      BY <1>2, <2>8, <3>2 DEF releaseFails
    <3> QED BY <3>1, <3>2
  <2>9. CASE BrainCrash(c)
    BY <1>2, <2>9 DEF BrainCrash
  <2> QED BY <1>3, <2>1, <2>2, <2>3, <2>4, <2>5, <2>6, <2>7, <2>8, <2>9 DEF CallStep
\* A key expires when nobody holds a place it counts.
<1>4. ASSUME UNCHANGED callVars
      PROVE  /\ \A e \in Executors : OnExecutor(e)' = OnExecutor(e)
             /\ \A o \in Orgs : InOrg(o)' = InOrg(o)
  BY <1>4 DEF callVars, OnExecutor, InOrg
<1>5. ASSUME NEW f \in Executors, ExpireExecutorKey(f) PROVE Goal
  <2>0. /\ execCount' = [execCount EXCEPT ![f] = 0] /\ orgCount' = orgCount
        /\ OnExecutor(f) = {} /\ UNCHANGED callVars
    BY <1>5 DEF ExpireExecutorKey
  <2>1. ASSUME NEW e \in Executors PROVE ExecOk(e)'
    <3>1. CASE e = f
      <4>1. OnExecutor(e)' = {}
        BY <1>4, <2>0, <3>1
      <4>2. Cardinality(OnExecutor(e)') = 0
        BY <4>1, NoneHeld
      <4>3. execCount'[e] = 0 /\ 0 <= MaxInFlight[e]
        BY <2>0, <3>1 DEF CapacityInv, TypeOK
      <4> QED BY <4>2, <4>3 DEF ExecOk
    <3>2. CASE e # f
      BY <1>4, <2>0, <3>2 DEF ExecOk, CapacityInv, ExecInv, TypeOK
    <3> QED BY <3>1, <3>2
  <2>2. \A o \in Orgs : OrgOk(o)'
    BY <1>4, <2>0 DEF OrgOk, CapacityInv, OrgInv
  <2> QED BY <2>1, <2>2 DEF Goal
<1>6. ASSUME NEW p \in Orgs, ExpireOrgKey(p) PROVE Goal
  <2>0. /\ orgCount' = [orgCount EXCEPT ![p] = 0] /\ execCount' = execCount
        /\ InOrg(p) = {} /\ UNCHANGED callVars
    BY <1>6 DEF ExpireOrgKey
  <2>1. ASSUME NEW o \in Orgs PROVE OrgOk(o)'
    <3>1. CASE o = p
      <4>1. InOrg(o)' = {}
        BY <1>4, <2>0, <3>1
      <4>2. Cardinality(InOrg(o)') = 0
        BY <4>1, NoneHeld
      <4>3. orgCount'[o] = 0 /\ 0 <= OrgMax[o]
        BY <2>0, <3>1 DEF CapacityInv, TypeOK
      <4> QED BY <4>2, <4>3 DEF OrgOk
    <3>2. CASE o # p
      BY <1>4, <2>0, <3>2 DEF OrgOk, CapacityInv, OrgInv, TypeOK
    <3> QED BY <3>1, <3>2
  <2>2. \A e \in Executors : ExecOk(e)'
    BY <1>4, <2>0 DEF ExecOk, CapacityInv, ExecInv
  <2> QED BY <2>1, <2>2 DEF Goal
<1>7. ASSUME UNCHANGED vars PROVE Goal
  <2>1. UNCHANGED callVars /\ UNCHANGED <<execCount, orgCount>>
    BY <1>7 DEF vars, redisVars
  <2> QED BY <1>4, <2>1 DEF Goal, ExecOk, OrgOk, CapacityInv, ExecInv, OrgInv
<1>8. Goal
  BY <1>3, <1>5, <1>6, <1>7, Zenon DEF Next
<1> QED BY <1>8 DEF Goal

\* The initial counters are 0 and nobody holds a place.
LEMMA InitCapacity == Init => CapacityInv
<1> SUFFICES ASSUME Init PROVE CapacityInv
  OBVIOUS
<1> USE CallAssumption, LimitAssumption DEF Init
<1>1. TypeOK /\ HolderInv
  BY DEF TypeOK, HolderInv, Pcs
<1>2. (\A e \in Executors : OnExecutor(e) = {}) /\ (\A o \in Orgs : InOrg(o) = {})
  BY DEF OnExecutor, InOrg
<1>3. ExecInv /\ OrgInv
  <2>1. \A e \in Executors : Cardinality(OnExecutor(e)) = 0
    BY <1>2, NoneHeld
  <2>2. \A o \in Orgs : Cardinality(InOrg(o)) = 0
    BY <1>2, NoneHeld
  <2> QED BY <2>1, <2>2 DEF ExecInv, OrgInv
<1> QED BY <1>1, <1>3 DEF CapacityInv

\* The variables keep their types.
THEOREM CapacityTypeCorrect == Spec => []TypeOK
<1>1. Init => TypeOK /\ HolderInv
  BY InitCapacity DEF CapacityInv
<1>2. TypeOK /\ HolderInv /\ [Next]_vars => (TypeOK /\ HolderInv)'
  BY TypeStep
<1> QED BY <1>1, <1>2, PTL DEF Spec

\* If no call outlasts the counters' time to live, the counters bound the
\* places held.
THEOREM CapacityInvariant == ASSUME ~LongCalls PROVE Spec => []CapacityInv
<1>1. Init => CapacityInv
  BY InitCapacity
<1>2. CapacityInv /\ [Next]_vars => CapacityInv'
  <2> SUFFICES ASSUME CapacityInv, [Next]_vars PROVE CapacityInv'
    OBVIOUS
  <2>1. TypeOK' /\ HolderInv'
    BY TypeStep DEF CapacityInv
  <2>2. (\A e \in Executors : ExecOk(e)') /\ (\A o \in Orgs : OrgOk(o)')
    BY <2>1, CountStep
  <2>3. ExecInv' /\ OrgInv'
    BY <2>2 DEF ExecOk, OrgOk, ExecInv, OrgInv
  <2> QED BY <2>1, <2>3 DEF CapacityInv
<1> QED BY <1>1, <1>2, PTL DEF Spec

\* No executor works on more calls than its maxInFlight (reserveLua,
\* releaseCapacity).
THEOREM ExecutorLimit == ASSUME ~LongCalls PROVE Spec => []ExecutorLimitKept
<1>1. CapacityInv => ExecutorLimitKept
  <2> SUFFICES ASSUME CapacityInv, NEW e \in Executors
               PROVE  Cardinality(OnExecutor(e)) <= MaxInFlight[e]
    BY DEF ExecutorLimitKept
  <2>1. OnExecutor(e) \in SUBSET Calls
    BY DEF OnExecutor
  <2> QED BY <2>1, FiniteCalls, LimitAssumption DEF CapacityInv, ExecInv, TypeOK
<1> QED BY <1>1, CapacityInvariant, PTL

\* No organization has more calls in flight than its quota, over all brains
\* and executors.
THEOREM OrgQuota == ASSUME ~LongCalls PROVE Spec => []OrgQuotaKept
<1>1. CapacityInv => OrgQuotaKept
  <2> SUFFICES ASSUME CapacityInv, NEW o \in Orgs
               PROVE  Cardinality(InOrg(o)) <= OrgMax[o]
    BY DEF OrgQuotaKept
  <2>1. InOrg(o) \in SUBSET Calls
    BY DEF InOrg
  <2> QED BY <2>1, FiniteCalls, LimitAssumption DEF CapacityInv, OrgInv, TypeOK
<1> QED BY <1>1, CapacityInvariant, PTL
=============================================================================
