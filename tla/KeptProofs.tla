------------------------------- MODULE KeptProofs -------------------------------
(***************************************************************************)
(* A pairing token makes one executor, and an executor that was revoked    *)
(* and has left its sockets stays away, for any number of hosts, edges,    *)
(* requests that present the token and connections; and the heartbeats of  *)
(* one scheduler keep their distance.                                      *)
(***************************************************************************)
EXTENDS MCKept, FiniteSetTheorems, TLAPS

(* What TypeOK says of the tables, and of the sockets and routes.            *)
ApiTyped ==
    /\ token \in {"none", "fresh", "used", "expired"}
    /\ pairing \in [Requests -> {"idle", "checked", "consumed", "paired", "refused"}]
    /\ row \in [Hosts -> Row]
    /\ deleting \subseteq Hosts /\ paired \subseteq Hosts /\ admin \in 0..MaxAdmin
SocketsTyped == \E n \in Nat : sockets \in [1..n -> Socket]
RoutesTyped ==
    /\ upgrade \in [Hosts -> Edges \cup {None}]
    /\ greeting \in [DOMAIN sockets -> 0..MaxGreets] /\ overtook \subseteq DOMAIN sockets
    /\ executorsById \in [Edges -> [Hosts -> DOMAIN sockets \cup {None}]]
    /\ route \in [Hosts -> Route \cup {None}]

(* The request that consumed the token, before and after its executor exists. *)
Holds(p) == pairing[p] \in {"consumed", "paired"}
OneHolder == \A p, q \in Requests : Holds(p) /\ Holds(q) => p = q
UsedByHolder == \A p \in Requests : Holds(p) => token = "used"
PairedByHolder == paired # {} => \E p \in Requests : pairing[p] = "paired"
OnePaired == \A g, h \in paired : g = h

IInv ==
    /\ ApiTyped /\ SocketsTyped /\ RoutesTyped
    /\ OneHolder /\ UsedByHolder /\ PairedByHolder /\ OnePaired

Once == OneHolder /\ UsedByHolder /\ PairedByHolder /\ OnePaired

(* Nothing is there at first.                                                *)
LEMMA InitIInv == Init => IInv
<1> SUFFICES ASSUME Init PROVE IInv
  OBVIOUS
<1>1. sockets \in [1..0 -> Socket]
  BY DEF Init
<1>2. ApiTyped
  BY BoundsAssumption DEF Init, ApiTyped, Row, NoRow
<1>3. SocketsTyped
  BY <1>1 DEF SocketsTyped
<1>4. RoutesTyped
  BY <1>1 DEF Init, RoutesTyped
<1> QED
  BY <1>2, <1>3, <1>4 DEF Init, IInv, OneHolder, UsedByHolder, PairedByHolder, OnePaired, Holds

(* A request that only checks, is refused or fails holds nothing more than   *)
(* before, and whoever held the token's executor still does.                 *)
LEMMA PairingGoesOn ==
    ASSUME IInv, NEW p \in Requests, NEW to \in {"checked", "refused"},
           pairing[p] # "paired", pairing' = [pairing EXCEPT ![p] = to],
           UNCHANGED <<token, row, deleting, admin, paired, connVars>>
    PROVE  IInv'
<1>1. ApiTyped'
  BY DEF IInv, ApiTyped
<1>2. SocketsTyped' /\ RoutesTyped'
  BY DEF IInv, SocketsTyped, RoutesTyped, connVars
<1>3. Once'
  BY DEF IInv, ApiTyped, Once, OneHolder, UsedByHolder, PairedByHolder, OnePaired, Holds
<1> QED
  BY <1>1, <1>2, <1>3 DEF IInv, Once

(* A host's row changes, and nothing of the pairing.                         *)
LEMMA RowChanges ==
    ASSUME IInv, NEW h \in Hosts, NEW r \in Row, row' = [row EXCEPT ![h] = r],
           admin' \in 0..MaxAdmin, deleting' \subseteq Hosts,
           UNCHANGED <<token, pairing, paired, connVars>>
    PROVE  IInv'
<1>1. ApiTyped'
  BY DEF IInv, ApiTyped
<1>2. SocketsTyped' /\ RoutesTyped'
  BY DEF IInv, SocketsTyped, RoutesTyped, connVars
<1>3. Once'
  BY DEF IInv, Once, OneHolder, UsedByHolder, PairedByHolder, OnePaired, Holds
<1> QED
  BY <1>1, <1>2, <1>3 DEF IInv, Once

LEMMA ApiKeepsIInv == IInv /\ ApiStep => IInv'
<1> SUFFICES ASSUME IInv, ApiStep PROVE IInv'
  OBVIOUS
<1> USE BoundsAssumption
<1>0. ApiTyped
  BY DEF IInv
<1>1. CASE createExecutorPairingToken \/ TokenExpires
  <2>1. ApiTyped'
    BY <1>0, <1>1 DEF createExecutorPairingToken, TokenExpires, ApiTyped
  <2>2. SocketsTyped' /\ RoutesTyped'
    BY <1>1 DEF createExecutorPairingToken, TokenExpires, IInv, SocketsTyped, RoutesTyped, connVars
  <2>3. Once'
    BY <1>1 DEF createExecutorPairingToken, TokenExpires, IInv, Once, OneHolder, UsedByHolder,
                PairedByHolder, OnePaired, Holds
  <2> QED
    BY <2>1, <2>2, <2>3 DEF IInv, Once
<1>2. ASSUME NEW p \in Requests, PairCheck(p) PROVE IInv'
  BY <1>2, PairingGoesOn DEF PairCheck
<1>3. ASSUME NEW p \in Requests, createOrganizationExecutorFails(p) PROVE IInv'
  BY <1>3, PairingGoesOn DEF createOrganizationExecutorFails
<1>4. ASSUME NEW p \in Requests, consumeExecutorPairingToken(p) PROVE IInv'
  <2>1. CASE token # "fresh"
    BY <1>4, <2>1, PairingGoesOn DEF consumeExecutorPairingToken
  <2>2. CASE token = "fresh"
    <3>1. /\ token' = "used" /\ pairing' = [pairing EXCEPT ![p] = "consumed"]
          /\ UNCHANGED <<row, deleting, admin, paired, connVars>>
      BY <1>4, <2>2 DEF consumeExecutorPairingToken
    <3>2. \A q \in Requests : ~Holds(q)
      BY <2>2 DEF IInv, UsedByHolder
    <3>3. paired = {}
      BY <3>2 DEF IInv, PairedByHolder, Holds
    <3>4. ApiTyped'
      BY <1>0, <3>1 DEF ApiTyped
    <3>5. SocketsTyped' /\ RoutesTyped'
      BY <3>1 DEF IInv, SocketsTyped, RoutesTyped, connVars
    <3>6. Once'
      BY <1>0, <3>1, <3>2, <3>3 DEF ApiTyped, Once, OneHolder, UsedByHolder, PairedByHolder,
                                    OnePaired, Holds
    <3> QED
      BY <3>4, <3>5, <3>6 DEF IInv, Once
  <2> QED
    BY <2>1, <2>2
<1>5. ASSUME NEW p \in Requests, NEW h \in Hosts, createOrganizationExecutor(p, h) PROVE IInv'
  <2>1. /\ pairing[p] = "consumed" /\ row[h] \in Row
        /\ pairing' = [pairing EXCEPT ![p] = "paired"] /\ paired' = paired \cup {h}
        /\ row' = [row EXCEPT ![h] = [row[h] EXCEPT !.status = "active", !.prefixOk = TRUE]]
        /\ UNCHANGED <<token, deleting, admin, connVars>>
    BY <1>0, <1>5 DEF createOrganizationExecutor, ApiTyped, Row
  <2>2. \A q \in Requests : Holds(q) => q = p
    BY <2>1 DEF IInv, OneHolder, Holds
  <2>3. paired = {}
    BY <2>1, <2>2 DEF IInv, PairedByHolder, Holds
  <2>4. ApiTyped'
    BY <1>0, <2>1 DEF ApiTyped, Row
  <2>5. SocketsTyped' /\ RoutesTyped'
    BY <2>1 DEF IInv, SocketsTyped, RoutesTyped, connVars
  <2>6. Once'
    <3>1. \A q \in Requests : q # p => ~Holds(q)'
      BY <1>0, <2>1, <2>2 DEF ApiTyped, Holds
    <3>2. Holds(p) /\ pairing'[p] = "paired" /\ token = "used" /\ token' = "used"
      BY <1>0, <2>1 DEF ApiTyped, Holds, IInv, UsedByHolder
    <3> QED
      BY <2>1, <2>3, <3>1, <3>2 DEF Once, OneHolder, UsedByHolder, PairedByHolder, OnePaired
  <2> QED
    BY <2>4, <2>5, <2>6 DEF IInv, Once
<1>6. ASSUME NEW h \in Hosts, createManagedExecutor(h) PROVE IInv'
  <2>1. /\ row' = [row EXCEPT ![h] = [row[h] EXCEPT !.status = "active", !.prefixOk = FALSE]]
        /\ [row[h] EXCEPT !.status = "active", !.prefixOk = FALSE] \in Row
    BY <1>0, <1>6 DEF createManagedExecutor, ApiTyped, Row
  <2> QED
    BY <1>0, <1>6, <2>1, RowChanges DEF createManagedExecutor, ApiTyped
<1>7. ASSUME NEW h \in Hosts, revokeExecutor(h) PROVE IInv'
  <2>1. /\ row' = [row EXCEPT ![h] = [row[h] EXCEPT !.status = "revoked"]]
        /\ [row[h] EXCEPT !.status = "revoked"] \in Row /\ admin' \in 0..MaxAdmin
    BY <1>0, <1>7 DEF revokeExecutor, Admin, ApiTyped, Row
  <2> QED
    BY <1>0, <1>7, <2>1, RowChanges DEF revokeExecutor, ApiTyped
<1>8. ASSUME NEW h \in Hosts, NEW l \in Labels, setOrganizationExecutorLabels(h, l) PROVE IInv'
  <2>1. /\ row' = [row EXCEPT ![h] = [row[h] EXCEPT !.labels = l]]
        /\ [row[h] EXCEPT !.labels = l] \in Row /\ admin' \in 0..MaxAdmin
    BY <1>0, <1>8 DEF setOrganizationExecutorLabels, Admin, ApiTyped, Row
  <2> QED
    BY <1>0, <1>8, <2>1, RowChanges DEF setOrganizationExecutorLabels, ApiTyped
<1>9. ASSUME NEW h \in Hosts, deleteExecutorHandler(h) PROVE IInv'
  <2>1. /\ row' = [row EXCEPT ![h] = row[h]] /\ row[h] \in Row /\ admin' \in 0..MaxAdmin
        /\ deleting' \subseteq Hosts
    BY <1>0, <1>9 DEF deleteExecutorHandler, Admin, ApiTyped
  <2> QED
    BY <1>9, <2>1, RowChanges DEF deleteExecutorHandler
<1>10. ASSUME NEW h \in Hosts, deleteOrganizationExecutor(h) PROVE IInv'
  <2> DEFINE status == IF row[h].status = "revoked" THEN "deleted" ELSE row[h].status
  <2>1. /\ row' = [row EXCEPT ![h] = [row[h] EXCEPT !.status = status]]
        /\ [row[h] EXCEPT !.status = status] \in Row /\ deleting' \subseteq Hosts
    BY <1>0, <1>10 DEF deleteOrganizationExecutor, ApiTyped, Row
  <2> QED
    BY <1>0, <1>10, <2>1, RowChanges DEF deleteOrganizationExecutor, ApiTyped
<1> QED
  BY <1>1, <1>2, <1>3, <1>4, <1>5, <1>6, <1>7, <1>8, <1>9, <1>10 DEF ApiStep

(* The next socket's number, and what there is once it is there.             *)
LEMMA NewSocket ==
    ASSUME SocketsTyped, NEW h \in Hosts, upgrade[h] \in Edges, handleUpgrade(h)
    PROVE  \E n \in Nat :
              /\ DOMAIN sockets = 1..n /\ sockets' \in [1..(n + 1) -> Socket]
              /\ \A j \in 1..n : sockets'[j] = sockets[j]
              /\ sockets'[n + 1].host = h
              /\ greeting' = [j \in 1..(n + 1) |-> IF j < n + 1 THEN greeting[j] ELSE 0]
              /\ overtook' \subseteq overtook \cup {n + 1}
              /\ executorsById' = [executorsById EXCEPT ![upgrade[h]][h] = n + 1]
<1>1. PICK n \in Nat : sockets \in [1..n -> Socket]
  BY DEF SocketsTyped
<1>2. Cardinality(DOMAIN sockets) = n /\ DOMAIN sockets = 1..n
  BY <1>1, FS_Interval
<1>3. PICK l \in Labels :
          sockets' = [j \in 1..(n + 1) |-> IF j < n + 1 THEN sockets[j]
              ELSE [host |-> h, edge |-> upgrade[h], labels |-> l, agent |-> TRUE,
                    edgeSees |-> TRUE]]
  BY <1>2 DEF handleUpgrade
<1>4. /\ greeting' = [j \in 1..(n + 1) |-> IF j < n + 1 THEN greeting[j] ELSE 0]
      /\ overtook' \subseteq overtook \cup {n + 1}
      /\ executorsById' = [executorsById EXCEPT ![upgrade[h]][h] = n + 1]
  BY <1>2 DEF handleUpgrade
<1>5. sockets' \in [1..(n + 1) -> Socket]
  BY <1>1, <1>3 DEF Socket
<1>6. /\ \A j \in 1..n : sockets'[j] = sockets[j]
      /\ sockets'[n + 1].host = h
  BY <1>3
<1> QED
  BY <1>2, <1>4, <1>5, <1>6

(* Sockets that only open or close keep their numbers, hosts and edges.      *)
LEMMA ConnKeepsIInv ==
    ASSUME IInv, UNCHANGED apiVars, SocketsTyped', RoutesTyped'
    PROVE  IInv'
<1>1. ApiTyped'
  BY DEF IInv, ApiTyped, apiVars
<1>2. Once'
  BY DEF IInv, Once, OneHolder, UsedByHolder, PairedByHolder, OnePaired, Holds, apiVars
<1> QED
  BY <1>1, <1>2 DEF IInv, Once

LEMMA NextIInv == IInv /\ [Next]_vars => IInv'
<1> SUFFICES ASSUME IInv, [Next]_vars PROVE IInv'
  OBVIOUS
<1>0. SocketsTyped /\ RoutesTyped /\ ApiTyped
  BY DEF IInv
<1>1. PICK n \in Nat : sockets \in [1..n -> Socket]
  BY <1>0 DEF SocketsTyped
<1>2. CASE ApiStep
  BY <1>2, ApiKeepsIInv
<1>3. ASSUME NEW h \in Hosts, NEW g \in Edges, Dial(h, g) PROVE IInv'
  <2>1. SocketsTyped' /\ RoutesTyped' /\ UNCHANGED apiVars
    BY <1>0, <1>3 DEF Dial, SocketsTyped, RoutesTyped
  <2> QED
    BY <2>1, ConnKeepsIInv
<1>4. ASSUME NEW h \in Hosts, handleUpgrade(h) PROVE IInv'
  <2>1. upgrade[h] \in Edges
    BY <1>0, <1>4 DEF handleUpgrade, RoutesTyped
  <2>2. PICK m \in Nat : /\ DOMAIN sockets = 1..m /\ sockets' \in [1..(m + 1) -> Socket]
                         /\ greeting' = [j \in 1..(m + 1) |-> IF j < m + 1 THEN greeting[j] ELSE 0]
                         /\ overtook' \subseteq overtook \cup {m + 1}
                         /\ executorsById' = [executorsById EXCEPT ![upgrade[h]][h] = m + 1]
    BY <1>0, <1>4, <2>1, NewSocket
  <2>3. SocketsTyped'
    BY <2>2 DEF SocketsTyped
  <2>4. executorsById' \in [Edges -> [Hosts -> DOMAIN sockets' \cup {None}]]
    BY <1>0, <2>1, <2>2 DEF RoutesTyped
  <2>5. upgrade' \in [Hosts -> Edges \cup {None}]
    BY <1>0, <1>4 DEF handleUpgrade, RoutesTyped
  <2>6. route' \in [Hosts -> Route \cup {None}]
    BY <1>0, <1>4, <2>1 DEF handleUpgrade, writeExecutorRoute, RoutesTyped, ApiTyped, Row, Route
  <2>7. greeting' \in [DOMAIN sockets' -> 0..MaxGreets] /\ overtook' \subseteq DOMAIN sockets'
    BY <1>0, <2>2, BoundsAssumption DEF RoutesTyped
  <2> QED
    BY <1>4, <2>3, <2>4, <2>5, <2>6, <2>7, ConnKeepsIInv DEF RoutesTyped, handleUpgrade
<1>5. ASSUME NEW i \in DOMAIN sockets, hello(i) PROVE IInv'
  <2>1. greeting[i] \in 0..MaxGreets /\ greeting[i] < MaxGreets
    BY <1>0, <1>5 DEF hello, RoutesTyped
  <2>2. greeting' \in [DOMAIN sockets -> 0..MaxGreets]
    BY <1>0, <1>5, <2>1, BoundsAssumption DEF hello, RoutesTyped
  <2>3. SocketsTyped' /\ RoutesTyped' /\ UNCHANGED apiVars
    BY <1>0, <1>5, <2>2 DEF hello, SocketsTyped, RoutesTyped
  <2> QED
    BY <2>3, ConnKeepsIInv
<1>11. ASSUME NEW h \in Hosts, NEW i \in SocketsOf(h), helloWrites(i) PROVE IInv'
  <2>1. i \in 1..n /\ sockets[i] \in Socket /\ i \in DOMAIN sockets
    BY <1>1 DEF SocketsOf
  <2>2. greeting[i] \in 0..MaxGreets /\ greeting[i] > 0
    BY <1>0, <1>11, <2>1 DEF helloWrites, RoutesTyped
  <2>3. greeting' \in [DOMAIN sockets -> 0..MaxGreets]
    <3>1. greeting[i] - 1 \in 0..MaxGreets
      BY <2>2, BoundsAssumption
    <3> QED
      BY <1>0, <1>11, <3>1 DEF helloWrites, RoutesTyped
  <2>4. route' \in [Hosts -> Route \cup {None}]
    BY <1>0, <1>11, <2>1 DEF helloWrites, writeExecutorRoute, RoutesTyped, Socket, Route
  <2>5. SocketsTyped' /\ RoutesTyped' /\ UNCHANGED apiVars
    BY <1>0, <1>11, <2>3, <2>4 DEF helloWrites, SocketsTyped, RoutesTyped
  <2> QED
    BY <2>5, ConnKeepsIInv
<1>6. ASSUME NEW i \in DOMAIN sockets, SocketCloses(i) PROVE IInv'
  <2>1. i \in 1..n /\ sockets[i] \in Socket
    BY <1>1
  <2>2. sockets' \in [1..n -> Socket]
    BY <1>1, <1>6, <2>1 DEF SocketCloses, Socket
  <2>3. RoutesTyped' /\ UNCHANGED apiVars
    BY <1>0, <1>1, <1>6, <2>1, <2>2 DEF SocketCloses, RoutesTyped, Socket
  <2> QED
    BY <2>2, <2>3, ConnKeepsIInv DEF SocketsTyped
<1>7. ASSUME NEW i \in DOMAIN sockets, ConnectionLost(i) PROVE IInv'
  <2>1. sockets' \in [1..n -> Socket]
    BY <1>1, <1>7 DEF ConnectionLost, Socket
  <2>2. RoutesTyped' /\ UNCHANGED apiVars
    BY <1>0, <1>1, <1>7, <2>1 DEF ConnectionLost, RoutesTyped
  <2> QED
    BY <2>1, <2>2, ConnKeepsIInv DEF SocketsTyped
<1>8. ASSUME NEW h \in Hosts, RouteExpires(h) PROVE IInv'
  <2>1. SocketsTyped' /\ RoutesTyped' /\ UNCHANGED apiVars
    BY <1>0, <1>8 DEF RouteExpires, SocketsTyped, RoutesTyped
  <2> QED
    BY <2>1, ConnKeepsIInv
<1>10. ASSUME NEW h \in Hosts, NEW g \in Edges, SendFails(g, h) PROVE IInv'
  <2>1. SocketsTyped' /\ UNCHANGED apiVars
    BY <1>0, <1>10 DEF SendFails, SocketsTyped
  <2>2. RoutesTyped'
    BY <1>0, <1>10 DEF SendFails, RoutesTyped
  <2> QED
    BY <2>1, <2>2, ConnKeepsIInv
<1>9. CASE UNCHANGED vars
  <2>1. SocketsTyped' /\ RoutesTyped' /\ UNCHANGED apiVars
    BY <1>0, <1>9 DEF vars, connVars, SocketsTyped, RoutesTyped
  <2> QED
    BY <2>1, ConnKeepsIInv
<1> QED
  BY <1>2, <1>3, <1>4, <1>5, <1>6, <1>7, <1>8, <1>9, <1>10, <1>11
     DEF Next, AgentStep, Greets, EdgeCloses, OpenAtAgent, SocketsOf

-----------------------------------------------------------------------------
(* The tables, the sockets and the routes have their types.                  *)
THEOREM TypeCorrect == Spec => []TypeOK
<1>1. IInv => TypeOK
  <2> SUFFICES ASSUME IInv PROVE TypeOK
    OBVIOUS
  <2>1. PICK n \in Nat : sockets \in [1..n -> Socket]
    BY DEF IInv, SocketsTyped
  <2>2. Cardinality(DOMAIN sockets) = n /\ DOMAIN sockets = 1..n
    BY <2>1, FS_Interval
  <2> QED
    BY <2>1, <2>2 DEF IInv, ApiTyped, RoutesTyped, TypeOK
<1> QED
  BY <1>1, InitIInv, NextIInv, PTL DEF Spec

(* A pairing token makes one executor at most, however many requests present *)
(* it at a time (pairExecutorHandler and the update that consumes it).       *)
THEOREM OneExecutorPerToken == Spec => []TokenPairsOnce
<1>1. IInv => TokenPairsOnce
  <2> SUFFICES ASSUME OnePaired PROVE Cardinality(paired) <= 1
    BY DEF IInv, TokenPairsOnce
  <2>1. CASE paired = {}
    BY <2>1, FS_EmptySet
  <2>2. ASSUME NEW h \in paired PROVE Cardinality(paired) <= 1
    <3>1. paired = {h}
      BY DEF OnePaired
    <3> QED
      BY <3>1, FS_Singleton
  <2> QED
    BY <2>1, <2>2
<1> QED
  BY <1>1, InitIInv, NextIInv, PTL DEF Spec

-----------------------------------------------------------------------------
(* What a step leaves of an executor that is away.                           *)
Stays(h) == Away(h)' /\ OnlyTheWaitingWrite(h)

(* Nothing of its sockets, its route and its handlers changes.               *)
LEMMA StaysAsItIs ==
    ASSUME IInv, NEW h \in Hosts, Away(h), row'[h].status \in {"revoked", "deleted"},
           UNCHANGED connVars
    PROVE  Stays(h)
<1>1. \A i \in SocketsOf(h) : greeting[i] \in 0..MaxGreets
  BY DEF IInv, RoutesTyped, SocketsOf
<1> QED
  BY <1>1, BoundsAssumption DEF Stays, Away, OnlyTheWaitingWrite, SocketsOf, OpenAtAgent,
                                OpenAtEdge, connVars

(* The API changes a revoked row's labels, or deletes it; no request pairs or *)
(* issues an executor that is there.                                         *)
LEMMA ApiLeavesAway ==
    ASSUME IInv, ApiStep, NEW h \in Hosts, Away(h)
    PROVE  Stays(h)
<1> DEFINE Gone == row'[h].status \in {"revoked", "deleted"} /\ UNCHANGED connVars
<1>1. row \in [Hosts -> Row] /\ row[h].status \in {"revoked", "deleted"}
  BY DEF IInv, ApiTyped, Away
<1>2. CASE createExecutorPairingToken \/ TokenExpires
  BY <1>1, <1>2, StaysAsItIs DEF createExecutorPairingToken, TokenExpires
<1>3. ASSUME NEW p \in Requests,
             \/ PairCheck(p) \/ consumeExecutorPairingToken(p)
             \/ createOrganizationExecutorFails(p)
      PROVE  Stays(h)
  BY <1>1, <1>3, StaysAsItIs
     DEF PairCheck, consumeExecutorPairingToken, createOrganizationExecutorFails
<1>5. ASSUME NEW p \in Requests, NEW k \in Hosts, createOrganizationExecutor(p, k) PROVE Stays(h)
  <2>1. Gone
    BY <1>1, <1>5 DEF createOrganizationExecutor
  <2> QED
    BY <2>1, StaysAsItIs
<1>6. ASSUME NEW k \in Hosts, createManagedExecutor(k) PROVE Stays(h)
  <2>1. Gone
    BY <1>1, <1>6 DEF createManagedExecutor
  <2> QED
    BY <2>1, StaysAsItIs
<1>7. ASSUME NEW k \in Hosts, revokeExecutor(k) \/ deleteExecutorHandler(k) PROVE Stays(h)
  <2>1. Gone
    BY <1>1, <1>7 DEF revokeExecutor, deleteExecutorHandler, Row
  <2> QED
    BY <2>1, StaysAsItIs
<1>8. ASSUME NEW k \in Hosts, deleteOrganizationExecutor(k) PROVE Stays(h)
  <2>1. Gone
    BY <1>1, <1>8 DEF deleteOrganizationExecutor, Row
  <2> QED
    BY <2>1, StaysAsItIs
<1>9. ASSUME NEW k \in Hosts, NEW l \in Labels, setOrganizationExecutorLabels(k, l) PROVE Stays(h)
  <2>1. Gone
    BY <1>1, <1>9 DEF setOrganizationExecutorLabels, Row
  <2> QED
    BY <2>1, StaysAsItIs
<1> QED
  BY <1>2, <1>3, <1>5, <1>6, <1>7, <1>8, <1>9 DEF ApiStep

(* Its route is not written, its handlers do not begin, and its sockets stay *)
(* closed.                                                                   *)
LEMMA StaysClosed ==
    ASSUME NEW h \in Hosts, Away(h), UNCHANGED apiVars,
           upgrade'[h] = None, OpenAtAgent(h)' = {}, OpenAtEdge(h)' = {},
           route[h] = None => route'[h] = None,
           \A i \in SocketsOf(h) : greeting'[i] <= greeting[i]
    PROVE  Stays(h)
  BY DEF Stays, Away, OnlyTheWaitingWrite, apiVars

(* Another executor's socket, handler or close is not its own; and of its    *)
(* own only a handler that waits writes, which is then done.                 *)
LEMMA NextLeavesAway ==
    ASSUME IInv, [Next]_vars, NEW h \in Hosts, Away(h)
    PROVE  Stays(h)
<1>0. /\ SocketsTyped /\ RoutesTyped /\ row[h].status \in {"revoked", "deleted"}
      /\ OpenAtAgent(h) = {} /\ OpenAtEdge(h) = {} /\ upgrade[h] = None
  BY DEF IInv, Away
<1>1. PICK n \in Nat : sockets \in [1..n -> Socket]
  BY <1>0 DEF SocketsTyped
<1>g. \A i \in 1..n : greeting[i] \in 0..MaxGreets
  BY <1>0, <1>1 DEF RoutesTyped
<1>c. \A i \in 1..n : sockets[i].host = h => ~sockets[i].agent /\ ~sockets[i].edgeSees
  BY <1>0, <1>1 DEF OpenAtAgent, OpenAtEdge, SocketsOf
<1>k. SocketsOf(h) \subseteq 1..n
  BY <1>1 DEF SocketsOf
<1> USE BoundsAssumption
<1>2. CASE ApiStep
  BY <1>2, ApiLeavesAway
<1>3. ASSUME NEW k \in Hosts, NEW g \in Edges, Dial(k, g) PROVE Stays(h)
  <2>1. k # h /\ UNCHANGED <<apiVars, sockets, greeting, executorsById, route>>
    BY <1>0, <1>3 DEF Dial, authenticates, Active
  <2>2. upgrade'[h] = None
    BY <1>0, <1>3, <2>1 DEF Dial, RoutesTyped
  <2>3. OpenAtAgent(h)' = {} /\ OpenAtEdge(h)' = {}
    BY <1>0, <2>1 DEF OpenAtAgent, OpenAtEdge, SocketsOf
  <2>4. \A i \in SocketsOf(h) : greeting'[i] <= greeting[i]
    BY <1>g, <1>k, <2>1
  <2> QED
    BY <2>1, <2>2, <2>3, <2>4, StaysClosed
<1>4. ASSUME NEW k \in Hosts, handleUpgrade(k) PROVE Stays(h)
  <2>1. k # h /\ upgrade[k] \in Edges
    BY <1>0, <1>4 DEF handleUpgrade, RoutesTyped
  <2>2. PICK m \in Nat : /\ DOMAIN sockets = 1..m /\ sockets' \in [1..(m + 1) -> Socket]
                         /\ \A j \in 1..m : sockets'[j] = sockets[j]
                         /\ sockets'[m + 1].host = k
                         /\ greeting' = [j \in 1..(m + 1) |-> IF j < m + 1 THEN greeting[j] ELSE 0]
    BY <1>0, <1>4, <2>1, NewSocket
  <2>3. OpenAtAgent(h)' = {} /\ OpenAtEdge(h)' = {}
    BY <1>0, <2>1, <2>2 DEF OpenAtAgent, OpenAtEdge, SocketsOf
  <2>4. upgrade'[h] = None /\ route'[h] = route[h] /\ UNCHANGED apiVars
    BY <1>0, <1>4, <2>1 DEF handleUpgrade, writeExecutorRoute, RoutesTyped
  <2>5. \A i \in SocketsOf(h) : greeting'[i] <= greeting[i]
    BY <1>1, <1>g, <1>k, <2>2
  <2> QED
    BY <2>3, <2>4, <2>5, StaysClosed
<1>5. ASSUME NEW i \in DOMAIN sockets, hello(i) PROVE Stays(h)
  <2>1. i \in 1..n /\ sockets[i].host # h /\ UNCHANGED <<apiVars, sockets, upgrade, route>>
    BY <1>1, <1>c, <1>5 DEF hello
  <2>2. \A j \in SocketsOf(h) : greeting'[j] = greeting[j]
    BY <1>0, <1>1, <1>5, <2>1 DEF hello, RoutesTyped, SocketsOf
  <2>3. OpenAtAgent(h)' = {} /\ OpenAtEdge(h)' = {}
    BY <1>0, <2>1 DEF OpenAtAgent, OpenAtEdge, SocketsOf
  <2>4. \A j \in SocketsOf(h) : greeting'[j] <= greeting[j]
    BY <1>g, <1>k, <2>2
  <2> QED
    BY <1>0, <2>1, <2>3, <2>4, StaysClosed
<1>11. ASSUME NEW k \in Hosts, NEW i \in SocketsOf(k), helloWrites(i) PROVE Stays(h)
  <2>1. i \in 1..n /\ sockets[i].host = k /\ UNCHANGED <<apiVars, sockets, upgrade>>
    BY <1>1, <1>11 DEF helloWrites, SocketsOf
  <2>2. OpenAtAgent(h)' = {} /\ OpenAtEdge(h)' = {}
    BY <1>0, <2>1 DEF OpenAtAgent, OpenAtEdge, SocketsOf
  <2>3. /\ \A j \in 1..n : greeting'[j] = IF j = i THEN greeting[i] - 1 ELSE greeting[j]
        /\ greeting[i] > 0
    BY <1>0, <1>1, <1>11, <2>1 DEF helloWrites, RoutesTyped
  <2>4. \A j \in SocketsOf(h) : greeting'[j] <= greeting[j]
    BY <1>g, <1>k, <2>1, <2>3
  <2>5. CASE k = h
    <3>1. i \in SocketsOf(h) /\ greeting'[i] < greeting[i]
      BY <1>g, <1>11, <2>1, <2>3, <2>5
    <3> QED
      BY <1>0, <2>1, <2>2, <2>4, <3>1 DEF Stays, Away, OnlyTheWaitingWrite, apiVars
  <2>6. CASE k # h
    <3>1. route'[h] = route[h]
      BY <1>0, <1>11, <2>1, <2>6 DEF helloWrites, writeExecutorRoute, RoutesTyped
    <3> QED
      BY <1>0, <2>1, <2>2, <2>4, <3>1, StaysClosed
  <2> QED
    BY <2>5, <2>6
<1>6. ASSUME NEW i \in DOMAIN sockets, SocketCloses(i) PROVE Stays(h)
  <2>1. i \in 1..n /\ sockets[i] \in Socket /\ sockets[i].host # h
    BY <1>1, <1>c, <1>6 DEF SocketCloses
  <2>2. OpenAtAgent(h)' = {} /\ OpenAtEdge(h)' = {}
    BY <1>0, <1>1, <1>6, <2>1 DEF SocketCloses, OpenAtAgent, OpenAtEdge, SocketsOf, Socket
  <2>3. route'[h] = route[h] /\ UNCHANGED <<apiVars, upgrade, greeting>>
    BY <1>0, <1>6, <2>1 DEF SocketCloses, RoutesTyped, Socket
  <2>4. \A j \in SocketsOf(h) : greeting'[j] <= greeting[j]
    BY <1>g, <1>k, <2>3
  <2> QED
    BY <1>0, <2>2, <2>3, <2>4, StaysClosed
<1>7. ASSUME NEW i \in DOMAIN sockets, ConnectionLost(i) PROVE Stays(h)
  <2>1. i \in 1..n /\ sockets[i] \in Socket /\ sockets[i].host # h
    BY <1>1, <1>c, <1>7 DEF ConnectionLost
  <2>2. OpenAtAgent(h)' = {} /\ OpenAtEdge(h)' = {}
    BY <1>0, <1>1, <1>7, <2>1 DEF ConnectionLost, OpenAtAgent, OpenAtEdge, SocketsOf, Socket
  <2>3. UNCHANGED <<apiVars, upgrade, greeting, route>>
    BY <1>7 DEF ConnectionLost
  <2>4. \A j \in SocketsOf(h) : greeting'[j] <= greeting[j]
    BY <1>g, <1>k, <2>3
  <2> QED
    BY <1>0, <2>2, <2>3, <2>4, StaysClosed
<1>8. ASSUME NEW k \in Hosts, RouteExpires(k) \/ \E g \in Edges : SendFails(g, k) PROVE Stays(h)
  <2>1. UNCHANGED <<apiVars, sockets, upgrade, greeting>>
    BY <1>8 DEF RouteExpires, SendFails
  <2>2. route[h] = None => route'[h] = None
    BY <1>0, <1>8 DEF RouteExpires, SendFails, RoutesTyped
  <2>3. OpenAtAgent(h)' = {} /\ OpenAtEdge(h)' = {}
    BY <1>0, <2>1 DEF OpenAtAgent, OpenAtEdge, SocketsOf
  <2>4. \A j \in SocketsOf(h) : greeting'[j] <= greeting[j]
    BY <1>g, <1>k, <2>1
  <2> QED
    BY <1>0, <2>1, <2>2, <2>3, <2>4, StaysClosed
<1>9. CASE UNCHANGED vars
  <2>1. row'[h].status \in {"revoked", "deleted"} /\ UNCHANGED connVars
    BY <1>0, <1>9 DEF vars, apiVars
  <2> QED
    BY <2>1, StaysAsItIs
<1> QED
  BY <1>2, <1>3, <1>4, <1>5, <1>6, <1>7, <1>8, <1>9, <1>11
     DEF Next, AgentStep, Greets, EdgeCloses, OpenAtAgent, SocketsOf

(* An executor that was revoked and has left its sockets gets no socket and  *)
(* begins no handler again, of any agent; its route comes back only by a     *)
(* handler that had waited for touchExecutor when the last socket closed.    *)
THEOREM RevokedAreAway == Spec => RevokedStaysAway
<1>1. IInv /\ [Next]_vars
      => [\A h \in Hosts : Away(h) => Away(h)' /\ OnlyTheWaitingWrite(h)]_vars
  BY NextLeavesAway DEF Stays
<1> QED
  BY <1>1, InitIInv, NextIInv, PTL DEF Spec, RevokedStaysAway

-----------------------------------------------------------------------------
(* The slots of one scheduler are those of TriggerScheduler, about which     *)
(* TriggerSchedulerProofs shows what holds.                                  *)
Kept == INSTANCE TriggerSchedulerProofs WITH
    Schedulers <- {scheduler}, now <- slotNow, type <- slotType, nextFireAt <- slotNextFireAt,
    run <- slotRun, jobs <- slotJobs, lastId <- slotLastId, started <- slotStarted, pc <- slotPc,
    tickAt <- slotTickAt, slot <- slotSlot, runId <- slotRunId, errors <- slotErrors,
    crashes <- slotCrashes

(* Both name the slots that may follow.                                      *)
LEMMA SameSlots ==
    /\ \A at : Slot!FirstSlots(at) = Kept!FirstSlots(at)
    /\ \A s, at : Slot!NextSlots(s, at) = Kept!NextSlots(s, at)
<1>1. ASSUME NEW S PROVE Slot!Min(S) = Kept!Min(S)
  BY DEF Slot!Min, Kept!Min
<1>2. ASSUME NEW t, NEW at PROVE Slot!nextCronFireAt(t, at) = Kept!nextCronFireAt(t, at)
  BY <1>1 DEF Slot!nextCronFireAt, Kept!nextCronFireAt
<1>3. ASSUME NEW t PROVE Slot!computeHeartbeatNextFireAt(t) = Kept!computeHeartbeatNextFireAt(t)
  BY DEF Slot!computeHeartbeatNextFireAt, Kept!computeHeartbeatNextFireAt
<1> QED
  BY <1>2, <1>3 DEF Slot!FirstSlots, Kept!FirstSlots, Slot!NextSlots, Kept!NextSlots

(* Both take the same steps.                                                 *)
LEMMA SameSteps == Slot!Next => Kept!Next
<1> USE DEF Slot!GoTo, Kept!GoTo, Slot!EndTick, Kept!EndTick, Slot!NoRun, Kept!NoRun,
            Slot!rowVars, Kept!rowVars, Slot!queueVars, Kept!queueVars, Slot!procVars,
            Kept!procVars, Slot!faultVars, Kept!faultVars, Slot!Times, Kept!Times
<1>1. ASSUME NEW p \in {scheduler}, Slot!listDueWorkflowTriggerSubscriptions(p)
      PROVE  Kept!listDueWorkflowTriggerSubscriptions(p)
  BY <1>1 DEF Slot!listDueWorkflowTriggerSubscriptions,
     Kept!listDueWorkflowTriggerSubscriptions
<1>2. ASSUME NEW p \in {scheduler}, Slot!ScheduleFirst(p)
      PROVE  Kept!ScheduleFirst(p)
  BY <1>2, SameSlots DEF Slot!ScheduleFirst,
     Kept!ScheduleFirst
<1>3. ASSUME NEW p \in {scheduler}, Slot!createWorkflowRun(p)
      PROVE  Kept!createWorkflowRun(p)
  BY <1>3 DEF Slot!createWorkflowRun,
     Kept!createWorkflowRun
<1>4. ASSUME NEW p \in {scheduler}, Slot!queueAdd(p)
      PROVE  Kept!queueAdd(p)
  BY <1>4 DEF Slot!queueAdd,
     Kept!queueAdd
<1>5. ASSUME NEW p \in {scheduler}, Slot!queueAddFails(p)
      PROVE  Kept!queueAddFails(p)
  BY <1>5 DEF Slot!queueAddFails,
     Kept!queueAddFails
<1>6. ASSUME NEW p \in {scheduler}, Slot!deleteQueuedWorkflowRun(p)
      PROVE  Kept!deleteQueuedWorkflowRun(p)
  BY <1>6 DEF Slot!deleteQueuedWorkflowRun,
     Kept!deleteQueuedWorkflowRun
<1>7. ASSUME NEW p \in {scheduler}, Slot!updateWorkflowTriggerSubscriptionSchedule(p)
      PROVE  Kept!updateWorkflowTriggerSubscriptionSchedule(p)
  BY <1>7, SameSlots DEF Slot!updateWorkflowTriggerSubscriptionSchedule,
     Kept!updateWorkflowTriggerSubscriptionSchedule
<1>8. ASSUME NEW p \in {scheduler}, Slot!TransactionFails(p)
      PROVE  Kept!TransactionFails(p)
  BY <1>8 DEF Slot!TransactionFails,
     Kept!TransactionFails
<1>9. ASSUME NEW p \in {scheduler}, Slot!SchedulerDies(p)
      PROVE  Kept!SchedulerDies(p)
  BY <1>9 DEF Slot!SchedulerDies,
     Kept!SchedulerDies
<1>10. ASSUME NEW i \in slotJobs, Slot!WorkerTakes(i) PROVE Kept!WorkerTakes(i)
  BY <1>10 DEF Slot!WorkerTakes, Kept!WorkerTakes
<1>11. ASSUME Slot!Clock PROVE Kept!Clock
  BY <1>11 DEF Slot!Clock, Kept!Clock
<1> QED
  BY <1>1, <1>2, <1>3, <1>4, <1>5, <1>6, <1>7, <1>8, <1>9, <1>10, <1>11
     DEF Slot!Next, Kept!Next, Slot!Process, Kept!Process

(* In every behaviour of one scheduler two heartbeats are an interval apart  *)
(* at least, for any interval, jitter, skew, failures and deaths             *)
(* (computeHeartbeatNextFireAt).                                             *)
THEOREM HeartbeatsStayApart == KeptSpec => []HeartbeatSpacing
<1>1. Kept!TriggerAssumption
  BY SlotsAssumption DEF Kept!TriggerAssumption
<1>2. Kept!Spec => []Kept!HeartbeatSpacing
  BY <1>1, Kept!HeartbeatsKeepDistance
<1>3. KeptInit => Kept!Init
  BY DEF KeptInit, Slot!Init, Kept!Init, Slot!NoRun, Kept!NoRun, Slot!Times, Kept!Times
<1>4. [KeptNext]_<<scene, slotVars, vars>> => [Kept!Next]_Kept!vars
  BY SameSteps DEF KeptNext, slotVars, Kept!vars, Kept!rowVars, Kept!queueVars, Kept!procVars,
                   Kept!faultVars
<1>5. Kept!HeartbeatSpacing => HeartbeatSpacing
  BY DEF Kept!HeartbeatSpacing, HeartbeatSpacing, Slot!HeartbeatSpacing, Slot!NoRun,
         Kept!NoRun, Slot!Times, Kept!Times
<1> QED
  BY <1>2, <1>3, <1>4, <1>5, PTL DEF KeptSpec, Kept!Spec
================================================================================
