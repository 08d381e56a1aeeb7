----------------------------- MODULE WorkProofs -----------------------------
(***************************************************************************)
(* For any number of calls, requests and executors: every version of the   *)
(* workspace has one call that committed it, a node told to have succeeded *)
(* has its work committed, and calls that follow one another without a     *)
(* fault lose nothing of it.  For any tasks, team and number of turns: the *)
(* history of an agent's loop tells its calls, and no call that is known   *)
(* runs again in its attempt.  For any graph: a run that succeeds has executed what its   *)
(* conditions allow, and the check finds every cycle.  For any messages    *)
(* and repeated calls: a channel routes a message once, loses none that it *)
(* says nothing of, and the replies through an edge keep their order.      *)
(***************************************************************************)
EXTENDS MCWork, FiniteSetTheorems, SequenceTheorems, WellFoundedInduction, TLAPS

(* How many versions there are.                                            *)

\* Where a call may still commit.
Before == {"posted", "select", "load", "create", "lock", "send", "wait"}

\* A task runs on the executor that was selected.
ExecInv ==
    \A c \in Calls :
        /\ pc[c] \in {"posted", "select"} => task[c] = "none"
        /\ pc[c] \in {"load", "create", "lock", "send", "wait"} \/ task[c] # "none"
              => exec[c] \in Executors

\* One commit, one version; a call that may still commit has not, so there is
\* a next version for the one that was read.
CountInv ==
    /\ row.version = Cardinality(committed)
    /\ \A c \in Calls : pc[c] \in Before => c \notin committed
    /\ \A c \in Calls : seen[c].version < Cardinality(Calls)

-----------------------------------------------------------------------------
(* What a success rests on.                                                *)

Ended(r) == \E c \in ended : requestOf[c] = r
Backed(r) == Ended(r) /\ \E c \in committed : requestOf[c] = r

\* A reply that brings a workspace is an executor's; a success without one,
\* wherever it is found, was put there after the commit.
BackedInv ==
    /\ \A r \in Requests :
          /\ reply[r].version > 0 => Ended(r)
          /\ reply[r].status = "succeeded" /\ reply[r].version = 0 => Backed(r)
          /\ results[r] = "succeeded" => Backed(r)
    /\ \A c \in Calls : response[c] = "succeeded" => Backed(requestOf[c])

-----------------------------------------------------------------------------
(* One call at a time.                                                     *)

Start == [version |-> 0, key |-> 0]
Calm == ~raced /\ faults = 0

\* A call that has not begun, or has left nothing behind.
Idle(c) ==
    \/ pc[c] = "posted" /\ task[c] = "none" /\ seen[c] = Start
    \/ pc[c] \in {"done", "dead"} /\ task[c] \in {"none", "gone"}

\* What holds of the row, its object and the copies of its version, and of
\* the versions to come: there are no directories of those.
Kept ==
    /\ ~row.made => row.version = 0
    /\ row.version = 0 => row.key = 0
    /\ row.version > 0 => committed \subseteq objects[row.key].work
    /\ \A e \in Executors : snapshot[e][row.version].there =>
          committed \subseteq snapshot[e][row.version].work
    /\ \A e \in Executors, v \in Versions : v > row.version => ~dir[e][v].there

\* The directories of the row's version, and the snapshots of later ones.
DirKept(e) == dir[e][row.version].there => committed \subseteq dir[e][row.version].work
NoneAhead(e) == \A v \in Versions : v > row.version => ~snapshot[e][v].there

Rest ==
    /\ \A c \in Calls : Idle(c)
    /\ Kept /\ \A e \in Executors : DirKept(e) /\ NoneAhead(e)
    /\ \A r \in Requests : results[r] = "none" => reply[r] = NoReply

\* The next version is packed, or uploaded too and not yet committed.
Packed(c) == pc[c] = "wait" /\ (task[c] = "upload" \/ reply[requestOf[c]].version > 0)

\* How far the task of the one call has come.
TaskInv(c) ==
    LET next == row.version + 1
        work == committed \cup {c}
    IN  /\ task[c] = "unpack" => row.version > 0
        /\ task[c] = "run" => committed \subseteq dir[exec[c]][row.version].work
        /\ task[c] = "snapshot" => work \subseteq dir[exec[c]][row.version].work
        /\ task[c] = "upload" => work \subseteq snapshot[exec[c]][next].work
        /\ pc[c] = "wait" /\ reply[requestOf[c]].version > 0 =>
              /\ reply[requestOf[c]].version = next /\ work \subseteq objects[next].work
        /\ Packed(c) => \A e \in Executors : snapshot[e][next].there =>
                                work \subseteq snapshot[e][next].work

\* Where its brain is.
BrainInv(c) ==
    /\ pc[c] \in {"select", "load", "create", "lock", "send", "wait", "unlock", "finish"}
    /\ pc[c] \in {"select", "load", "create"} => seen[c] = Start
    /\ pc[c] = "create" => ~row.made
    /\ pc[c] \in {"lock", "send", "wait"} =>
          /\ row.made /\ seen[c].version = row.version /\ seen[c].key = row.key
    /\ pc[c] \in {"load", "create", "lock", "send", "wait"} => exec[c] \in Executors
    /\ pc[c] \in {"select", "load", "create", "lock", "send"} => task[c] = "none"
    /\ pc[c] = "wait" => task[c] # "none"
    /\ pc[c] \in {"unlock", "finish"} => task[c] \in {"none", "gone"}
    /\ pc[c] \notin {"unlock", "finish"} => (reply[requestOf[c]] = NoReply <=> task[c] # "gone")

Busy(c) ==
    /\ BrainInv(c) /\ TaskInv(c) /\ Kept
    /\ \A d \in Calls \ {c} : Idle(d)
    /\ results[requestOf[c]] = "none"
    /\ \A r \in Requests \ {requestOf[c]} : results[r] = "none" => reply[r] = NoReply
    /\ \A e \in Executors : ~(task[c] = "unpack" /\ e = exec[c]) => DirKept(e)
    /\ \A e \in Executors, v \in Versions :
          v > row.version /\ snapshot[e][v].there => Packed(c) /\ v = row.version + 1

SequentialInv == Calm => Rest \/ \E c \in Calls : Busy(c)

-----------------------------------------------------------------------------
\* The versions are counted, and there is one after the version that was read.
LEMMA NextVersions ==
    ASSUME ToolAssumption, TypeOK, CountInv, NEW c \in Calls
    PROVE  /\ Cardinality(Calls) \in Nat /\ IsFiniteSet(committed)
           /\ row.version \in Versions /\ row.version \in Nat
           /\ seen[c].version \in Versions /\ seen[c].version \in Nat
           /\ seen[c].version + 1 \in Versions
           /\ c \notin committed =>
                 /\ row.version < Cardinality(Calls) /\ row.version + 1 \in Versions
                 /\ Cardinality(committed \cup {c}) = row.version + 1
<1>1. Cardinality(Calls) \in Nat /\ IsFiniteSet(committed)
  BY FS_CardinalityType, FS_Subset DEF ToolAssumption, TypeOK
<1>2. /\ row.version \in Versions /\ row.version \in Nat
      /\ seen[c].version \in Versions /\ seen[c].version \in Nat
      /\ seen[c].version + 1 \in Versions
  BY <1>1 DEF TypeOK, Row, Versions, CountInv
<1>3. ASSUME c \notin committed
      PROVE  /\ row.version < Cardinality(Calls) /\ row.version + 1 \in Versions
             /\ Cardinality(committed \cup {c}) = row.version + 1
  <2>1. Cardinality(committed \cup {c}) = Cardinality(committed) + 1
    BY <1>1, <1>3, FS_AddElement
  <2>2. committed \cup {c} \in SUBSET Calls
    BY DEF TypeOK
  <2>3. Cardinality(committed \cup {c}) <= Cardinality(Calls)
    BY <2>2, FS_Subset DEF ToolAssumption
  <2> QED BY <1>1, <1>2, <2>1, <2>3 DEF CountInv, Versions
<1> QED BY <1>1, <1>2, <1>3

LEMMA NoVersion == ASSUME ToolAssumption PROVE 0 \in Versions
BY FS_CardinalityType DEF ToolAssumption, Versions

\* What the brains and the edge write, and what the executors write.
BrainTypes ==
    /\ row \in Row /\ committed \subseteq Calls
    /\ pc \in [Calls -> {"posted", "select", "load", "create", "lock", "send", "wait",
                         "unlock", "finish", "done", "dead"}]
    /\ seen \in [Calls -> [version : Versions, key : Versions]]
    /\ exec \in [Calls -> Executors \cup {NoExecutor}]
    /\ response \in [Calls -> {"none", "succeeded", "failed"}]
    /\ results \in [Requests -> {"none", "succeeded", "failed"}]

TaskTypes ==
    /\ objects \in [Versions -> Content]
    /\ task \in [Calls -> {"none", "arrived", "unpack", "run", "snapshot", "upload", "gone"}]
    /\ verdict \in [Calls -> {"succeeded", "failed"}]
    /\ dir \in [Executors -> [Versions -> Content]]
    /\ snapshot \in [Executors -> [Versions -> Content]]
    /\ ended \subseteq Calls

SharedTypes ==
    /\ reply \in [Requests -> Reply]
    /\ raced \in BOOLEAN /\ faults \in 0..MaxFaults /\ requestOf \in Dispatches

\* The parts make the whole.
LEMMA AllTypes == TypeOK <=> BrainTypes /\ TaskTypes /\ SharedTypes
BY DEF TypeOK, BrainTypes, TaskTypes, SharedTypes

\* A fault is counted within its bound.
LEMMA FaultType ==
    ASSUME ToolAssumption, faults \in 0..MaxFaults, Fault PROVE faults' \in 0..MaxFaults
BY DEF ToolAssumption, Fault

\* The commit moves the row to the next version, or leaves it.
LEMMA Commits ==
    ASSUME ToolAssumption, TypeOK, CountInv, NEW c \in Calls, NEW v \in Versions,
           c \notin committed, commitExecutionWorkspaceVersion(c, v)
    PROVE  /\ row' \in Row /\ committed' \subseteq Calls
           /\ row'.version = Cardinality(committed')
           /\ committed' \subseteq committed \cup {c}
           /\ row.version = seen[c].version => c \in committed'
<1>1. CASE row.version = seen[c].version
  <2>1. /\ row' = [row EXCEPT !.version = @ + 1, !.key = v, !.lock = NoCall]
        /\ committed' = committed \cup {c}
    BY <1>1 DEF commitExecutionWorkspaceVersion
  <2>2. /\ row.version + 1 \in Versions
        /\ Cardinality(committed \cup {c}) = row.version + 1
    BY NextVersions
  <2> QED BY <2>1, <2>2 DEF TypeOK, Row
<1>2. CASE row.version # seen[c].version
  BY <1>2 DEF commitExecutionWorkspaceVersion, rowVars, TypeOK, CountInv
<1> QED BY <1>1, <1>2

\* A step of a brain or the edge that commits nothing and reads no row.
LEMMA QuietBrain ==
    ASSUME CountInv, BrainTypes, UNCHANGED <<committed, seen>>, row'.version = row.version,
           \A c \in Calls : pc'[c] \in Before => pc[c] \in Before
    PROVE  CountInv'
BY DEF CountInv

LEMMA BrainTyped ==
    ASSUME ToolAssumption, TypeOK, ExecInv, CountInv, NEW c \in Calls,
           dispatch(c) \/ BrainStep(c) \/ BrainDies(c)
    PROVE  TypeOK' /\ ExecInv' /\ CountInv'
<1> USE DEF At, GoTo, Respond, rowVars, brainVars, taskVars, faultVars
<1>0. requestOf[c] \in Requests
  BY DEF TypeOK, ToolAssumption
<1>1. CASE dispatch(c)
  <2>1a. BrainTypes'
    BY <1>1 DEF dispatch, TypeOK, BrainTypes
  <2>1b. TaskTypes' /\ SharedTypes'
    BY <1>1 DEF dispatch, TypeOK, TaskTypes, SharedTypes
  <2>1c. ExecInv'
    BY <1>1 DEF dispatch, TypeOK, ExecInv
  <2>1. TypeOK' /\ ExecInv'
    BY <2>1a, <2>1b, <2>1c DEF TypeOK, BrainTypes, TaskTypes, SharedTypes
  <2>2. CountInv'
    BY <1>1, AllTypes, QuietBrain DEF dispatch, BrainTypes, Before
  <2> QED BY <2>1, <2>2
<1>2. CASE selectExecutorForTool(c)
  <2>1a. BrainTypes'
    <3>1. /\ pc' = [pc EXCEPT ![c] = "load"] \/ pc' = [pc EXCEPT ![c] = "finish"]
          /\ UNCHANGED exec \/ \E e \in Executors : exec' = [exec EXCEPT ![c] = e]
          /\ UNCHANGED response \/ response' = [response EXCEPT ![c] = "failed"]
          /\ UNCHANGED <<row, committed, seen, results>>
      BY <1>2 DEF selectExecutorForTool
    <3>2. exec' \in [Calls -> Executors \cup {NoExecutor}]
      <4>1. exec \in [Calls -> Executors \cup {NoExecutor}]
        BY DEF TypeOK
      <4> QED BY <3>1, <4>1
    <3>3. response' \in [Calls -> {"none", "succeeded", "failed"}]
      BY <3>1 DEF TypeOK
    <3>4. pc' \in [Calls -> {"posted", "select", "load", "create", "lock", "send", "wait",
                            "unlock", "finish", "done", "dead"}]
      <4>1. CASE pc' = [pc EXCEPT ![c] = "load"]
        BY <4>1 DEF TypeOK
      <4>2. CASE pc' = [pc EXCEPT ![c] = "finish"]
        BY <4>2 DEF TypeOK
      <4> QED BY <3>1, <4>1, <4>2
    <3> QED BY <3>1, <3>2, <3>3, <3>4 DEF TypeOK, BrainTypes
  <2>1b. TaskTypes' /\ SharedTypes'
    BY <1>2 DEF selectExecutorForTool, TypeOK, TaskTypes, SharedTypes
  <2>1c. ExecInv'
    <3>1. /\ exec \in [Calls -> Executors \cup {NoExecutor}] /\ pc[c] = "select"
          /\ pc \in [Calls -> {"posted", "select", "load", "create", "lock", "send", "wait",
                              "unlock", "finish", "done", "dead"}]
      BY <1>2 DEF selectExecutorForTool, TypeOK
    <3>2. /\ UNCHANGED task
          /\ \/ \E e \in Executors : /\ exec' = [exec EXCEPT ![c] = e]
                                     /\ pc' = [pc EXCEPT ![c] = "load"]
             \/ UNCHANGED exec /\ pc' = [pc EXCEPT ![c] = "finish"]
      BY <1>2 DEF selectExecutorForTool
    <3>3. CASE UNCHANGED exec /\ pc' = [pc EXCEPT ![c] = "finish"]
      BY <3>1, <3>2, <3>3 DEF ExecInv
    <3>4. ASSUME NEW e \in Executors, exec' = [exec EXCEPT ![c] = e],
                 pc' = [pc EXCEPT ![c] = "load"]
          PROVE  ExecInv'
      BY <3>1, <3>2, <3>4 DEF ExecInv
    <3> QED BY <3>2, <3>3, <3>4
  <2>1. TypeOK' /\ ExecInv'
    BY <2>1a, <2>1b, <2>1c DEF TypeOK, BrainTypes, TaskTypes, SharedTypes
  <2>2. CountInv'
    <3>1. \A d \in Calls : pc'[d] \in Before => pc[d] \in Before
      <4>1. pc \in [Calls -> {"posted", "select", "load", "create", "lock", "send", "wait",
                              "unlock", "finish", "done", "dead"}] /\ pc[c] = "select"
        BY <1>2 DEF selectExecutorForTool, TypeOK
      <4>2. pc' = [pc EXCEPT ![c] = "load"] \/ pc' = [pc EXCEPT ![c] = "finish"]
        BY <1>2 DEF selectExecutorForTool
      <4> QED BY <4>1, <4>2 DEF Before
    <3> QED BY <1>2, <3>1, AllTypes, QuietBrain DEF selectExecutorForTool
  <2> QED BY <2>1, <2>2
<1>3. CASE getExecutionWorkspaceByOwner(c)
  <2>1. c \notin committed
    BY <1>3 DEF getExecutionWorkspaceByOwner, CountInv, Before
  <2>2. row.version \in Versions /\ row.key \in Versions /\ row.version < Cardinality(Calls)
    BY <2>1, NextVersions DEF TypeOK, Row
  <2>3a. BrainTypes'
    <3>1. /\ pc' = [pc EXCEPT ![c] = "lock"] \/ pc' = [pc EXCEPT ![c] = "create"]
          /\ \/ UNCHANGED seen
             \/ seen' = [seen EXCEPT ![c] = [version |-> row.version, key |-> row.key]]
          /\ UNCHANGED <<row, committed, exec, response, results>>
      BY <1>3 DEF getExecutionWorkspaceByOwner
    <3>2. [version |-> row.version, key |-> row.key] \in [version : Versions, key : Versions]
      BY <2>2
    <3>3. seen' \in [Calls -> [version : Versions, key : Versions]]
      <4>1. seen \in [Calls -> [version : Versions, key : Versions]]
        BY DEF TypeOK
      <4> DEFINE new == [version |-> row.version, key |-> row.key]
                 Seen == [version : Versions, key : Versions]
      <4>2. new \in Seen
        BY <3>2
      <4> HIDE DEF new, Seen
      <4>3. seen \in [Calls -> Seen] /\ (seen' = seen \/ seen' = [seen EXCEPT ![c] = new])
        BY <3>1, <4>1 DEF new, Seen
      <4>4. seen' \in [Calls -> Seen]
        BY <4>2, <4>3
      <4> QED BY <4>4 DEF Seen
    <3>4. pc' \in [Calls -> {"posted", "select", "load", "create", "lock", "send", "wait",
                            "unlock", "finish", "done", "dead"}]
      <4>1. CASE pc' = [pc EXCEPT ![c] = "lock"]
        BY <4>1 DEF TypeOK
      <4>2. CASE pc' = [pc EXCEPT ![c] = "create"]
        BY <4>2 DEF TypeOK
      <4> QED BY <3>1, <4>1, <4>2
    <3> QED BY <3>1, <3>3, <3>4 DEF TypeOK, BrainTypes
  <2>3b. TaskTypes' /\ SharedTypes'
    BY <1>3, <2>2 DEF getExecutionWorkspaceByOwner, TypeOK, TaskTypes, SharedTypes
  <2>3c. ExecInv'
    BY <1>3, <2>2 DEF getExecutionWorkspaceByOwner, TypeOK, ExecInv
  <2>3. TypeOK' /\ ExecInv'
    BY <2>3a, <2>3b, <2>3c DEF TypeOK, BrainTypes, TaskTypes, SharedTypes
  <2>4. CountInv'
    <3>1. /\ UNCHANGED <<row, committed>>
          /\ \A d \in Calls : seen'[d] = seen[d] \/ seen'[d].version = row.version
          /\ \A d \in Calls : pc'[d] \in Before => pc[d] \in Before
      BY <1>3 DEF getExecutionWorkspaceByOwner, TypeOK, Before
    <3> QED BY <2>2, <3>1 DEF CountInv
  <2> QED BY <2>3, <2>4
<1>4. CASE createExecutionWorkspace(c)
  <2>0. row' = row \/ row' = [row EXCEPT !.made = TRUE]
    BY <1>4 DEF createExecutionWorkspace
  <2>1. row' \in Row /\ row'.version = row.version
    BY ZenonT(60), <2>0 DEF TypeOK, Row
  <2>2a. BrainTypes'
    BY <1>4, <2>1 DEF createExecutionWorkspace, TypeOK, BrainTypes
  <2>2b. TaskTypes' /\ SharedTypes'
    BY <1>4, <2>1 DEF createExecutionWorkspace, TypeOK, TaskTypes, SharedTypes
  <2>2c. ExecInv'
    BY <1>4, <2>1 DEF createExecutionWorkspace, TypeOK, ExecInv
  <2>2. TypeOK' /\ ExecInv'
    BY <2>2a, <2>2b, <2>2c DEF TypeOK, BrainTypes, TaskTypes, SharedTypes
  <2>3. CountInv'
    BY <1>4, <2>1, AllTypes, QuietBrain DEF createExecutionWorkspace, BrainTypes, Before
  <2> QED BY <2>2, <2>3
<1>5. CASE tryLockExecutionWorkspace(c)
  <2>0. row' = row \/ row' = [row EXCEPT !.lock = c]
    BY <1>5 DEF tryLockExecutionWorkspace
  <2>1. row' \in Row /\ row'.version = row.version
    BY <2>0 DEF TypeOK, Row
  <2>2a. BrainTypes'
    BY <1>5, <2>1 DEF tryLockExecutionWorkspace, TypeOK, BrainTypes
  <2>2b. TaskTypes' /\ SharedTypes'
    BY <1>5, <2>1 DEF tryLockExecutionWorkspace, TypeOK, TaskTypes, SharedTypes
  <2>2c. ExecInv'
    BY <1>5, <2>1 DEF tryLockExecutionWorkspace, TypeOK, ExecInv
  <2>2. TypeOK' /\ ExecInv'
    BY <2>2a, <2>2b, <2>2c DEF TypeOK, BrainTypes, TaskTypes, SharedTypes
  <2>3. CountInv'
    BY <1>5, <2>1, AllTypes, QuietBrain DEF tryLockExecutionWorkspace, BrainTypes, Before
  <2> QED BY <2>2, <2>3
<1>6. CASE invokeTool(c)
  <2>1. Failed \in Reply
    BY NoVersion DEF Failed, Reply
  <2>2. faults' \in 0..MaxFaults
    BY <1>6, FaultType DEF invokeTool, TypeOK
  <2>3a. BrainTypes'
    BY <1>6, <2>1, <2>2 DEF invokeTool, TypeOK, BrainTypes
  <2>3b. TaskTypes' /\ SharedTypes'
    <3>1. /\ UNCHANGED <<objects, verdict, dir, snapshot, ended, raced, requestOf>>
          /\ UNCHANGED task \/ task' = [task EXCEPT ![c] = "arrived"]
          /\ UNCHANGED reply \/ reply' = [reply EXCEPT ![requestOf[c]] = Failed]
      BY <1>6 DEF invokeTool
    <3>2. reply \in [Requests -> Reply] /\ TaskTypes /\ SharedTypes
      BY AllTypes DEF SharedTypes
    <3>3. reply' \in [Requests -> Reply]
      BY <2>1, <3>1, <3>2
    <3>4. TaskTypes'
      BY <3>1, <3>2 DEF TaskTypes
    <3> QED BY <2>2, <3>1, <3>2, <3>3, <3>4 DEF SharedTypes
  <2>3c. ExecInv'
    BY <1>6, <2>1, <2>2 DEF invokeTool, TypeOK, ExecInv
  <2>3. TypeOK' /\ ExecInv'
    BY <2>3a, <2>3b, <2>3c DEF TypeOK, BrainTypes, TaskTypes, SharedTypes
  <2>4. CountInv'
    BY <1>6, AllTypes, QuietBrain DEF invokeTool, BrainTypes, Before
  <2> QED BY <2>3, <2>4
<1>7. CASE waitForReply(c)
  <2> DEFINE r == reply[requestOf[c]]
  <2>1. r.version \in Versions /\ r.status \in {"none", "succeeded", "failed"} /\ c \notin committed
    BY <1>0, <1>7 DEF waitForReply, TypeOK, Reply, CountInv, Before
  <2>2. \/ commitExecutionWorkspaceVersion(c, r.version)
        \/ UNCHANGED rowVars
    BY <1>7 DEF waitForReply
  <2>3. /\ row' \in Row /\ committed' \subseteq Calls /\ row'.version = Cardinality(committed')
        /\ committed' \subseteq committed \cup {c}
    BY <2>1, <2>2, Commits DEF TypeOK, CountInv
  <2>4. response' \in [Calls -> {"none", "succeeded", "failed"}]
    BY <1>7, <2>1 DEF waitForReply, TypeOK
  <2>5. /\ pc' = [pc EXCEPT ![c] = "unlock"]
        /\ UNCHANGED <<objects, seen, exec, results, reply, taskVars, raced, faultVars>>
    BY <1>7 DEF waitForReply
  <2>6a. BrainTypes'
    BY <2>3, <2>4, <2>5 DEF TypeOK, BrainTypes
  <2>6b. TaskTypes' /\ SharedTypes'
    BY <2>5 DEF TypeOK, TaskTypes, SharedTypes
  <2>6c. ExecInv'
    BY <2>5 DEF TypeOK, ExecInv
  <2>6. TypeOK' /\ ExecInv'
    BY <2>6a, <2>6b, <2>6c DEF TypeOK, BrainTypes, TaskTypes, SharedTypes
  <2>7. CountInv'
    BY <2>3, <2>5 DEF TypeOK, CountInv, Before
  <2> QED BY <2>6, <2>7
<1>8. CASE waitTimesOut(c)
  <2>1. faults' \in 0..MaxFaults
    BY <1>8, FaultType DEF waitTimesOut, TypeOK
  <2>2a. BrainTypes'
    BY <1>8, <2>1 DEF waitTimesOut, TypeOK, BrainTypes
  <2>2b. TaskTypes' /\ SharedTypes'
    BY <1>8, <2>1 DEF waitTimesOut, TypeOK, TaskTypes, SharedTypes
  <2>2c. ExecInv'
    BY <1>8, <2>1 DEF waitTimesOut, TypeOK, ExecInv
  <2>2. TypeOK' /\ ExecInv'
    BY <2>2a, <2>2b, <2>2c DEF TypeOK, BrainTypes, TaskTypes, SharedTypes
  <2>3. CountInv'
    BY <1>8, AllTypes, QuietBrain DEF waitTimesOut, BrainTypes, Before
  <2> QED BY <2>2, <2>3
<1>9. CASE releaseExecutionWorkspaceLock(c)
  <2>1. row' \in Row /\ row'.version = row.version
    BY <1>9 DEF releaseExecutionWorkspaceLock, TypeOK, Row
  <2>2a. BrainTypes'
    BY <1>9, <2>1 DEF releaseExecutionWorkspaceLock, TypeOK, BrainTypes
  <2>2b. TaskTypes' /\ SharedTypes'
    BY <1>9, <2>1 DEF releaseExecutionWorkspaceLock, TypeOK, TaskTypes, SharedTypes
  <2>2c. ExecInv'
    BY <1>9, <2>1 DEF releaseExecutionWorkspaceLock, TypeOK, ExecInv
  <2>2. TypeOK' /\ ExecInv'
    BY <2>2a, <2>2b, <2>2c DEF TypeOK, BrainTypes, TaskTypes, SharedTypes
  <2>3. CountInv'
    BY <1>9, <2>1, AllTypes, QuietBrain DEF releaseExecutionWorkspaceLock, BrainTypes, Before
  <2> QED BY <2>2, <2>3
<1>10. CASE finish(c)
  <2>1. [status |-> response[c], version |-> 0] \in Reply
    <3>1. 0 \in Versions /\ response[c] \in {"none", "succeeded", "failed"}
      BY NoVersion DEF TypeOK
    <3> QED BY <3>1 DEF Reply
  <2>2a. BrainTypes'
    BY <1>10, <2>1 DEF finish, TypeOK, BrainTypes
  <2>2b. TaskTypes' /\ SharedTypes'
    BY <1>10, <2>1 DEF finish, TypeOK, TaskTypes, SharedTypes
  <2>2c. ExecInv'
    BY <1>10, <2>1 DEF finish, TypeOK, ExecInv
  <2>2. TypeOK' /\ ExecInv'
    BY <2>2a, <2>2b, <2>2c DEF TypeOK, BrainTypes, TaskTypes, SharedTypes
  <2>3. CountInv'
    BY <1>10, AllTypes, QuietBrain DEF finish, BrainTypes, Before
  <2> QED BY <2>2, <2>3
<1>11. CASE BrainDies(c)
  <2>1. faults' \in 0..MaxFaults
    BY <1>11, FaultType DEF BrainDies, TypeOK
  <2>2a. BrainTypes'
    BY <1>11, <2>1 DEF BrainDies, TypeOK, BrainTypes
  <2>2b. TaskTypes' /\ SharedTypes'
    BY <1>11, <2>1 DEF BrainDies, TypeOK, TaskTypes, SharedTypes
  <2>2c. ExecInv'
    BY <1>11, <2>1 DEF BrainDies, TypeOK, ExecInv
  <2>2. TypeOK' /\ ExecInv'
    BY <2>2a, <2>2b, <2>2c DEF TypeOK, BrainTypes, TaskTypes, SharedTypes
  <2>3. CountInv'
    BY <1>11, AllTypes, QuietBrain DEF BrainDies, BrainTypes, Before
  <2> QED BY <2>2, <2>3
<1> QED
  BY <1>1, <1>2, <1>3, <1>4, <1>5, <1>6, <1>7, <1>8, <1>9, <1>10, <1>11 DEF BrainStep

\* A step of a task, or the end of one, keeps what the brains wrote.
LEMMA TaskTyped ==
    ASSUME ToolAssumption, TypeOK, ExecInv, CountInv, NEW c \in Calls,
           TaskStep(c) \/ downloadFails(c) \/ uploadFails(c) \/ ExecutorDies(c)
    PROVE  /\ TypeOK' /\ ExecInv' /\ CountInv'
           /\ UNCHANGED <<brainSide, rowVars, brainVars>>
           /\ task[c] \notin {"none", "gone"}
<1> USE DEF At, rowVars, brainVars, taskVars, faultVars, brainSide, Turn, Gone, Works
<1>0. /\ requestOf[c] \in Requests /\ 0 \in Versions /\ seen[c].version + 1 \in Versions
      /\ seen[c].version \in Versions
  BY NoVersion, NextVersions DEF TypeOK, ToolAssumption
<1>1. /\ UNCHANGED <<brainSide, rowVars, brainVars>>
      /\ task[c] \notin {"none", "gone"}
  BY DEF TaskStep, taskRefused, ensureWorkspaceExtracted, unpackWorkspace, downloadFails,
         runScript, runConnectorTask, executeEnginePrompt, snapshotWorkspace, uploadWorkspace,
         uploadFails, ExecutorDies
<1>2. exec[c] \in Executors
  BY <1>1 DEF ExecInv, TypeOK
<1>3. BrainTypes' /\ CountInv'
  BY <1>1 DEF TypeOK, BrainTypes, CountInv
<1>4. /\ task' \in [Calls -> {"none", "arrived", "unpack", "run", "snapshot", "upload", "gone"}]
      /\ \A d \in Calls \ {c} : task'[d] = task[d]
  BY ZenonT(60) DEF TypeOK, TaskStep, taskRefused, ensureWorkspaceExtracted, unpackWorkspace,
         downloadFails, runScript, runConnectorTask, executeEnginePrompt, snapshotWorkspace, uploadWorkspace,
         uploadFails, ExecutorDies
<1>5. ExecInv'
  BY <1>1, <1>2, <1>4 DEF ExecInv, TypeOK
<1>6. /\ verdict' \in [Calls -> {"succeeded", "failed"}] /\ ended' \subseteq Calls
      /\ faults' \in 0..MaxFaults
  BY FaultType
  DEF TypeOK, TaskStep, taskRefused, ensureWorkspaceExtracted, unpackWorkspace, downloadFails,
      runScript, runConnectorTask, executeEnginePrompt, snapshotWorkspace, uploadWorkspace,
      uploadFails, ExecutorDies
<1>7. reply' \in [Requests -> Reply]
  <2>1. ASSUME NEW s \in {"succeeded", "failed"}, NEW v \in Versions, ToolResult(c, s, v)
        PROVE  reply' \in [Requests -> Reply]
    <3>1. [status |-> s, version |-> v] \in Reply
      BY DEF Reply
    <3> QED BY <1>0, <2>1, <3>1 DEF ToolResult, TypeOK
  <2>2. verdict[c] \in {"succeeded", "failed"}
    BY DEF TypeOK
  <2>3. CASE UNCHANGED reply
    BY <2>3 DEF TypeOK
  <2> QED
    BY <1>0, <2>1, <2>2, <2>3
    DEF TaskStep, taskRefused, ensureWorkspaceExtracted, unpackWorkspace, downloadFails,
        runScript, runConnectorTask, executeEnginePrompt, snapshotWorkspace, uploadWorkspace,
        uploadFails, ExecutorDies
<1>8. /\ objects \in [Versions -> Content] /\ dir \in [Executors -> [Versions -> Content]]
      /\ snapshot \in [Executors -> [Versions -> Content]] /\ seen[c].key \in Versions
      /\ Dir(c) \in Content /\ \A v \in Versions : Local(c, v) \in Content
  BY <1>0, <1>2 DEF TypeOK, Dir, Local
<1>9. ASSUME NEW d \in Content, SetDir(c, d) PROVE dir' \in [Executors -> [Versions -> Content]]
  BY <1>8, <1>9 DEF SetDir
<1>10. ASSUME NEW d \in Content, NEW v \in Versions, SetLocal(c, v, d)
       PROVE  snapshot' \in [Executors -> [Versions -> Content]]
  BY <1>8, <1>10 DEF SetLocal
<1>11. \A w \in SUBSET Calls : Holds(w) \in Content
  BY DEF Holds, Content
<1>12. /\ objects' \in [Versions -> Content] /\ dir' \in [Executors -> [Versions -> Content]]
       /\ snapshot' \in [Executors -> [Versions -> Content]]
  <2>1. CASE ensureWorkspaceExtracted(c)
    BY <1>8, <1>9, <1>11, <2>1 DEF ensureWorkspaceExtracted
  <2>2. CASE unpackWorkspace(c)
    <3> DEFINE archive == IF Local(c, seen[c].version).there THEN Local(c, seen[c].version)
                          ELSE objects[seen[c].key]
    <3>1. archive \in Content
      BY <1>0, <1>8
    <3>2. Holds(Dir(c).work \cup archive.work) \in Content
      BY <1>8, <1>11, <3>1 DEF Content
    <3>3. /\ SetLocal(c, seen[c].version, archive) /\ UNCHANGED objects
          /\ SetDir(c, Holds(Dir(c).work \cup archive.work))
      BY <2>2 DEF unpackWorkspace
    <3> HIDE DEF archive
    <3> QED BY <1>0, <1>8, <1>9, <1>10, <3>1, <3>2, <3>3
  <2>3. CASE \E s \in {"succeeded", "failed"} :
                runScript(c, s) \/ runConnectorTask(c, s) \/ executeEnginePrompt(c, s)
    <3>1. Holds(Dir(c).work \cup {c}) \in Content
      BY <1>8, <1>11 DEF Content
    <3>2. SetDir(c, Holds(Dir(c).work \cup {c})) /\ UNCHANGED <<objects, snapshot>>
      BY <2>3 DEF runScript, runConnectorTask, executeEnginePrompt
    <3> QED BY <1>8, <1>9, <3>1, <3>2
  <2>4. CASE snapshotWorkspace(c)
    BY <1>0, <1>8, <1>10, <2>4 DEF snapshotWorkspace
  <2>5. CASE uploadWorkspace(c)
    BY <1>0, <1>8, <2>5 DEF uploadWorkspace
  <2>6. CASE taskRefused(c) \/ downloadFails(c) \/ uploadFails(c) \/ ExecutorDies(c)
    BY <1>8, <2>6 DEF taskRefused, downloadFails, uploadFails, ExecutorDies
  <2> QED BY <2>1, <2>2, <2>3, <2>4, <2>5, <2>6 DEF TaskStep
<1> QED
  BY <1>1, <1>3, <1>4, <1>5, <1>6, <1>7, <1>12
  DEF TypeOK, BrainTypes, CountInv

\* The brains, the edge and the executors keep the types, and one commit makes
\* one version.
LEMMA TypedStep ==
    ASSUME ToolAssumption, TypeOK, ExecInv, CountInv, [Next]_vars
    PROVE  TypeOK' /\ ExecInv' /\ CountInv'
<1>1. CASE LockExpires
  <2>1. row' \in Row /\ row'.version = row.version
    BY <1>1 DEF LockExpires, TypeOK, Row
  <2>2. UNCHANGED <<committed, objects, brainVars, reply, taskVars, raced, faultVars>>
    BY <1>1 DEF LockExpires
  <2> QED BY <2>1, <2>2 DEF brainVars, taskVars, faultVars, TypeOK, ExecInv, CountInv
<1>2. CASE UNCHANGED vars
  BY <1>2 DEF vars, rowVars, brainVars, taskVars, faultVars, TypeOK, ExecInv, CountInv
<1> QED BY <1>1, <1>2, BrainTyped, TaskTyped DEF Next

\* Every variable of the workspace, the brains and the executors keeps its type.
THEOREM TypesHold == Spec => [](TypeOK /\ ExecInv /\ CountInv)
<1> USE ToolAssumption
<1>1. Init => TypeOK /\ ExecInv /\ CountInv
  <2> SUFFICES ASSUME Init PROVE TypeOK /\ ExecInv /\ CountInv
    OBVIOUS
  <2>1. 0 \in Versions /\ Absent \in Content /\ NoReply \in Reply
    BY NoVersion DEF Absent, Content, NoReply, Reply
  <2>2. row \in Row /\ row.version = 0
    BY <2>1 DEF Init, Row
  <2>3. TypeOK
    <3>1. BrainTypes
      BY <2>1, <2>2 DEF Init, BrainTypes
    <3>2. TaskTypes
      <4>1. /\ objects \in [Versions -> Content]
            /\ dir \in [Executors -> [Versions -> Content]]
            /\ snapshot \in [Executors -> [Versions -> Content]]
        BY <2>1 DEF Init
      <4>2. /\ task \in [Calls -> {"none", "arrived", "unpack", "run", "snapshot", "upload",
                                 "gone"}]
            /\ verdict \in [Calls -> {"succeeded", "failed"}] /\ ended \subseteq Calls
        BY DEF Init
      <4> QED BY <4>1, <4>2 DEF TaskTypes
    <3>3. SharedTypes
      <4>1. reply \in [Requests -> Reply]
        <5>1. reply = [r \in Requests |-> NoReply]
          BY DEF Init
        <5> QED BY <2>1, <5>1
      <4>2. raced \in BOOLEAN /\ requestOf \in Dispatches
        BY Zenon DEF Init
      <4>3. faults \in 0..MaxFaults
        BY DEF Init, ToolAssumption
      <4> QED BY <4>1, <4>2, <4>3 DEF SharedTypes
    <3> QED BY <3>1, <3>2, <3>3, AllTypes
  <2>4. ASSUME NEW c \in Calls PROVE seen[c].version < Cardinality(Calls)
    <3>1. Cardinality(Calls) \in Nat /\ Cardinality(Calls) # 0
      BY FS_CardinalityType, FS_EmptySet DEF ToolAssumption
    <3> QED BY <3>1 DEF Init
  <2>5. CountInv
    BY <2>2, <2>4, FS_EmptySet DEF Init, CountInv
  <2> QED BY <2>3, <2>5 DEF Init, ExecInv
<1>2. TypeOK /\ ExecInv /\ CountInv /\ [Next]_vars => (TypeOK /\ ExecInv /\ CountInv)'
  BY TypedStep
<1> QED BY <1>1, <1>2, PTL DEF Spec

-----------------------------------------------------------------------------
\* No call that ended or committed is forgotten.
LEMMA NothingForgotten ==
    ASSUME [Next]_vars
    PROVE  requestOf' = requestOf /\ committed \subseteq committed' /\ ended \subseteq ended'
<1> USE DEF rowVars, brainVars, taskVars, faultVars, brainSide, Gone, Works
<1>1. ASSUME NEW c \in Calls, dispatch(c) \/ BrainStep(c) \/ BrainDies(c)
      PROVE  requestOf' = requestOf /\ committed \subseteq committed' /\ ended \subseteq ended'
  <2>1. CASE waitForReply(c)
    BY <2>1 DEF waitForReply, commitExecutionWorkspaceVersion
  <2> QED
    BY <1>1, <2>1 DEF dispatch, BrainStep, BrainDies, selectExecutorForTool,
       getExecutionWorkspaceByOwner, createExecutionWorkspace, tryLockExecutionWorkspace,
       invokeTool, waitTimesOut, releaseExecutionWorkspaceLock, finish
<1>2. ASSUME NEW c \in Calls,
             TaskStep(c) \/ downloadFails(c) \/ uploadFails(c) \/ ExecutorDies(c)
      PROVE  requestOf' = requestOf /\ committed \subseteq committed' /\ ended \subseteq ended'
  BY <1>2 DEF TaskStep, taskRefused, ensureWorkspaceExtracted, unpackWorkspace, downloadFails,
     runScript, runConnectorTask, executeEnginePrompt, snapshotWorkspace, uploadWorkspace,
     uploadFails, ExecutorDies
<1>3. CASE LockExpires \/ UNCHANGED vars
  BY <1>3 DEF LockExpires, vars
<1> QED BY <1>1, <1>2, <1>3 DEF Next

\* What is new in a step has what it rests on.
LEMMA BackedUpdate ==
    ASSUME BackedInv, requestOf' = requestOf, committed \subseteq committed', ended \subseteq ended',
           \A r \in Requests :
              \/ reply'[r] = reply[r]
              \/ reply'[r].version > 0 /\ Ended(r)'
              \/ reply'[r].version = 0 /\ (reply'[r].status = "succeeded" => Backed(r)'),
           \A r \in Requests :
              results'[r] = results[r] \/ (results'[r] = "succeeded" => Backed(r)'),
           \A c \in Calls :
              response'[c] = response[c] \/ (response'[c] = "succeeded" => Backed(requestOf[c])')
    PROVE  BackedInv'
<1>1. \A r : (Ended(r) => Ended(r)') /\ (Backed(r) => Backed(r)')
  BY DEF Ended, Backed
<1> HIDE DEF Ended, Backed
<1>2. ASSUME NEW r \in Requests
      PROVE  /\ reply'[r].version > 0 => Ended(r)'
             /\ reply'[r].status = "succeeded" /\ reply'[r].version = 0 => Backed(r)'
             /\ results'[r] = "succeeded" => Backed(r)'
  BY <1>1 DEF BackedInv
<1>3. ASSUME NEW c \in Calls, response'[c] = "succeeded" PROVE Backed(requestOf[c])'
  BY <1>1, <1>3 DEF BackedInv
<1> QED BY <1>2, <1>3 DEF BackedInv

LEMMA BackedStep ==
    ASSUME ToolAssumption, TypeOK, CountInv, BackedInv, [Next]_vars PROVE BackedInv'
<1> USE DEF rowVars, brainVars, taskVars, faultVars, brainSide, Gone, Works, Turn, GoTo, Respond
<1>0. requestOf' = requestOf /\ committed \subseteq committed' /\ ended \subseteq ended'
  BY NothingForgotten
<1>1. ASSUME UNCHANGED <<reply, results>>,
             NEW c \in Calls, UNCHANGED response \/ Respond(c, "failed") \/ Respond(c, "none")
      PROVE  BackedInv'
  BY <1>0, <1>1, BackedUpdate DEF TypeOK
<1>2. ASSUME UNCHANGED <<reply, results, response>> PROVE BackedInv'
  BY <1>0, <1>2, BackedUpdate
<1>3. ASSUME NEW c \in Calls, NEW s, NEW v \in Nat, ToolResult(c, s, v),
             UNCHANGED <<results, response>>,
             (v > 0 /\ c \in ended') \/ (v = 0 /\ s # "succeeded")
      PROVE  BackedInv'
  <2>1. \A r \in Requests :
            \/ reply'[r] = reply[r]
            \/ r = requestOf[c] /\ reply'[r].version = v /\ reply'[r].status = s
    BY <1>3 DEF ToolResult, TypeOK
  <2>2. c \in ended' => Ended(requestOf[c])'
    BY <1>0 DEF Ended
  <2> QED BY <1>0, <1>3, <2>1, <2>2, BackedUpdate
<1>4. ASSUME NEW c \in Calls,
             \/ dispatch(c) \/ selectExecutorForTool(c) \/ getExecutionWorkspaceByOwner(c)
             \/ createExecutionWorkspace(c) \/ tryLockExecutionWorkspace(c) \/ waitTimesOut(c)
             \/ releaseExecutionWorkspaceLock(c) \/ BrainDies(c)
      PROVE  BackedInv'
  BY <1>1, <1>4 DEF dispatch, selectExecutorForTool, getExecutionWorkspaceByOwner,
     createExecutionWorkspace, tryLockExecutionWorkspace, waitTimesOut,
     releaseExecutionWorkspaceLock, BrainDies
<1>5. ASSUME NEW c \in Calls, invokeTool(c) PROVE BackedInv'
  <2>1. \A r \in Requests : reply'[r] = reply[r] \/ reply'[r] = Failed
    BY <1>5 DEF invokeTool, TypeOK
  <2>2. UNCHANGED <<results, response>>
    BY <1>5 DEF invokeTool
  <2> QED BY <1>0, <2>1, <2>2, BackedUpdate DEF Failed
<1>6. ASSUME NEW c \in Calls, waitForReply(c) PROVE BackedInv'
  <2> DEFINE r == reply[requestOf[c]]
  <2>1. requestOf[c] \in Requests
    BY DEF TypeOK, ToolAssumption
  <2>2. /\ UNCHANGED <<reply, results>>
        /\ \A d \in Calls \ {c} : response'[d] = response[d]
    BY <1>6 DEF waitForReply, TypeOK
  <2>3. ASSUME response'[c] = "succeeded" PROVE Backed(requestOf[c])'
    <3>1. CASE r.version > 0
      <4>1. row.version = seen[c].version
        BY <1>6, <2>3, <3>1 DEF waitForReply, TypeOK
      <4>2. c \in committed'
        BY <1>6, <3>1, <4>1 DEF waitForReply, commitExecutionWorkspaceVersion
      <4>3. Ended(requestOf[c])
        BY <2>1, <3>1 DEF BackedInv
      <4> QED BY <1>0, <4>2, <4>3 DEF Backed, Ended
    <3>2. CASE ~(r.version > 0)
      <4>1. r.version \in Nat
        BY <2>1, NoVersion DEF TypeOK, Reply, Versions
      <4>2. r.status = "succeeded"
        BY <1>6, <2>3, <3>2 DEF waitForReply, TypeOK
      <4>3. Backed(requestOf[c])
        BY <2>1, <3>2, <4>1, <4>2 DEF BackedInv
      <4> QED BY <1>0, <4>3 DEF Backed, Ended
    <3> QED BY <3>1, <3>2
  <2> QED BY <1>0, <2>2, <2>3, BackedUpdate
<1>7. ASSUME NEW c \in Calls, finish(c) PROVE BackedInv'
  <2>1. response[c] = "succeeded" => Backed(requestOf[c])'
    BY <1>0 DEF BackedInv, Backed, Ended
  <2>2. \A r \in Requests :
            /\ \/ reply'[r] = reply[r]
               \/ r = requestOf[c] /\ reply'[r].version = 0 /\ reply'[r].status = response[c]
            /\ results'[r] = results[r] \/ (r = requestOf[c] /\ results'[r] = response[c])
    <3>1. /\ results' = [results EXCEPT ![requestOf[c]] = response[c]]
          /\ reply' = [reply EXCEPT ![requestOf[c]] = [status |-> response[c], version |-> 0]]
      BY <1>7 DEF finish
    <3>2. DOMAIN results = Requests /\ DOMAIN reply = Requests
      BY DEF TypeOK
    <3>3. ASSUME NEW r \in Requests, r # requestOf[c]
          PROVE  reply'[r] = reply[r] /\ results'[r] = results[r]
      BY <3>1, <3>2, <3>3
    <3>4. requestOf[c] \in Requests
      BY DEF TypeOK, ToolAssumption
    <3>5. /\ reply'[requestOf[c]] = [status |-> response[c], version |-> 0]
          /\ results'[requestOf[c]] = response[c]
      BY <3>1, <3>2, <3>4
    <3> QED BY <3>3, <3>5
  <2>3. \A d \in Calls : response'[d] = response[d] \/ response'[d] = "none"
    BY <1>7 DEF finish, TypeOK
  <2> QED BY <1>0, <2>1, <2>2, <2>3, BackedUpdate
<1>8. ASSUME NEW c \in Calls, ensureWorkspaceExtracted(c) \/ unpackWorkspace(c)
                \/ snapshotWorkspace(c) \/ ExecutorDies(c)
      PROVE  BackedInv'
  BY <1>2, <1>8 DEF ensureWorkspaceExtracted, unpackWorkspace, snapshotWorkspace, ExecutorDies
<1>9. ASSUME NEW c \in Calls, taskRefused(c) \/ downloadFails(c) \/ uploadFails(c)
      PROVE  BackedInv'
  BY <1>3, <1>9 DEF taskRefused, downloadFails, uploadFails
<1>10. ASSUME NEW c \in Calls, NEW s \in {"succeeded", "failed"},
              runScript(c, s) \/ runConnectorTask(c, s) \/ executeEnginePrompt(c, s)
       PROVE  BackedInv'
  BY <1>2, <1>3, <1>10 DEF runScript, runConnectorTask, executeEnginePrompt
<1>11. ASSUME NEW c \in Calls, uploadWorkspace(c) PROVE BackedInv'
  <2>1. seen[c].version + 1 \in Nat /\ seen[c].version + 1 > 0
    <3>1. seen[c].version \in Nat
      BY NextVersions
    <3> QED BY <3>1
  <2> DEFINE v == seen[c].version + 1
  <2>2. ToolResult(c, verdict[c], v) /\ c \in ended' /\ UNCHANGED <<results, response>>
    BY <1>11 DEF uploadWorkspace
  <2>3. v \in Nat /\ v > 0
    BY <2>1
  <2> HIDE DEF v
  <2> QED BY <1>3, <2>2, <2>3
<1>12. CASE LockExpires \/ UNCHANGED vars
  BY <1>2, <1>12 DEF LockExpires, vars
<1> QED
  BY <1>4, <1>5, <1>6, <1>7, <1>8, <1>9, <1>10, <1>11, <1>12 DEF Next, BrainStep, TaskStep

-----------------------------------------------------------------------------
(* One call at a time: the state between calls, and each step of the call. *)

\* A fault ends the calm.
LEMMA NoFault == ASSUME TypeOK, Calm', Fault PROVE FALSE
BY DEF TypeOK, Calm, Fault

\* Nothing but a dispatch moves a call that is idle.
LEMMA IdleWaits ==
    ASSUME NEW c \in Calls, Idle(c),
           dispatch(c) \/ BrainStep(c) \/ TaskStep(c) \/ downloadFails(c) \/ uploadFails(c)
           \/ ExecutorDies(c) \/ BrainDies(c)
    PROVE  dispatch(c)
BY DEF Idle, At, BrainStep, TaskStep, BrainDies, downloadFails, uploadFails, ExecutorDies,
   selectExecutorForTool, getExecutionWorkspaceByOwner, createExecutionWorkspace,
   tryLockExecutionWorkspace, invokeTool, waitForReply, waitTimesOut,
   releaseExecutionWorkspaceLock, finish, taskRefused, ensureWorkspaceExtracted,
   unpackWorkspace, runScript, runConnectorTask, executeEnginePrompt, Works,
   snapshotWorkspace, uploadWorkspace

\* A step that changes no more than the lock.
LEMMA LockMoves ==
    ASSUME SequentialInv, Calm, row' = [row EXCEPT !.lock = row'.lock], row \in Row,
           UNCHANGED <<committed, objects, seen, exec, results, reply, task, dir, snapshot,
                       requestOf, pc>>
    PROVE  SequentialInv'
<1>1. row'.made = row.made /\ row'.version = row.version /\ row'.key = row.key
  BY DEF Row
<1>2. (Kept => Kept') /\ \A c : (Idle(c) => Idle(c)') /\ (Packed(c) <=> Packed(c)')
  BY <1>1 DEF Kept, Idle, Packed
<1>3. \A e : (DirKept(e) => DirKept(e)') /\ (NoneAhead(e) => NoneAhead(e)')
  BY <1>1 DEF DirKept, NoneAhead
<1>4. Rest => Rest'
  BY <1>2, <1>3 DEF Rest
<1>5. ASSUME NEW c \in Calls, Busy(c) PROVE Busy(c)'
  <2>1. BrainInv(c)'
    BY <1>1, <1>5 DEF Busy, BrainInv
  <2>2. TaskInv(c)'
    BY <1>1, <1>2, <1>5 DEF Busy, TaskInv
  <2> QED BY <1>1, <1>2, <1>3, <1>5, <2>1, <2>2 DEF Busy
<1> QED BY <1>4, <1>5 DEF SequentialInv

\* The call that is dispatched while the others are idle.
LEMMA CallBegins ==
    ASSUME ToolAssumption, TypeOK, Rest, NEW c \in Calls, dispatch(c) PROVE Rest' \/ Busy(c)'
<1> USE DEF At, GoTo, rowVars, taskVars, faultVars
<1>1. UNCHANGED <<row, committed, objects, seen, exec, results, reply, task, dir, snapshot, requestOf>>
  BY DEF dispatch
<1>2. Kept' /\ \A e \in Executors : DirKept(e)' /\ NoneAhead(e)'
  BY <1>1 DEF Rest, Kept, DirKept, NoneAhead
<1>3. \A d \in Calls \ {c} : Idle(d)'
  BY <1>1 DEF Rest, Idle, dispatch, TypeOK
<1>4. task[c] = "none" /\ seen[c] = Start /\ requestOf[c] \in Requests
  BY DEF Rest, Idle, dispatch, TypeOK, ToolAssumption
<1>5. CASE results[requestOf[c]] # "none"
  <2>1. Idle(c)'
    BY <1>1, <1>4, <1>5 DEF dispatch, Idle, TypeOK
  <2> QED BY <1>1, <1>2, <1>3, <2>1 DEF Rest
<1>6. CASE results[requestOf[c]] = "none"
  <2>1. pc'[c] = "select"
    BY <1>6 DEF dispatch, TypeOK
  <2>2. reply[requestOf[c]] = NoReply
    BY <1>4, <1>6 DEF Rest
  <2>3. BrainInv(c)'
    BY <1>1, <1>4, <2>1, <2>2 DEF BrainInv
  <2>4. TaskInv(c)'
    BY <1>1, <1>4, <2>1 DEF TaskInv, Packed
  <2>5. \A e \in Executors, v \in Versions : v > row.version => ~snapshot[e][v].there
    BY DEF Rest, NoneAhead
  <2> QED
    BY <1>1, <1>2, <1>3, <1>4, <1>6, <2>3, <2>4, <2>5 DEF Busy, Rest
<1> QED BY <1>5, <1>6

\* While a call is under way no other begins without racing it.
LEMMA OthersWait ==
    ASSUME TypeOK, NEW c \in Calls, Busy(c), NEW d \in Calls \ {c}, dispatch(d), Calm'
    PROVE  Busy(c)'
<1> USE DEF At, GoTo, rowVars, taskVars, faultVars
<1>1. Live(c)
  BY DEF Busy, BrainInv, Live
<1>2. results[requestOf[d]] # "none" /\ pc' = [pc EXCEPT ![d] = "done"]
  BY <1>1 DEF dispatch, Calm
<1>3. UNCHANGED <<row, committed, objects, seen, exec, results, reply, task, dir, snapshot, requestOf>>
  BY DEF dispatch
<1>4. pc'[c] = pc[c] /\ Idle(d)' /\ \A o \in Calls \ {c, d} : Idle(o)'
  BY <1>2, <1>3 DEF Busy, Idle, TypeOK
<1>5. Kept' /\ BrainInv(c)' /\ TaskInv(c)' /\ (Packed(c) <=> Packed(c)')
  BY <1>3, <1>4 DEF Busy, Kept, BrainInv, TaskInv, Packed
<1>6. \A e : DirKept(e) <=> DirKept(e)'
  BY <1>3 DEF DirKept
<1> QED BY <1>3, <1>4, <1>5, <1>6 DEF Busy

\* A step of the brain that neither packs nor commits a version.
LEMMA BrainGoesOn ==
    ASSUME NEW c \in Calls, Busy(c),
           UNCHANGED <<committed, objects, results, reply, dir, snapshot, requestOf>>,
           row'.version = row.version, row'.key = row.key, ~row'.made => row.version = 0,
           task[c] \in {"none", "gone"}, task'[c] \in {"none", "arrived", "gone"},
           reply[requestOf[c]].version = 0,
           \A d \in Calls \ {c} : pc'[d] = pc[d] /\ task'[d] = task[d] /\ seen'[d] = seen[d],
           BrainInv(c)'
    PROVE  Busy(c)'
<1>1. Kept'
  BY DEF Busy, Kept
<1>2. ~Packed(c) /\ ~Packed(c)' /\ TaskInv(c)'
  BY DEF Packed, TaskInv
<1>3. \A d \in Calls \ {c} : Idle(d)'
  BY DEF Busy, Idle
<1>4. \A e \in Executors : DirKept(e)'
  BY DEF Busy, DirKept
<1> QED BY <1>1, <1>2, <1>3, <1>4 DEF Busy

\* The commit: what was the next version is the row's.
LEMMA CallCommits ==
    ASSUME ToolAssumption, TypeOK, CountInv, NEW c \in Calls, Busy(c), waitForReply(c),
           reply[requestOf[c]].version > 0
    PROVE  Busy(c)'
<1> USE DEF At, GoTo, rowVars, taskVars, faultVars
<1> DEFINE next == row.version + 1
           work == committed \cup {c}
<1>1. pc[c] = "wait" /\ pc' = [pc EXCEPT ![c] = "unlock"] /\ Packed(c)
      /\ UNCHANGED <<objects, seen, exec, results, reply, task, dir, snapshot, requestOf>>
  BY DEF waitForReply, Packed
<1>2. /\ row.made /\ seen[c].version = row.version /\ task[c] = "gone"
      /\ reply[requestOf[c]].version = next /\ work \subseteq objects[next].work
      /\ \A e \in Executors : snapshot[e][next].there => work \subseteq snapshot[e][next].work
  <2>1. reply[requestOf[c]] # NoReply
    BY DEF NoReply
  <2> QED BY <1>1, <2>1 DEF Busy, BrainInv, TaskInv
<1>3. next \in Versions /\ row.version \in Nat
  BY <1>1, NextVersions DEF CountInv, Before
<1>4. /\ row' = [row EXCEPT !.version = next, !.key = next, !.lock = NoCall]
      /\ committed' = work
  BY <1>2 DEF waitForReply, commitExecutionWorkspaceVersion
<1>5. row'.made = row.made /\ row'.version = next /\ row'.key = next
  BY <1>4 DEF TypeOK, Row
<1> HIDE DEF work
<1>6. Kept'
  <2>1. \A e \in Executors, v \in Versions : v > next => ~dir'[e][v].there
    BY <1>1, <1>3 DEF Busy, Kept, Versions
  <2> QED BY <1>1, <1>2, <1>3, <1>4, <1>5, <2>1 DEF Kept
<1>7. \A e \in Executors : DirKept(e)'
  <2>1. \A e \in Executors : ~dir[e][next].there
    BY <1>3 DEF Busy, Kept
  <2> QED BY <1>1, <1>5, <2>1 DEF DirKept
<1>8. \A e \in Executors, v \in Versions : v > next => ~snapshot'[e][v].there
  BY <1>1, <1>3 DEF Busy, Versions
<1>9. BrainInv(c)' /\ TaskInv(c)'
  <2>1. pc'[c] = "unlock" /\ task'[c] = "gone"
    BY <1>1, <1>2 DEF TypeOK
  <2> QED BY <2>1 DEF BrainInv, TaskInv, Packed
<1>10. \A d \in Calls \ {c} : Idle(d)'
  BY <1>1 DEF Busy, Idle, TypeOK
<1> QED BY <1>1, <1>5, <1>6, <1>7, <1>8, <1>9, <1>10 DEF Busy

\* The steps of the brain that has the call.
LEMMA BrainOfCall ==
    ASSUME ToolAssumption, TypeOK, CountInv, NEW c \in Calls, Busy(c), BrainStep(c), Calm'
    PROVE  Rest' \/ Busy(c)'
<1> USE DEF At, GoTo, rowVars, taskVars, faultVars
<1>0. BrainInv(c) /\ Kept /\ NoReply.version = 0
  BY DEF Busy, NoReply
<1>1. CASE selectExecutorForTool(c)
  <2>1. /\ \/ pc' = [pc EXCEPT ![c] = "load"] /\ exec'[c] \in Executors
           \/ pc' = [pc EXCEPT ![c] = "finish"]
        /\ UNCHANGED <<row, committed, objects, seen, results, reply, task, dir, snapshot, requestOf>>
    BY <1>1 DEF selectExecutorForTool, TypeOK
  <2>2. pc[c] = "select"
    BY <1>1 DEF selectExecutorForTool
  <2>3. pc'[c] \in {"load", "finish"} /\ (pc'[c] = "load" => exec'[c] \in Executors)
    BY <2>1 DEF TypeOK
  <2>4. BrainInv(c)'
    BY <1>0, <2>1, <2>2, <2>3 DEF BrainInv
  <2>5. task[c] = "none" /\ reply[requestOf[c]].version = 0
    BY <1>0, <2>2 DEF BrainInv
  <2> QED BY <1>0, <2>1, <2>4, <2>5, BrainGoesOn DEF TypeOK, Kept
<1>2. CASE getExecutionWorkspaceByOwner(c)
  <2>1. /\ UNCHANGED <<row, committed, objects, exec, results, reply, task, dir, snapshot, requestOf>>
        /\ pc[c] = "load"
    BY <1>2 DEF getExecutionWorkspaceByOwner
  <2>2. CASE row.made
    <3>1. /\ pc' = [pc EXCEPT ![c] = "lock"]
          /\ seen' = [seen EXCEPT ![c] = [version |-> row.version, key |-> row.key]]
      BY <1>2, <2>2 DEF getExecutionWorkspaceByOwner
    <3>2. BrainInv(c)'
      BY <1>0, <2>1, <2>2, <3>1 DEF BrainInv, TypeOK
    <3>3. task[c] = "none" /\ reply[requestOf[c]].version = 0
      BY <1>0, <2>1 DEF BrainInv
    <3> QED BY <1>0, <2>1, <3>1, <3>2, <3>3, BrainGoesOn DEF TypeOK, Kept
  <2>3. CASE ~row.made
    <3>1. pc' = [pc EXCEPT ![c] = "create"] /\ UNCHANGED seen
      BY <1>2, <2>3 DEF getExecutionWorkspaceByOwner
    <3>2. BrainInv(c)'
      BY <1>0, <2>1, <2>3, <3>1 DEF BrainInv, TypeOK
    <3>3. task[c] = "none" /\ reply[requestOf[c]].version = 0
      BY <1>0, <2>1 DEF BrainInv
    <3> QED BY <1>0, <2>1, <3>1, <3>2, <3>3, BrainGoesOn DEF TypeOK, Kept
  <2> QED BY <2>2, <2>3
<1>3. CASE createExecutionWorkspace(c) \/ tryLockExecutionWorkspace(c)
          \/ releaseExecutionWorkspaceLock(c)
  <2>1. /\ UNCHANGED <<committed, objects, seen, exec, results, reply, task, dir, snapshot, requestOf>>
        /\ row'.version = row.version /\ row'.key = row.key /\ (row.made => row'.made)
        /\ pc' = [pc EXCEPT ![c] = pc'[c]]
    BY <1>3 DEF createExecutionWorkspace, tryLockExecutionWorkspace,
                releaseExecutionWorkspaceLock, TypeOK, Row
  <2>2. \/ pc[c] = "create" /\ pc'[c] = "lock" /\ row'.made
        \/ pc[c] = "lock" /\ pc'[c] = "send"
        \/ pc[c] \in {"create", "lock", "unlock"} /\ pc'[c] = "finish"
    BY <1>3 DEF createExecutionWorkspace, tryLockExecutionWorkspace,
                releaseExecutionWorkspaceLock, TypeOK, Row
  <2>3. pc[c] = "create" => seen[c].version = row.version /\ seen[c].key = row.key
    BY <1>0 DEF BrainInv, Kept, Start
  <2>4. BrainInv(c)'
    BY <1>0, <2>1, <2>2, <2>3 DEF BrainInv
  <2>5. CASE pc[c] = "unlock"
    <3>1. Kept' /\ TaskInv(c)' /\ ~Packed(c)
      BY <2>1, <2>2, <2>5, <1>0 DEF Kept, TaskInv, Packed, BrainInv
    <3>2. \A d \in Calls \ {c} : Idle(d)'
      BY <2>1 DEF Busy, Idle, TypeOK
    <3>3. \A e : DirKept(e) <=> DirKept(e)'
      BY <2>1 DEF DirKept
    <3> QED BY <2>1, <2>4, <3>1, <3>2, <3>3 DEF Busy
  <2>6. CASE pc[c] # "unlock"
    <3>1. task[c] = "none" /\ reply[requestOf[c]].version = 0
      BY <1>0, <2>2, <2>6 DEF BrainInv
    <3>2. \A d \in Calls \ {c} : pc'[d] = pc[d]
      BY <2>1 DEF TypeOK
    <3>3. ~row'.made => row.version = 0
      BY <1>0, <2>1 DEF Kept
    <3> QED BY <2>1, <2>4, <3>1, <3>2, <3>3, BrainGoesOn
  <2> QED BY <2>5, <2>6
<1>4. CASE invokeTool(c)
  <2>1. /\ UNCHANGED <<row, committed, objects, seen, exec, results, reply, dir, snapshot, requestOf>>
        /\ pc' = [pc EXCEPT ![c] = "wait"] /\ task' = [task EXCEPT ![c] = "arrived"]
        /\ pc[c] = "send"
    BY <1>4, NoFault DEF invokeTool
  <2>2. pc'[c] = "wait" /\ task'[c] = "arrived"
    BY <2>1 DEF TypeOK
  <2>3. BrainInv(c)'
    BY <1>0, <2>1, <2>2 DEF BrainInv
  <2>4. task[c] = "none" /\ reply[requestOf[c]].version = 0
    BY <1>0, <2>1 DEF BrainInv
  <2> QED BY <1>0, <2>1, <2>2, <2>3, <2>4, BrainGoesOn DEF TypeOK, Kept
<1>5. CASE waitForReply(c)
  <2>1. CASE reply[requestOf[c]].version > 0
    BY <1>5, <2>1, CallCommits
  <2>2. CASE ~(reply[requestOf[c]].version > 0)
    <3>1. /\ UNCHANGED <<row, committed, objects, seen, exec, results, reply, task, dir, snapshot, requestOf>>
          /\ pc' = [pc EXCEPT ![c] = "unlock"] /\ pc[c] = "wait"
          /\ reply[requestOf[c]] # NoReply
      BY <1>5, <2>2 DEF waitForReply
    <3>2. task[c] = "gone" /\ pc'[c] = "unlock"
      BY <1>0, <3>1 DEF BrainInv, TypeOK
    <3>3. BrainInv(c)'
      BY <3>1, <3>2 DEF BrainInv
    <3>4. reply[requestOf[c]].version = 0
      <4>1. requestOf[c] \in Requests
        BY DEF TypeOK, ToolAssumption
      <4>2. reply[requestOf[c]].version \in Versions
        BY <4>1 DEF TypeOK, Reply
      <4> QED BY <2>2, <4>2, NextVersions DEF Versions
    <3> QED BY <1>0, <3>1, <3>2, <3>3, <3>4, BrainGoesOn DEF TypeOK, Kept
  <2> QED BY <2>1, <2>2
<1>6. CASE waitTimesOut(c)
  BY <1>0, <1>6, NoFault DEF waitTimesOut, BrainInv
<1>7. CASE finish(c)
  <2>1. /\ UNCHANGED <<row, committed, objects, seen, exec, task, dir, snapshot, requestOf>>
        /\ pc' = [pc EXCEPT ![c] = "done"] /\ pc[c] = "finish"
        /\ results' = [results EXCEPT ![requestOf[c]] = response[c]]
        /\ reply' = [reply EXCEPT ![requestOf[c]] = [status |-> response[c], version |-> 0]]
    BY <1>7 DEF finish
  <2>2. \A d \in Calls : Idle(d)'
    BY <1>0, <2>1 DEF Busy, BrainInv, Idle, TypeOK
  <2>3. Kept' /\ \A e \in Executors : DirKept(e)' /\ NoneAhead(e)'
    BY <1>0, <2>1 DEF Busy, BrainInv, Packed, Kept, DirKept, NoneAhead
  <2>4. \A r \in Requests : results'[r] = "none" => reply'[r] = NoReply
    <3>1. requestOf[c] \in Requests
      BY DEF TypeOK, ToolAssumption
    <3>2. results'[requestOf[c]] = response[c] /\ reply'[requestOf[c]] = [status |-> response[c], version |-> 0]
      BY <2>1, <3>1 DEF TypeOK
    <3>3. \A r \in Requests \ {requestOf[c]} : results'[r] = results[r] /\ reply'[r] = reply[r]
      BY <2>1 DEF TypeOK
    <3> QED BY <3>2, <3>3 DEF NoReply, Busy
  <2> QED BY <2>2, <2>3, <2>4 DEF Rest
<1> QED BY <1>1, <1>2, <1>3, <1>4, <1>5, <1>6, <1>7 DEF BrainStep

\* While its task is at work the brain waits, for the version of the row.
LEMMA TaskAtWork ==
    ASSUME ToolAssumption, TypeOK, CountInv, NEW c \in Calls, Busy(c),
           task[c] \notin {"none", "gone"}
    PROVE  /\ pc[c] = "wait" /\ reply[requestOf[c]] = NoReply /\ requestOf[c] \in Requests
           /\ seen[c].version = row.version /\ seen[c].key = row.key /\ exec[c] \in Executors
           /\ row.version \in Versions /\ row.version \in Nat /\ row.version + 1 \in Versions
           /\ row.key \in Versions /\ (row.version = 0 => committed = {})
<1>1. pc[c] = "wait"
  BY DEF Busy, BrainInv
<1>2. c \notin committed
  BY <1>1 DEF CountInv, Before
<1>3. row.version = 0 => committed = {}
  BY NextVersions, FS_EmptySet DEF CountInv
<1>4. requestOf[c] \in Requests
  BY DEF TypeOK, ToolAssumption
<1>5. row.key \in Versions
  BY DEF TypeOK, Row
<1> QED BY <1>1, <1>2, <1>3, <1>4, <1>5, NextVersions DEF Busy, BrainInv

\* A step of the task, by what it leaves of each part.
LEMMA TaskGoesOn ==
    ASSUME NEW c \in Calls, Busy(c), pc[c] = "wait",
           UNCHANGED <<row, committed, pc, seen, exec, results, requestOf>>,
           \A d \in Calls \ {c} : task'[d] = task[d],
           task'[c] # "none", reply'[requestOf[c]] = NoReply <=> task'[c] # "gone",
           \A r \in Requests \ {requestOf[c]} : reply'[r] = reply[r],
           row.version > 0 => committed \subseteq objects'[row.key].work,
           \A e \in Executors : snapshot'[e][row.version].there =>
               committed \subseteq snapshot'[e][row.version].work,
           \A e \in Executors, v \in Versions : v > row.version =>
               /\ ~dir'[e][v].there
               /\ snapshot'[e][v].there => Packed(c)' /\ v = row.version + 1,
           \A e \in Executors : ~(task'[c] = "unpack" /\ e = exec[c]) => DirKept(e)',
           TaskInv(c)'
    PROVE  Busy(c)'
<1>1. Kept'
  BY DEF Busy, Kept
<1>2. BrainInv(c)'
  BY DEF Busy, BrainInv
<1>3. \A d \in Calls \ {c} : Idle(d)'
  BY DEF Busy, Idle
<1>4. /\ results'[requestOf'[c]] = "none"
      /\ \A r \in Requests \ {requestOf'[c]} : results'[r] = "none" => reply'[r] = NoReply
  BY DEF Busy
<1> QED BY <1>1, <1>2, <1>3, <1>4 DEF Busy

\* The steps of the task that the call has on an executor.
LEMMA TaskOfCall ==
    ASSUME ToolAssumption, TypeOK, CountInv, NEW c \in Calls, Busy(c), TaskStep(c)
    PROVE  Busy(c)'
<1> USE DEF Turn, Dir, SetDir, Local, SetLocal, Gone, brainSide, rowVars, brainVars
<1> DEFINE next == row.version + 1
           work == committed \cup {c}
           e0 == exec[c]
<1>1. task[c] \notin {"none", "gone"}
  BY DEF TaskStep, taskRefused, ensureWorkspaceExtracted, unpackWorkspace, runScript,
         runConnectorTask, executeEnginePrompt, Works, snapshotWorkspace, uploadWorkspace
<1>2. /\ pc[c] = "wait" /\ reply[requestOf[c]] = NoReply /\ requestOf[c] \in Requests
      /\ seen[c].version = row.version /\ seen[c].key = row.key /\ e0 \in Executors
      /\ row.version \in Versions /\ row.version \in Nat /\ next \in Versions
      /\ row.key \in Versions /\ (row.version = 0 => committed = {})
  BY <1>1, TaskAtWork
<1>3. /\ UNCHANGED <<row, committed, pc, seen, exec, results, requestOf>>
      /\ task' = [task EXCEPT ![c] = task'[c]] /\ task'[c] \notin {"none", "arrived"}
  <2>1. /\ UNCHANGED <<row, committed, pc, seen, exec, results, requestOf>>
        /\ \E p \in {"unpack", "run", "snapshot", "upload", "gone"} : Turn(c, p)
    BY DEF TaskStep, taskRefused, ensureWorkspaceExtracted, unpackWorkspace, runScript,
           runConnectorTask, executeEnginePrompt, Works, snapshotWorkspace, uploadWorkspace
  <2>2. PICK p \in {"unpack", "run", "snapshot", "upload", "gone"} : Turn(c, p)
    BY <2>1
  <2>3. task'[c] = p
    BY <2>2 DEF TypeOK
  <2> QED BY <2>1, <2>2, <2>3
<1>4. \A d \in Calls \ {c} : task'[d] = task[d]
  BY <1>3 DEF TypeOK
<1>5. /\ row.version > 0 => committed \subseteq objects[row.key].work
      /\ \A e \in Executors : snapshot[e][row.version].there =>
             committed \subseteq snapshot[e][row.version].work
      /\ \A e \in Executors, v \in Versions : v > row.version => ~dir[e][v].there
      /\ \A e \in Executors : ~(task[c] = "unpack" /\ e = e0) => DirKept(e)
      /\ \A e \in Executors, v \in Versions :
             v > row.version /\ snapshot[e][v].there => task[c] = "upload" /\ v = next
  BY <1>2 DEF Busy, Kept, Packed, NoReply
<1>6. TaskInv(c) /\ NoReply.version = 0
  BY DEF Busy, NoReply
<1>7. CASE taskRefused(c)
  <2>1. /\ UNCHANGED <<objects, dir, snapshot>> /\ task[c] = "arrived" /\ task'[c] = "gone"
        /\ reply' = [reply EXCEPT ![requestOf[c]] = [status |-> "failed", version |-> 0]]
    BY <1>7 DEF taskRefused, ToolResult, TypeOK
  <2>2. /\ reply'[requestOf[c]] = [status |-> "failed", version |-> 0]
        /\ \A r \in Requests \ {requestOf[c]} : reply'[r] = reply[r]
    BY <1>2, <2>1 DEF TypeOK
  <2>3. ~Packed(c)' /\ TaskInv(c)' /\ reply'[requestOf[c]] # NoReply
    BY <1>3, <2>1, <2>2 DEF Packed, TaskInv, NoReply
  <2>4. \A e \in Executors : DirKept(e)'
    BY <1>3, <1>5, <2>1 DEF DirKept
  <2> QED BY <1>2, <1>3, <1>4, <1>5, <2>1, <2>2, <2>3, <2>4, TaskGoesOn
<1>8. CASE ensureWorkspaceExtracted(c)
  <2>1. UNCHANGED <<objects, reply, snapshot>> /\ task[c] = "arrived"
    BY <1>8 DEF ensureWorkspaceExtracted
  <2>2. CASE Dir(c).there
    <3>1. UNCHANGED dir /\ task'[c] = "run"
      BY <1>8, <2>2 DEF ensureWorkspaceExtracted, TypeOK
    <3>2. \A e \in Executors : DirKept(e)'
      BY <1>3, <1>5, <2>1, <3>1 DEF DirKept
    <3>3. ~Packed(c)' /\ TaskInv(c)'
      BY <1>2, <1>3, <1>6, <2>1, <2>2, <3>1, <3>2 DEF Packed, TaskInv, DirKept
    <3> QED BY <1>2, <1>3, <1>4, <1>5, <2>1, <3>1, <3>2, <3>3, TaskGoesOn
  <2>3. CASE ~Dir(c).there
    <3>1. dir' = [dir EXCEPT ![e0][row.version] = Holds({})]
      BY <1>2, <1>8, <2>3 DEF ensureWorkspaceExtracted
    <3>2. task'[c] = IF row.version = 0 THEN "run" ELSE "unpack"
      BY <1>2, <1>8, <2>3 DEF ensureWorkspaceExtracted, TypeOK
    <3>3. /\ dir'[e0][row.version] = Holds({})
          /\ \A e \in Executors \ {e0} : dir'[e] = dir[e]
          /\ \A v \in Versions \ {row.version} : dir'[e0][v] = dir[e0][v]
      BY <1>2, <3>1 DEF TypeOK
    <3>4. \A e \in Executors : ~(task'[c] = "unpack" /\ e = e0) => DirKept(e)'
      BY <1>2, <1>3, <1>5, <2>1, <3>2, <3>3 DEF DirKept, Holds
    <3>5. ~Packed(c)' /\ TaskInv(c)'
      BY <1>2, <1>3, <1>6, <2>1, <3>2, <3>3 DEF Packed, TaskInv, Holds
    <3>6. \A e \in Executors, v \in Versions : v > row.version => ~dir'[e][v].there
      BY <1>2, <1>5, <3>3
    <3> QED BY <1>2, <1>3, <1>4, <1>5, <2>1, <3>2, <3>4, <3>5, <3>6, TaskGoesOn
  <2> QED BY <2>2, <2>3
<1>9. CASE unpackWorkspace(c)
  <2> DEFINE archive == IF Local(c, seen[c].version).there THEN Local(c, seen[c].version)
                        ELSE objects[seen[c].key]
  <2>1. /\ UNCHANGED <<objects, reply>> /\ task[c] = "unpack" /\ task'[c] = "run"
        /\ snapshot' = [snapshot EXCEPT ![e0][row.version] = archive]
        /\ dir' = [dir EXCEPT ![e0][row.version] = Holds(Dir(c).work \cup archive.work)]
    BY <1>2, <1>9 DEF unpackWorkspace, TypeOK
  <2>2. committed \subseteq archive.work
    BY <1>2, <1>5, <1>6, <2>1 DEF TaskInv
  <2> HIDE DEF archive
  <2>3. /\ snapshot'[e0][row.version] = archive
        /\ dir'[e0][row.version] = Holds(Dir(c).work \cup archive.work)
        /\ \A e \in Executors \ {e0} : dir'[e] = dir[e] /\ snapshot'[e] = snapshot[e]
        /\ \A v \in Versions \ {row.version} :
               dir'[e0][v] = dir[e0][v] /\ snapshot'[e0][v] = snapshot[e0][v]
    BY <1>2, <2>1 DEF TypeOK
  <2>4. committed \subseteq dir'[e0][row.version].work
    BY <2>2, <2>3 DEF Holds
  <2>5. \A e \in Executors : DirKept(e)'
    BY ZenonT(60), <1>3, <1>5, <2>1, <2>3, <2>4 DEF DirKept
  <2>6. \A e \in Executors : snapshot'[e][row.version].there =>
             committed \subseteq snapshot'[e][row.version].work
    BY <1>5, <2>2, <2>3
  <2>7. \A e \in Executors, v \in Versions : v > row.version =>
             ~dir'[e][v].there /\ ~snapshot'[e][v].there
    BY <1>2, <1>5, <2>1, <2>3
  <2>8. TaskInv(c)'
    <3>1. reply'[requestOf'[c]].version = 0 /\ ~Packed(c)'
      BY <1>2, <1>3, <1>6, <2>1 DEF Packed
    <3>2. committed' \subseteq dir'[exec'[c]][row'.version].work
      BY <1>3, <2>4
    <3>3. task'[c] = "run" /\ ~(reply'[requestOf'[c]].version > 0)
      BY <2>1, <3>1
    <3> QED BY <3>1, <3>2, <3>3 DEF TaskInv
  <2> QED BY <1>2, <1>3, <1>4, <1>5, <2>1, <2>5, <2>6, <2>7, <2>8, TaskGoesOn
<1>10. ASSUME NEW s \in {"succeeded", "failed"},
              runScript(c, s) \/ runConnectorTask(c, s) \/ executeEnginePrompt(c, s)
       PROVE  Busy(c)'
  <2>1. /\ task[c] = "run" /\ UNCHANGED <<objects, snapshot>>
        /\ dir' = [dir EXCEPT ![e0][row.version] = Holds(Dir(c).work \cup {c})]
    BY <1>2, <1>10 DEF runScript, runConnectorTask, executeEnginePrompt, Works
  <2>2. \/ task'[c] = "snapshot" /\ UNCHANGED reply
        \/ task'[c] = "gone" /\ ToolResult(c, "failed", 0)
    BY <1>10 DEF runScript, runConnectorTask, executeEnginePrompt, TypeOK
  <2>3. /\ reply'[requestOf[c]] = NoReply <=> task'[c] # "gone"
        /\ reply'[requestOf[c]].version = 0
        /\ \A r \in Requests \ {requestOf[c]} : reply'[r] = reply[r]
    <3>1. CASE task'[c] = "snapshot" /\ UNCHANGED reply
      BY <1>2, <1>6, <3>1
    <3>2. CASE task'[c] = "gone" /\ ToolResult(c, "failed", 0)
      <4>1. /\ reply'[requestOf[c]] = [status |-> "failed", version |-> 0]
            /\ \A r \in Requests \ {requestOf[c]} : reply'[r] = reply[r]
        BY <1>2, <3>2 DEF ToolResult, TypeOK
      <4> QED BY <3>2, <4>1 DEF NoReply
    <3> QED BY <2>2, <3>1, <3>2
  <2>4. /\ dir'[e0][row.version] = Holds(Dir(c).work \cup {c})
        /\ \A e \in Executors \ {e0} : dir'[e] = dir[e]
        /\ \A v \in Versions \ {row.version} : dir'[e0][v] = dir[e0][v]
    BY <1>2, <2>1 DEF TypeOK
  <2>5. work \subseteq dir'[e0][row.version].work
    BY <1>2, <1>6, <2>1, <2>4 DEF TaskInv, Holds
  <2>6. \A e \in Executors : DirKept(e)'
    BY <1>3, <1>5, <2>1, <2>4, <2>5 DEF DirKept
  <2>7. \A e \in Executors, v \in Versions : v > row.version => ~dir'[e][v].there
    BY <1>2, <1>5, <2>4
  <2>8. TaskInv(c)'
    BY <1>2, <1>3, <2>2, <2>3, <2>5 DEF Packed, TaskInv
  <2> QED BY <1>2, <1>3, <1>4, <1>5, <2>1, <2>2, <2>3, <2>6, <2>7, <2>8, TaskGoesOn
<1>11. CASE snapshotWorkspace(c)
  <2>1. /\ task[c] = "snapshot" /\ task'[c] = "upload" /\ UNCHANGED <<objects, reply, dir>>
        /\ snapshot' = [snapshot EXCEPT ![e0][next] = Dir(c)]
    BY <1>2, <1>11 DEF snapshotWorkspace, TypeOK
  <2>2. work \subseteq Dir(c).work
    BY <1>2, <1>6, <2>1 DEF TaskInv
  <2>3. /\ snapshot'[e0][next] = Dir(c)
        /\ \A e \in Executors \ {e0} : snapshot'[e] = snapshot[e]
        /\ \A v \in Versions \ {next} : snapshot'[e0][v] = snapshot[e0][v]
    BY <1>2, <2>1 DEF TypeOK
  <2>4. Packed(c)' /\ next > row.version /\ next # row.version
    BY <1>2, <1>3, <2>1 DEF Packed
  <2>5. \A e \in Executors : snapshot'[e][row.version].there =>
             committed \subseteq snapshot'[e][row.version].work
    BY <1>2, <1>5, <2>3, <2>4
  <2>6. \A e \in Executors, v \in Versions : v > row.version /\ snapshot'[e][v].there =>
             v = next /\ e = e0
    <3>1. \A e \in Executors, v \in Versions : v > row.version => ~snapshot[e][v].there
      BY <1>5, <2>1
    <3> HIDE DEF next
    <3> QED BY <2>3, <3>1
  <2>7. \A e \in Executors : snapshot'[e][next].there => work \subseteq snapshot'[e][next].work
    BY <1>2, <2>2, <2>3, <2>4, <2>6
  <2>8. TaskInv(c)'
    BY <1>2, <1>3, <1>6, <2>1, <2>2, <2>3, <2>7 DEF TaskInv
  <2>9. \A e \in Executors : DirKept(e)'
    BY <1>3, <1>5, <2>1 DEF DirKept
  <2> QED BY <1>2, <1>3, <1>4, <1>5, <2>1, <2>4, <2>5, <2>6, <2>8, <2>9, TaskGoesOn
<1>12. CASE uploadWorkspace(c)
  <2>1. /\ task[c] = "upload" /\ task'[c] = "gone" /\ UNCHANGED <<dir, snapshot>>
        /\ objects' = [objects EXCEPT ![next] = snapshot[e0][next]]
        /\ reply' = [reply EXCEPT ![requestOf[c]] = [status |-> verdict[c], version |-> next]]
    BY <1>2, <1>12 DEF uploadWorkspace, ToolResult, TypeOK
  <2>2. /\ objects'[next] = snapshot[e0][next]
        /\ \A v \in Versions \ {next} : objects'[v] = objects[v]
    BY <1>2, <2>1 DEF TypeOK
  <2>3. /\ reply'[requestOf[c]] = [status |-> verdict[c], version |-> next]
        /\ \A r \in Requests \ {requestOf[c]} : reply'[r] = reply[r]
    BY <1>2, <2>1 DEF TypeOK
  <2>4. reply'[requestOf[c]].version = next /\ next > 0 /\ next > row.version
    BY <1>2, <2>3
  <2>5. /\ work \subseteq snapshot[e0][next].work
        /\ \A e \in Executors : snapshot[e][next].there => work \subseteq snapshot[e][next].work
    BY <1>2, <1>6, <2>1 DEF TaskInv, Packed
  <2>6. Packed(c)' /\ reply'[requestOf[c]] # NoReply
    BY <1>2, <1>3, <1>6, <2>4 DEF Packed
  <2>7. row.version > 0 => committed \subseteq objects'[row.key].work
    BY <1>2, <1>5, <2>2, <2>5
  <2>8. TaskInv(c)'
    BY <1>2, <1>3, <2>1, <2>2, <2>4, <2>5 DEF TaskInv
  <2>9. \A e \in Executors : DirKept(e)'
    BY <1>3, <1>5, <2>1 DEF DirKept
  <2> QED BY <1>2, <1>3, <1>4, <1>5, <2>1, <2>3, <2>6, <2>7, <2>8, <2>9, TaskGoesOn
<1> QED BY <1>7, <1>8, <1>9, <1>10, <1>11, <1>12 DEF TaskStep

-----------------------------------------------------------------------------
\* What was calm was calm before.
LEMMA CalmBefore == ASSUME TypeOK, [Next]_vars, Calm' PROVE Calm
<1> USE DEF Calm, taskVars, faultVars, brainSide
<1>0. /\ faults' = faults \/ faults' = faults + 1 => faults = 0
      /\ UNCHANGED raced => ~raced
  BY DEF TypeOK
<1>1. ASSUME NEW c \in Calls, dispatch(c) PROVE Calm
  BY <1>0, <1>1 DEF dispatch
<1>2. ASSUME NEW c \in Calls, BrainStep(c) PROVE Calm
  BY <1>0, <1>2 DEF BrainStep, selectExecutorForTool, getExecutionWorkspaceByOwner,
     createExecutionWorkspace, tryLockExecutionWorkspace, invokeTool, Fault, waitForReply,
     waitTimesOut, releaseExecutionWorkspaceLock, finish
<1>3. ASSUME NEW c \in Calls, TaskStep(c) PROVE Calm
  BY <1>0, <1>3 DEF TaskStep, taskRefused, ensureWorkspaceExtracted, unpackWorkspace, Works,
     runScript, runConnectorTask, executeEnginePrompt, snapshotWorkspace, uploadWorkspace
<1>4. ASSUME NEW c \in Calls,
             downloadFails(c) \/ uploadFails(c) \/ ExecutorDies(c) \/ BrainDies(c)
      PROVE  Calm
  BY <1>0, <1>4 DEF downloadFails, uploadFails, ExecutorDies, BrainDies, Fault
<1>5. CASE LockExpires \/ UNCHANGED vars
  BY <1>0, <1>5 DEF LockExpires, vars
<1> QED BY <1>1, <1>2, <1>3, <1>4, <1>5 DEF Next

\* A call begins only when the others left nothing behind, and goes on alone.
LEMMA SequentialStep ==
    ASSUME ToolAssumption, TypeOK, CountInv, SequentialInv, [Next]_vars PROVE SequentialInv'
<1> SUFFICES ASSUME Calm' PROVE Rest' \/ \E c \in Calls : Busy(c)'
  BY DEF SequentialInv
<1>1. Calm
  BY CalmBefore
<1>2. CASE LockExpires \/ UNCHANGED vars
  <2>1. /\ row' = [row EXCEPT !.lock = row'.lock]
        /\ UNCHANGED <<committed, objects, seen, exec, results, reply, task, dir, snapshot,
                       requestOf, pc>>
    BY <1>2 DEF LockExpires, vars, rowVars, brainVars, taskVars, faultVars, TypeOK, Row
  <2>2. row \in Row
    BY DEF TypeOK
  <2> QED BY <1>1, <2>1, <2>2, LockMoves DEF SequentialInv
<1>3. ASSUME NEW d \in Calls,
             dispatch(d) \/ BrainStep(d) \/ TaskStep(d) \/ downloadFails(d) \/ uploadFails(d)
             \/ ExecutorDies(d) \/ BrainDies(d)
      PROVE  Rest' \/ \E c \in Calls : Busy(c)'
  <2>1. CASE Rest
    <3>1. dispatch(d)
      BY <1>3, <2>1, IdleWaits DEF Rest
    <3> QED BY <2>1, <3>1, CallBegins
  <2>2. ASSUME NEW c \in Calls \ {d}, Busy(c) PROVE Busy(c)'
    <3>1. dispatch(d)
      BY <1>3, <2>2, IdleWaits DEF Busy
    <3> QED BY <2>2, <3>1, OthersWait
  <2>3. CASE Busy(d)
    <3>1. ~dispatch(d)
      BY <2>3 DEF Busy, BrainInv, dispatch, At
    <3>2. CASE BrainStep(d)
      BY <2>3, <3>2, BrainOfCall
    <3>3. CASE TaskStep(d)
      BY <2>3, <3>3, TaskOfCall
    <3>4. CASE downloadFails(d) \/ uploadFails(d) \/ ExecutorDies(d) \/ BrainDies(d)
      BY <3>4, NoFault DEF downloadFails, uploadFails, ExecutorDies, BrainDies
    <3> QED BY <1>3, <3>1, <3>2, <3>3, <3>4
  <2> QED BY <1>1, <2>1, <2>2, <2>3 DEF SequentialInv
<1> QED BY <1>2, <1>3 DEF Next

\* Every version is one call's commit, calls that follow one another without a
\* fault keep all the work (the caches of snapshot-cache.ts), and a node told
\* to have succeeded has its work committed (invokeToolOnExecutor): for any
\* number of calls, requests and executors.
THEOREM WorkspaceIsKept == Spec => []WorkspaceHolds
<1> USE ToolAssumption
<1>1. Init => BackedInv /\ SequentialInv
  <2> SUFFICES ASSUME Init PROVE BackedInv /\ SequentialInv
    OBVIOUS
  <2>1. BackedInv
    BY DEF Init, BackedInv, NoReply
  <2>2. Kept /\ \A e \in Executors : DirKept(e) /\ NoneAhead(e)
    BY NoVersion DEF Init, Kept, DirKept, NoneAhead, Absent
  <2>3. Rest
    BY <2>2 DEF Init, Rest, Idle, Start
  <2> QED BY <2>1, <2>3 DEF SequentialInv
<1>2. TypeOK /\ ExecInv /\ CountInv /\ BackedInv /\ SequentialInv /\ [Next]_vars
         => BackedInv' /\ SequentialInv'
  BY BackedStep, SequentialStep
<1>3. CountInv /\ BackedInv /\ SequentialInv => WorkspaceHolds
  <2> SUFFICES ASSUME CountInv, BackedInv, SequentialInv PROVE WorkspaceHolds
    OBVIOUS
  <2>1. VersionsCounted
    BY DEF CountInv, VersionsCounted
  <2>2. Calm => Kept
    BY DEF SequentialInv, Rest, Busy
  <2>3. SequentialKeepsWork
    BY <2>2 DEF SequentialKeepsWork, Calm, Kept
  <2>4. SuccessIsCommitted
    BY DEF BackedInv, Backed, Ended, SuccessIsCommitted
  <2> QED BY <2>1, <2>3, <2>4 DEF WorkspaceHolds
<1> QED BY <1>1, <1>2, <1>3, TypesHold, PTL DEF Spec

\* What workers, brains and channels do is, of a workspace, what its calls do.
LEMMA WorkIsCalls == WorkSpec => Spec
<1>1. WorkInit => Init BY DEF WorkInit
<1>2. [WorkNext]_allVars => [Next]_vars BY DEF WorkNext, allVars
<1> QED BY <1>1, <1>2, PTL DEF WorkSpec, Spec

\* The same beside the graph, the loop and the channel.
THEOREM WorkspaceIsKeptAtWork == WorkSpec => []WorkspaceHolds
BY WorkIsCalls, WorkspaceIsKept, PTL

-----------------------------------------------------------------------------
(* The loop: what its history tells.                                       *)

\* Indices never fall, a call's is greater than those before it, and a result
\* follows its call.
Tells(h) ==
    /\ \A i \in 1..Len(h) : h[i].of = h[i].callIndex
    /\ \A i, j \in 1..Len(h) : i < j => h[i].callIndex <= h[j].callIndex
    /\ \A i, j \in 1..Len(h) : i < j /\ h[j].kind = "tool_call" => h[i].callIndex < h[j].callIndex
    /\ \A i \in 2..Len(h) : h[i].kind = "tool_result" =>
          /\ h[i - 1].kind = "tool_call"
          /\ h[i - 1].callIndex = h[i].callIndex /\ h[i - 1].tool = h[i].tool

\* A state of the loop, as a job has it or the store.
Told(s) ==
    /\ s \in Loo!State
    /\ Tells(s.history)
    /\ \A i \in 1..Len(s.history) : s.history[i].callIndex <= s.toolCalls
    /\ \A k \in DOMAIN s.results : s.results[k].of = k

\* A state whose last call is c, without a result.
Asks(s, c) ==
    /\ c \in Loo!Call /\ c.index <= s.toolCalls
    /\ Len(s.history) > 0 => s.history[Len(s.history)] = Loo!Called(c)

-----------------------------------------------------------------------------
\* A suffix of a history is one (trimAgentState).
LEMMA SuffixTells ==
    ASSUME NEW h \in Seq(Loo!Entry), Tells(h), NEW m \in 1..Len(h) + 1, NEW t \in Seq(Loo!Entry),
           Len(t) = Len(h) - m + 1, \A i \in 1..Len(t) : t[i] = h[m + i - 1]
    PROVE  Tells(t)
<1>0. Len(h) \in Nat /\ Len(t) \in Nat /\ m \in Nat OBVIOUS
<1>1. \A i \in 1..Len(t) : m + i - 1 \in 1..Len(h) BY <1>0
<1>2. ASSUME NEW i \in 1..Len(t) PROVE t[i].of = t[i].callIndex
  BY <1>1 DEF Tells
<1>3. ASSUME NEW i \in 1..Len(t), NEW j \in 1..Len(t), i < j
      PROVE  /\ t[i].callIndex <= t[j].callIndex
             /\ t[j].kind = "tool_call" => t[i].callIndex < t[j].callIndex
  <2>1. m + i - 1 \in 1..Len(h) /\ m + j - 1 \in 1..Len(h) /\ m + i - 1 < m + j - 1 BY <1>0, <1>1, <1>3
  <2> QED BY <2>1 DEF Tells
<1>4. ASSUME NEW i \in 2..Len(t), t[i].kind = "tool_result"
      PROVE  /\ t[i - 1].kind = "tool_call"
             /\ t[i - 1].callIndex = t[i].callIndex /\ t[i - 1].tool = t[i].tool
  <2>1. i \in 1..Len(t) /\ i - 1 \in 1..Len(t) BY <1>0
  <2>2. m + i - 1 \in 2..Len(h) /\ m + (i - 1) - 1 = (m + i - 1) - 1 BY <1>0, <1>1, <2>1
  <2>3. t[i] = h[m + i - 1] /\ t[i - 1] = h[(m + i - 1) - 1] BY <2>1, <2>2
  <2> QED BY <1>4, <2>2, <2>3 DEF Tells
<1> QED BY <1>2, <1>3, <1>4 DEF Tells

\* Trimming forgets entries and results, and nothing else (trimAgentState).
LEMMA TrimmedTells ==
    ASSUME LoopAssumption, NEW s, Told(s)
    PROVE  /\ Told(Loo!trimAgentState(s))
           /\ Loo!trimAgentState(s).toolCalls = s.toolCalls
           /\ Loo!trimAgentState(s).pending = s.pending
           /\ \A c : Asks(s, c) => Asks(Loo!trimAgentState(s), c)
<1>1. CASE Len(s.history) <= MaxHistory BY <1>1 DEF Loo!trimAgentState
<1>2. CASE ~ (Len(s.history) <= MaxHistory)
  <2> DEFINE h == s.history
             m == Len(h) - MaxHistory + 1
             kept == SubSeq(h, m, Len(h))
             keep == {kept[i].callIndex : i \in DOMAIN kept}
                       \cup IF s.pending = None THEN {} ELSE {s.pending.index}
             known == DOMAIN s.results \cap keep
             left == [x1 \in known |-> s.results[x1]]
             t == [s EXCEPT !.history = kept, !.results = left]
  <2>1. Loo!trimAgentState(s) = t
    BY <1>2 DEF Loo!trimAgentState, Loo!Restrict
  <2>2. h \in Seq(Loo!Entry) /\ Len(h) \in Nat /\ MaxHistory \in Nat /\ s \in Loo!State
    BY DEF Told, Loo!State, LoopAssumption
  <2>3. m \in 1..Len(h) + 1 /\ m \in Int BY <1>2, <2>2
  <2>4. \A i \in m..Len(h) : h[i] \in Loo!Entry
    BY <2>2, <2>3, ElementOfSeq
  <2>5. /\ kept \in Seq(Loo!Entry)
        /\ Len(kept) = IF m <= Len(h) THEN Len(h) - m + 1 ELSE 0
        /\ \A i \in 1..Len(h) - m + 1 : kept[i] = h[m + i - 1]
    <3> HIDE DEF m
    <3> QED BY <2>2, <2>3, <2>4, SubSeqProperties
  <2>6. Len(kept) = Len(h) - m + 1 /\ \A i \in 1..Len(kept) : kept[i] = h[m + i - 1]
    <3> HIDE DEF m, kept
    <3> QED BY <2>2, <2>3, <2>5
  <2>7. Tells(kept)
    <3> HIDE DEF m, kept
    <3> QED BY <2>2, <2>3, <2>5, <2>6, SuffixTells DEF Told
  <2>8. left \in UNION {[d -> [tool : Loo!ToolNames, of : Loo!CallNumbers]] : d \in SUBSET Loo!CallNumbers}
    <3> HIDE DEF keep
    <3>1. PICK d \in SUBSET Loo!CallNumbers : s.results \in [d -> [tool : Loo!ToolNames, of : Loo!CallNumbers]]
      BY <2>2 DEF Loo!State
    <3>2. known \in SUBSET Loo!CallNumbers /\ left \in [known -> [tool : Loo!ToolNames, of : Loo!CallNumbers]]
      BY <3>1
    <3> QED BY <3>2
  <2>9. t \in Loo!State
    <3> HIDE DEF kept, left
    <3> QED BY <2>2, <2>5, <2>8 DEF Loo!State
  <2>10. t.history = kept /\ t.results = left /\ t.toolCalls = s.toolCalls /\ t.pending = s.pending
    <3> HIDE DEF kept, left
    <3> QED BY <2>2 DEF Loo!State
  <2>11. \A k \in DOMAIN left : left[k].of = k
    <3> HIDE DEF keep
    <3>1. \A k \in known : k \in DOMAIN s.results /\ left[k] = s.results[k] OBVIOUS
    <3>2. DOMAIN left = known OBVIOUS
    <3>3. \A k \in DOMAIN s.results : s.results[k].of = k BY DEF Told
    <3> HIDE DEF left, known
    <3> QED BY <3>1, <3>2, <3>3
  <2>12. \A i \in 1..Len(kept) : kept[i].callIndex <= s.toolCalls
    <3>1. \A i \in 1..Len(h) : h[i].callIndex <= s.toolCalls BY DEF Told
    <3> HIDE DEF kept, m, h
    <3> TAKE i \in 1..Len(kept)
    <3>2. m + i - 1 \in 1..Len(h) BY <2>2, <2>3, <2>6
    <3> QED BY <2>6, <3>1, <3>2
  <2>13. ASSUME NEW c, Asks(s, c) PROVE Asks(t, c)
    <3> HIDE DEF kept, m, left, t
    <3>1. Len(kept) > 0 => kept[Len(kept)] = h[Len(h)] /\ Len(h) > 0 BY <2>2, <2>3, <2>6
    <3> QED BY <2>10, <2>13, <3>1 DEF Asks
  <2> HIDE DEF t, kept, left
  <2> QED BY <2>1, <2>7, <2>9, <2>10, <2>11, <2>12, <2>13 DEF Told
<1> QED BY <1>1, <1>2

\* Two entries of one index are of one tool, and what stands before an entry
\* is an earlier call, or the call of its result.
LEMMA TellsTheCalls ==
    ASSUME NEW s, Told(s)
    PROVE  /\ \A i \in DOMAIN s.history : s.history[i].of = s.history[i].callIndex
           /\ \A k \in DOMAIN s.results : s.results[k].of = k
           /\ \A i, j \in DOMAIN s.history :
                 s.history[i].callIndex = s.history[j].callIndex => s.history[i].tool = s.history[j].tool
           /\ \A i \in 2..Len(s.history) :
                 IF s.history[i].kind = "tool_call"
                 THEN s.history[i - 1].callIndex < s.history[i].callIndex
                 ELSE /\ s.history[i - 1].kind = "tool_call"
                      /\ s.history[i - 1].callIndex = s.history[i].callIndex
<1> DEFINE h == s.history
<1>1. h \in Seq(Loo!Entry) /\ Len(h) \in Nat /\ DOMAIN h = 1..Len(h) BY DEF Told, Loo!State
<1> HIDE DEF h
<1>2. ASSUME NEW i \in 1..Len(h)
      PROVE  h[i].kind \in {"tool_call", "tool_result"} /\ h[i].callIndex \in Nat
  <2>1. h[i] \in Loo!Entry BY <1>1, ElementOfSeq
  <2> QED BY <2>1, LoopAssumption DEF Loo!Entry, Loo!CallNumbers
<1>3. Tells(h) BY DEF Told, h
<1>4. ASSUME NEW i \in 1..Len(h), NEW j \in 1..Len(h), i < j, h[i].callIndex = h[j].callIndex
      PROVE  h[i].tool = h[j].tool
  <2>1. h[j].kind # "tool_call" BY <1>2, <1>3, <1>4 DEF Tells
  <2>2. j \in 2..Len(h) /\ h[j].kind = "tool_result" BY <1>1, <1>2, <1>4, <2>1
  <2>3. h[j - 1].kind = "tool_call" /\ h[j - 1].callIndex = h[j].callIndex /\ h[j - 1].tool = h[j].tool
    BY <1>3, <2>2 DEF Tells
  <2>4. j - 1 \in 1..Len(h) BY <1>1, <2>2
  <2>5. ~ (i < j - 1) BY <1>2, <1>3, <1>4, <2>3, <2>4 DEF Tells
  <2>6. i = j - 1 BY <1>1, <1>4, <2>5
  <2> QED BY <2>3, <2>6
<1>5. \A i, j \in 1..Len(h) : h[i].callIndex = h[j].callIndex => h[i].tool = h[j].tool
  <2> TAKE i, j \in 1..Len(h)
  <2>1. i \in Nat /\ j \in Nat OBVIOUS
  <2>2. i < j \/ i = j \/ j < i BY <2>1
  <2> QED BY <1>4, <2>2
<1>6. ASSUME NEW i \in 2..Len(h)
      PROVE  IF h[i].kind = "tool_call" THEN h[i - 1].callIndex < h[i].callIndex
             ELSE h[i - 1].kind = "tool_call" /\ h[i - 1].callIndex = h[i].callIndex
  <2>1. i \in 1..Len(h) /\ i - 1 \in 1..Len(h) /\ i - 1 < i BY <1>1
  <2> QED BY <1>2, <1>3, <2>1 DEF Tells
<1> QED BY <1>1, <1>3, <1>5, <1>6 DEF Told, Tells, h

\* An entry put behind the others (storeResult, and the call in toolCall).
LEMMA AppendTells ==
    ASSUME NEW h \in Seq(Loo!Entry), Tells(h), NEW e \in Loo!Entry, e.of = e.callIndex,
           \A i \in 1..Len(h) : h[i].callIndex <= e.callIndex,
           e.kind = "tool_call" => \A i \in 1..Len(h) : h[i].callIndex < e.callIndex,
           e.kind = "tool_result" /\ Len(h) > 0 =>
               /\ h[Len(h)].kind = "tool_call"
               /\ h[Len(h)].callIndex = e.callIndex /\ h[Len(h)].tool = e.tool
    PROVE  Append(h, e) \in Seq(Loo!Entry) /\ Tells(Append(h, e))
<1> DEFINE t == Append(h, e)
           n == Len(h)
<1>1. /\ t \in Seq(Loo!Entry) /\ n \in Nat /\ Len(t) = n + 1 /\ t[n + 1] = e
      /\ \A i \in 1..n : t[i] = h[i] OBVIOUS
<1> HIDE DEF t
<1>2. \A i \in 1..Len(t) : i \in 1..n \/ i = n + 1 BY <1>1
<1> HIDE DEF n
<1>3. \A i \in 1..Len(t) : t[i].of = t[i].callIndex BY <1>1, <1>2 DEF Tells, n
<1>4. ASSUME NEW i \in 1..Len(t), NEW j \in 1..Len(t), i < j
      PROVE  /\ t[i].callIndex <= t[j].callIndex
             /\ t[j].kind = "tool_call" => t[i].callIndex < t[j].callIndex
  <2>1. i \in 1..n BY <1>1, <1>4
  <2>2. CASE j = n + 1 BY <1>1, <2>1, <2>2 DEF n
  <2>3. CASE j \in 1..n BY <1>1, <1>4, <2>1, <2>3 DEF Tells, n
  <2> QED BY <1>2, <2>2, <2>3
<1>5. ASSUME NEW i \in 2..Len(t), t[i].kind = "tool_result"
      PROVE  /\ t[i - 1].kind = "tool_call"
             /\ t[i - 1].callIndex = t[i].callIndex /\ t[i - 1].tool = t[i].tool
  <2>1. CASE i = n + 1
    <3>1. n > 0 /\ i - 1 = n /\ n \in 1..n BY <1>1, <2>1
    <3>2. t[i - 1] = h[n] /\ t[i] = e BY <1>1, <2>1, <3>1
    <3> QED BY <1>5, <3>1, <3>2 DEF n
  <2>2. CASE i # n + 1
    <3>1. i \in 2..n /\ i \in 1..n /\ i - 1 \in 1..n BY <1>1, <2>2
    <3>2. t[i - 1] = h[i - 1] /\ t[i] = h[i] BY <1>1, <3>1
    <3> QED BY <1>5, <3>1, <3>2 DEF Tells, n
  <2> QED BY <2>1, <2>2
<1>6. Tells(t) BY <1>3, <1>4, <1>5 DEF Tells
<1> QED BY <1>1, <1>6 DEF t

\* The result of the call that a state waits with is that call's.
LEMMA StoredTells ==
    ASSUME LoopAssumption, NEW s, Told(s), NEW c, Asks(s, c)
    PROVE  /\ Told(Loo!storeResult(s, c, c.index))
           /\ Loo!storeResult(s, c, c.index).toolCalls = s.toolCalls
           /\ Loo!storeResult(s, c, c.index).pending = s.pending
<1> DEFINE h == s.history
           e == Loo!Answered(c, c.index)
           known == DOMAIN s.results \cup {c.index}
           res == [k \in known |-> IF k = c.index THEN [tool |-> c.tool, of |-> c.index] ELSE s.results[k]]
           t == [s EXCEPT !.history = Append(h, e), !.results = res]
<1>1. Loo!storeResult(s, c, c.index) = t BY DEF Loo!storeResult
<1>2. h \in Seq(Loo!Entry) /\ Len(h) \in Nat /\ s \in Loo!State BY DEF Told, Loo!State
<1>3. c.tool \in Loo!ToolNames /\ c.index \in Loo!CallNumbers /\ c.index \in Nat
  BY LoopAssumption DEF Asks, Loo!Call, Loo!CallNumbers
<1>4. /\ e \in Loo!Entry /\ e.kind = "tool_result" /\ e.tool = c.tool
      /\ e.callIndex = c.index /\ e.of = c.index
  BY <1>3 DEF Loo!Answered, Loo!Entry
<1>5. Len(h) > 0 => /\ h[Len(h)].kind = "tool_call"
                    /\ h[Len(h)].callIndex = c.index /\ h[Len(h)].tool = c.tool
  BY DEF Asks, Loo!Called
<1>6. \A i \in 1..Len(h) : h[i].callIndex <= c.index
  <2> TAKE i \in 1..Len(h)
  <2>1. Len(h) \in 1..Len(h) /\ Len(h) > 0 BY <1>2
  <2>2. i = Len(h) \/ i < Len(h) BY <1>2
  <2> HIDE DEF h
  <2>3. Tells(h) BY DEF Told, h
  <2> QED BY <1>3, <1>5, <2>1, <2>2, <2>3 DEF Tells
<1>7. Append(h, e) \in Seq(Loo!Entry) /\ Tells(Append(h, e))
  <2> HIDE DEF h, e
  <2>1. Tells(h) BY DEF Told, h
  <2> QED BY <1>2, <1>4, <1>5, <1>6, <2>1, AppendTells
<1>8. res \in UNION {[d -> [tool : Loo!ToolNames, of : Loo!CallNumbers]] : d \in SUBSET Loo!CallNumbers}
  <2>1. PICK d \in SUBSET Loo!CallNumbers : s.results \in [d -> [tool : Loo!ToolNames, of : Loo!CallNumbers]]
    BY <1>2 DEF Loo!State
  <2>2. known \in SUBSET Loo!CallNumbers /\ res \in [known -> [tool : Loo!ToolNames, of : Loo!CallNumbers]]
    BY <1>3, <2>1
  <2> QED BY <2>2
<1>9. t \in Loo!State
  <2> HIDE DEF res, e
  <2> QED BY <1>2, <1>7, <1>8 DEF Loo!State
<1>10. t.history = Append(h, e) /\ t.results = res /\ t.toolCalls = s.toolCalls /\ t.pending = s.pending
  <2> HIDE DEF res, e
  <2> QED BY <1>2 DEF Loo!State
<1>11. \A k \in DOMAIN res : res[k].of = k
  <2>1. \A k \in DOMAIN s.results : s.results[k].of = k BY DEF Told
  <2> QED BY <2>1
<1>12. \A i \in 1..Len(Append(h, e)) : Append(h, e)[i].callIndex <= s.toolCalls
  <2>1. \A i \in 1..Len(h) : h[i].callIndex <= s.toolCalls BY DEF Told
  <2>2. c.index <= s.toolCalls BY DEF Asks
  <2> HIDE DEF h, e
  <2>3. ASSUME NEW i \in 1..Len(Append(h, e)) PROVE Append(h, e)[i].callIndex <= s.toolCalls
    <3>1. i \in 1..Len(h) \/ i = Len(h) + 1 BY <1>2
    <3> QED BY <1>2, <1>4, <2>1, <2>2, <3>1
  <2> QED BY <2>3
<1> HIDE DEF t, res, e, h
<1> QED BY <1>1, <1>7, <1>9, <1>10, <1>11, <1>12 DEF Told

\* A call is recorded under the next index (toolCall).
NextCall(s, tool) == [tool |-> tool, index |-> s.toolCalls + 1]
WithCall(s, c) == [[s EXCEPT !.turns = @ + 1] EXCEPT !.toolCalls = c.index,
                                                     !.history = Append(@, Loo!Called(c))]
AsksNext(s, t, c) == Told(t) /\ t.toolCalls = c.index /\ t.pending = s.pending /\ Asks(t, c)

LEMMA CalledTells ==
    ASSUME LoopAssumption, NEW s, Told(s), s.toolCalls < MaxToolCalls, NEW tool \in Loo!ToolNames
    PROVE  AsksNext(s, WithCall(s, NextCall(s, tool)), NextCall(s, tool))
<1> SUFFICES
      ASSUME NEW c, c = [tool |-> tool, index |-> s.toolCalls + 1],
             NEW t, t = [[s EXCEPT !.turns = @ + 1] EXCEPT !.toolCalls = c.index,
                                                           !.history = Append(@, Loo!Called(c))]
      PROVE  AsksNext(s, t, c)
  BY DEF NextCall, WithCall
<1> DEFINE h == s.history
           e == Loo!Called(c)
<1>1. h \in Seq(Loo!Entry) /\ Len(h) \in Nat /\ s \in Loo!State /\ s.toolCalls \in Nat /\ s.turns \in Nat
  BY LoopAssumption DEF Told, Loo!State
<1>2. /\ c \in Loo!Call /\ c.tool = tool /\ c.index = s.toolCalls + 1 /\ c.index \in Loo!CallNumbers
      /\ c.index \in 0..MaxToolCalls
  BY <1>1, LoopAssumption DEF Loo!Call, Loo!CallNumbers
<1>3. /\ e \in Loo!Entry /\ e.kind = "tool_call" /\ e.tool = c.tool
      /\ e.callIndex = c.index /\ e.of = c.index
  BY <1>2 DEF Loo!Called, Loo!Entry
<1>4. \A i \in 1..Len(h) : h[i].callIndex <= s.toolCalls /\ h[i].callIndex \in Nat
  <2>1. ASSUME NEW i \in 1..Len(h) PROVE h[i].callIndex \in Nat
    <3>1. h[i] \in Loo!Entry BY <1>1, ElementOfSeq
    <3> QED BY <3>1, LoopAssumption DEF Loo!Entry, Loo!CallNumbers
  <2> QED BY <2>1 DEF Told
<1>5. \A i \in 1..Len(h) : h[i].callIndex <= c.index /\ h[i].callIndex < c.index
  <2> HIDE DEF h
  <2> QED BY <1>1, <1>2, <1>4
<1>6. Append(h, e) \in Seq(Loo!Entry) /\ Tells(Append(h, e))
  <2> HIDE DEF h, e
  <2>1. Tells(h) BY DEF Told, h
  <2> QED BY <1>1, <1>3, <1>5, <2>1, AppendTells
<1>7. /\ t.history = Append(h, e) /\ t.results = s.results /\ t.toolCalls = c.index
      /\ t.pending = s.pending /\ t \in Loo!State
  <2>1. t = [s EXCEPT !.turns = s.turns + 1, !.toolCalls = c.index, !.history = Append(h, e)]
    BY <1>1 DEF Loo!State
  <2>2. s.turns + 1 \in Nat BY <1>1
  <2> DEFINE later == Append(h, e)
  <2> HIDE DEF e, later
  <2>3. later \in Seq(Loo!Entry) BY <1>6 DEF later
  <2>4. t = [s EXCEPT !.turns = s.turns + 1, !.toolCalls = c.index, !.history = later] BY <2>1 DEF later
  <2>5. /\ t.history = later /\ t.results = s.results /\ t.toolCalls = c.index
        /\ t.pending = s.pending /\ t \in Loo!State
    BY <1>1, <1>2, <2>2, <2>3, <2>4 DEF Loo!State
  <2> QED BY <2>5 DEF later
<1>8. \A i \in 1..Len(Append(h, e)) : Append(h, e)[i].callIndex <= c.index
  <2> HIDE DEF h, e
  <2>1. ASSUME NEW i \in 1..Len(Append(h, e)) PROVE Append(h, e)[i].callIndex <= c.index
    <3>1. i \in 1..Len(h) \/ i = Len(h) + 1 BY <1>1
    <3>2. c.index \in Nat BY <1>1, <1>2
    <3>3. CASE i \in 1..Len(h) BY <1>1, <1>5, <3>3
    <3>4. CASE i = Len(h) + 1 BY <1>1, <1>3, <3>2, <3>4
    <3> QED BY <3>1, <3>3, <3>4
  <2> QED BY <2>1
<1>9. Len(Append(h, e)) = Len(h) + 1 /\ Append(h, e)[Len(h) + 1] = e
  <2> HIDE DEF h, e
  <2> QED BY <1>1
<1>10. \A k \in DOMAIN t.results : t.results[k].of = k BY <1>7 DEF Told
<1> HIDE DEF h
<1>11. Told(t) BY <1>6, <1>7, <1>8, <1>10 DEF Told
<1>12. Asks(t, c)
  <2>1. t.history[Len(t.history)] = Loo!Called(c) BY <1>7, <1>9 DEF e
  <2>2. c.index <= t.toolCalls BY <1>1, <1>2, <1>7
  <2> QED BY <1>2, <2>1, <2>2 DEF Asks
<1> QED BY <1>7, <1>11, <1>12 DEF AsksNext

LEMMA PendingTells ==
    ASSUME NEW s, Told(s), NEW p \in Loo!Call \cup {None}, NEW t, t = [s EXCEPT !.pending = p]
    PROVE  /\ Told(t) /\ t.toolCalls = s.toolCalls /\ t.pending = p
           /\ \A c : Asks(s, c) => Asks(t, c)
<1>1. s \in Loo!State BY DEF Told
<1>2. /\ t \in Loo!State /\ t.history = s.history /\ t.results = s.results
      /\ t.toolCalls = s.toolCalls /\ t.pending = p BY <1>1 DEF Loo!State
<1>3. Told(t) BY <1>2 DEF Told
<1>4. \A c : Asks(s, c) => Asks(t, c) BY <1>2 DEF Asks
<1> QED BY <1>2, <1>3, <1>4

LEMMA FreshTells == ASSUME LoopAssumption PROVE Told(Loo!Fresh) /\ Loo!Fresh.toolCalls = 0
<1> DEFINE R == [tool : Loo!ToolNames, of : Loo!CallNumbers]
<1>1. << >> \in Seq(Loo!Entry) /\ Len(<< >>) = 0 OBVIOUS
<1>2. << >> \in [{} -> R] OBVIOUS
<1>3. << >> \in UNION {[d -> R] : d \in SUBSET Loo!CallNumbers}
  <2>1. {} \in SUBSET Loo!CallNumbers OBVIOUS
  <2> HIDE DEF R
  <2> QED BY <1>2, <2>1
<1>4. /\ Loo!Fresh \in Loo!State /\ Loo!Fresh.history = << >> /\ Loo!Fresh.results = << >>
      /\ Loo!Fresh.toolCalls = 0
  <2>1. MaxToolCalls \in Nat /\ 0 \in 0..MaxToolCalls BY LoopAssumption DEF LoopAssumption
  <2> DEFINE Results == UNION {[d -> R] : d \in SUBSET Loo!CallNumbers}
  <2>2. Loo!State = [toolCalls : 0..MaxToolCalls, turns : Nat, history : Seq(Loo!Entry),
                     results : Results, pending : Loo!Call \cup {None}]
    BY DEF Loo!State
  <2>3. << >> \in Results BY <1>3
  <2> HIDE DEF Results, R
  <2>4. Loo!Fresh \in Loo!State BY <1>1, <2>1, <2>2, <2>3 DEF Loo!Fresh
  <2> QED BY <2>4 DEF Loo!Fresh
<1>5. Tells(<< >>) BY <1>1 DEF Tells
<1> QED BY <1>1, <1>4, <1>5 DEF Told

-----------------------------------------------------------------------------
(* The loop: what a job and the store know.                                *)

SavedTold ==
    /\ saved = [state |-> saved.state, remote |-> saved.remote]
    /\ saved.state = None \/ Told(saved.state)
    /\ ran \in [Loo!CallNumbers -> Nat]

\* A job knows what the store knows, and more.
JobTold ==
    /\ loop = None \/ Told(loop)
    /\ loopPc # "idle" => /\ run = "running" /\ Told(loop)
                          /\ saved.state # None => saved.state.toolCalls <= loop.toolCalls

\* A call that has not run is in no checkpoint.
CallsAsked ==
    /\ loopPc \in {"tool", "team", "result"} => Asks(loop, call)
    /\ loopPc \in {"tool", "team"} =>
          call.index = loop.toolCalls /\ (saved.state # None => saved.state.toolCalls < call.index)

\* The stored state waits for the result of its last call.
Waits ==
    /\ saved.state # None /\ saved.state.pending # None
    /\ Asks(saved.state, saved.state.pending)

RemoteAsked ==
    /\ loopPc = "dispatch" => Waits /\ saved.state.pending = call
    /\ run = "blocked" => loopPc = "idle" /\ Waits /\ asked = saved.state.pending.index
    /\ saved.remote # None => /\ Waits /\ saved.remote.of = saved.state.pending.index
                              /\ loopPc \in {"idle", "resume"}
    /\ loopPc = "resume" => saved.remote # None /\ loop = saved.state

Outputs == {None} \cup [mate : DOMAIN Team, status : {"succeeded", "failed"}]
TeamAtWork ==
    /\ team # None => loopPc = "team"
    /\ loopPc = "team" =>
          /\ team \in [next : Nat \ {0}, doing : SUBSET (DOMAIN Tasks), outputs : [DOMAIN Tasks -> Outputs]]
          /\ Cardinality(team.doing) <= MaxParallel
          /\ \A i \in DOMAIN Tasks : team.outputs[i] # None => team.outputs[i].mate = Tasks[i]

LoopInv == SavedTold /\ JobTold /\ CallsAsked /\ RemoteAsked /\ TeamAtWork /\ Loo!PolicyBoundsTheTeam

LEMMA LoopInit == ASSUME LoopAssumption, Loo!Init PROVE LoopInv
<1>1. ran \in [Loo!CallNumbers -> Nat]
  BY DEF Loo!Init
<1>2. SavedTold /\ JobTold /\ CallsAsked /\ RemoteAsked /\ TeamAtWork
  BY <1>1 DEF Loo!Init, SavedTold, JobTold, CallsAsked, RemoteAsked, TeamAtWork
<1>3. Loo!PolicyBoundsTheTeam BY DEF Loo!Init, Loo!PolicyBoundsTheTeam
<1> QED BY <1>2, <1>3 DEF LoopInv

\* However a job ends, the store has what it had (the worker's catch, and a crash).
LEMMA JobLeaves ==
    ASSUME LoopInv, Loo!jobEnds, run' # "blocked", UNCHANGED <<saved, ran, used>>
    PROVE  LoopInv'
<1>1. loopPc' = "idle" /\ loop' = None /\ team' = None /\ saved' = saved /\ run' # "blocked"
  BY DEF Loo!jobEnds
<1>2. SavedTold' BY <1>1 DEF LoopInv, SavedTold
<1>3. JobTold' /\ CallsAsked' BY <1>1 DEF JobTold, CallsAsked
<1>4. RemoteAsked' BY <1>1 DEF LoopInv, RemoteAsked, Waits
<1>5. TeamAtWork' BY <1>1 DEF TeamAtWork
<1>6. Loo!PolicyBoundsTheTeam' BY DEF LoopInv, Loo!PolicyBoundsTheTeam
<1> QED BY <1>2, <1>3, <1>4, <1>5, <1>6 DEF LoopInv

\* A checkpoint of what the job knows (checkpointRuntime).
LEMMA Checkpointed ==
    ASSUME LoopAssumption, NEW s, Told(s), Loo!checkpointRuntime(s), ran' = ran
    PROVE  /\ Told(loop') /\ loop' # None /\ loop'.toolCalls = s.toolCalls /\ loop'.pending = s.pending
           /\ saved' = [state |-> loop', remote |-> None] /\ saved'.state = loop' /\ saved'.remote = None
           /\ \A c : Asks(s, c) => Asks(loop', c)
<1>1. loop' = Loo!trimAgentState(s) /\ saved' = [state |-> loop', remote |-> None]
  BY DEF Loo!checkpointRuntime
<1>2. /\ Told(loop') /\ loop'.toolCalls = s.toolCalls /\ loop'.pending = s.pending
      /\ \A c : Asks(s, c) => Asks(loop', c)
  BY <1>1, TrimmedTells
<1>3. loop' # None BY <1>2, LoopAssumption DEF Told
<1> QED BY <1>1, <1>2, <1>3

LEMMA LoopFails ==
    ASSUME LoopInv, Loo!failed, run = "running", UNCHANGED <<ran, asked, used>>
    PROVE  LoopInv'
BY JobLeaves DEF Loo!failed, Loo!Retried

LEMMA JobDies == ASSUME LoopInv, Loo!crash PROVE LoopInv'
BY JobLeaves DEF Loo!crash

\* An attempt knows nothing (markWorkflowRunRunning).
LEMMA AttemptBegins == ASSUME LoopAssumption, LoopInv, Loo!attemptBegins PROVE LoopInv'
<1>1. /\ loopPc = "idle" /\ team = None
      /\ run' = "running" /\ loopPc' = "turn" /\ saved' = [state |-> None, remote |-> None]
      /\ loop' = Loo!Fresh /\ ran' = [i \in Loo!CallNumbers |-> 0]
      /\ UNCHANGED <<call, team, used>>
  BY DEF LoopInv, JobTold, TeamAtWork, Loo!attemptBegins
<1>2. saved'.state = None /\ saved'.remote = None BY <1>1
<1>3. SavedTold' BY <1>1, <1>2 DEF SavedTold
<1>4. JobTold' BY <1>1, <1>2, FreshTells DEF JobTold
<1>5. CallsAsked' BY <1>1 DEF CallsAsked
<1>6. RemoteAsked' BY <1>1, <1>2 DEF RemoteAsked
<1>7. TeamAtWork' BY <1>1 DEF TeamAtWork
<1>8. Loo!PolicyBoundsTheTeam' BY <1>1 DEF LoopInv, Loo!PolicyBoundsTheTeam
<1> QED BY <1>3, <1>4, <1>5, <1>6, <1>7, <1>8 DEF LoopInv

LEMMA JobBegins == ASSUME LoopAssumption, LoopInv, Loo!runAgentLoop PROVE LoopInv'
<1> USE DEF Loo!runAgentLoop
<1>1. loopPc = "idle" /\ loopPc' \in {"turn", "resume"} /\ run' = "running" /\ team = None
  BY DEF LoopInv, JobTold, TeamAtWork
<1>2. SavedTold' BY DEF LoopInv, SavedTold
<1>3. JobTold'
  <2>1. Told(Loo!Fresh) /\ Loo!Fresh.toolCalls = 0 BY FreshTells
  <2>2. CASE saved.state = None BY <1>1, <2>1, <2>2 DEF JobTold
  <2>3. CASE saved.state # None
    <3>1. Told(saved.state) /\ saved.state.toolCalls \in Nat
      BY <2>3, LoopAssumption DEF LoopInv, SavedTold, Told, Loo!State
    <3>2. loop' = saved.state /\ saved' = saved BY <2>3
    <3>3. loop'.toolCalls \in Nat /\ saved'.state.toolCalls <= loop'.toolCalls BY <3>1, <3>2
    <3> QED BY <1>1, <3>1, <3>2, <3>3 DEF JobTold
  <2> QED BY <2>2, <2>3
<1>4. CallsAsked' BY <1>1 DEF CallsAsked
<1>5. RemoteAsked' BY <1>1 DEF LoopInv, RemoteAsked, Waits
<1>6. TeamAtWork' BY <1>1 DEF TeamAtWork
<1>7. Loo!PolicyBoundsTheTeam' BY DEF LoopInv, Loo!PolicyBoundsTheTeam
<1> QED BY <1>2, <1>3, <1>4, <1>5, <1>6, <1>7 DEF LoopInv

LEMMA RemoteResumes == ASSUME LoopAssumption, LoopInv, Loo!resumeRemote PROVE LoopInv'
<1>1. /\ loopPc = "resume" /\ run = "running" /\ saved.remote # None /\ Waits /\ loop = saved.state
      /\ saved.remote.of = loop.pending.index /\ Told(loop) /\ team = None
  BY DEF LoopInv, Loo!resumeRemote, JobTold, RemoteAsked, TeamAtWork
<1> DEFINE c == loop.pending
           s == Loo!storeResult(loop, c, c.index)
           t == [s EXCEPT !.pending = None]
<1>2. /\ Loo!checkpointRuntime(t) /\ loopPc' = "turn" /\ UNCHANGED <<run, call, team>>
      /\ UNCHANGED <<ran, asked, used>>
  BY <1>1 DEF Loo!resumeRemote, Waits
<1>3. Told(t)
  <2>1. Told(s) BY <1>1, StoredTells DEF Waits
  <2> QED BY <2>1, PendingTells
<1> HIDE DEF t
<1>4. Told(loop') /\ saved' = [state |-> loop', remote |-> None] BY <1>2, <1>3, Checkpointed
<1>5. saved'.state = loop' /\ saved'.remote = None /\ loop'.toolCalls \in Nat
  BY <1>4, LoopAssumption DEF Told, Loo!State
<1>6. SavedTold' BY <1>2, <1>4, <1>5 DEF LoopInv, SavedTold
<1>7. JobTold' BY <1>1, <1>2, <1>4, <1>5 DEF JobTold
<1>8. CallsAsked' BY <1>2 DEF CallsAsked
<1>9. RemoteAsked' BY <1>1, <1>2, <1>5 DEF RemoteAsked
<1>10. TeamAtWork' BY <1>1, <1>2 DEF TeamAtWork
<1>11. Loo!PolicyBoundsTheTeam' BY <1>2 DEF LoopInv, Loo!PolicyBoundsTheTeam
<1> QED BY <1>6, <1>7, <1>8, <1>9, <1>10, <1>11 DEF LoopInv

LEMMA RunEnds == ASSUME LoopInv, Loo!final PROVE LoopInv'
<1>1. /\ run' = "succeeded" /\ loopPc' = "idle" /\ loop' = None /\ team' = team /\ team = None
      /\ saved' = [state |-> None, remote |-> None] /\ UNCHANGED <<ran, used>>
  BY DEF LoopInv, Loo!final, Loo!MayAsk, TeamAtWork
<1>2. SavedTold' BY <1>1 DEF LoopInv, SavedTold
<1>3. JobTold' /\ CallsAsked' /\ RemoteAsked' /\ TeamAtWork'
  BY <1>1 DEF JobTold, CallsAsked, RemoteAsked, TeamAtWork
<1>4. Loo!PolicyBoundsTheTeam' BY <1>1 DEF LoopInv, Loo!PolicyBoundsTheTeam
<1> QED BY <1>2, <1>3, <1>4 DEF LoopInv

LEMMA CallMade ==
    ASSUME LoopAssumption, LoopInv, NEW tool \in Loo!ToolNames, Loo!toolCall(tool)
    PROVE  LoopInv'
<1> DEFINE c == [tool |-> tool, index |-> loop.toolCalls + 1]
           t == [[loop EXCEPT !.turns = @ + 1] EXCEPT !.toolCalls = c.index,
                                                      !.history = Append(@, Loo!Called(c))]
<1>1. /\ loopPc = "turn" /\ run = "running" /\ Told(loop) /\ team = None
      /\ loop.toolCalls < MaxToolCalls
      /\ saved.state # None => saved.state.toolCalls <= loop.toolCalls
      /\ saved.remote = None
  BY DEF LoopInv, JobTold, TeamAtWork, RemoteAsked, Loo!toolCall, Loo!MayAsk, Loo!MayCall
<1>2. /\ call' = c /\ loop' = Loo!trimAgentState(t) /\ loopPc' = "tool"
      /\ UNCHANGED <<run, saved, team, ran, asked, used>>
  BY DEF Loo!toolCall, Loo!persistState, Loo!Turned
<1>3. Told(t) /\ t.toolCalls = c.index /\ Asks(t, c)
  <2>1. c = NextCall(loop, tool) /\ t = WithCall(loop, NextCall(loop, tool)) BY DEF NextCall, WithCall
  <2>2. AsksNext(loop, WithCall(loop, NextCall(loop, tool)), NextCall(loop, tool)) BY <1>1, CalledTells
  <2> HIDE DEF c, t
  <2> QED BY <2>1, <2>2 DEF AsksNext
<1> HIDE DEF t
<1>4. Told(loop') /\ loop'.toolCalls = c.index /\ Asks(loop', c) BY <1>2, <1>3, TrimmedTells
<1>5. loop.toolCalls \in Nat /\ (saved.state # None => saved.state.toolCalls \in Nat) /\ c.index = loop.toolCalls + 1
  BY <1>1, LoopAssumption DEF LoopInv, SavedTold, Told, Loo!State
<1> HIDE DEF c
<1>6. saved.state # None => saved.state.toolCalls < c.index /\ saved.state.toolCalls <= c.index
  BY <1>1, <1>5
<1>7. SavedTold' BY <1>2 DEF LoopInv, SavedTold
<1>8. JobTold' BY <1>1, <1>2, <1>4, <1>6 DEF JobTold
<1>9. CallsAsked' BY <1>2, <1>4, <1>6 DEF CallsAsked
<1>10. RemoteAsked' BY <1>1, <1>2 DEF LoopInv, RemoteAsked, Waits
<1>11. TeamAtWork' BY <1>1, <1>2 DEF TeamAtWork
<1>12. Loo!PolicyBoundsTheTeam' BY <1>2 DEF LoopInv, Loo!PolicyBoundsTheTeam
<1> QED BY <1>7, <1>8, <1>9, <1>10, <1>11, <1>12 DEF LoopInv

LEMMA ToolRuns == ASSUME LoopAssumption, LoopInv, Loo!executeTool PROVE LoopInv'
<1> USE DEF Loo!executeTool
<1>1. SavedTold'
  <2>1. call.index \in Loo!CallNumbers BY DEF LoopInv, CallsAsked, Asks, Loo!Call
  <2>2. ran' \in [Loo!CallNumbers -> Nat] BY <2>1 DEF LoopInv, SavedTold
  <2> QED BY <2>2 DEF LoopInv, SavedTold
<1>2. JobTold' /\ CallsAsked' BY DEF LoopInv, JobTold, CallsAsked
<1>3. RemoteAsked' BY DEF LoopInv, RemoteAsked, JobTold, Waits
<1>4. TeamAtWork' BY DEF LoopInv, TeamAtWork
<1>5. Loo!PolicyBoundsTheTeam' BY DEF LoopInv, Loo!PolicyBoundsTheTeam
<1> QED BY <1>1, <1>2, <1>3, <1>4, <1>5 DEF LoopInv

LEMMA ResultStored == ASSUME LoopAssumption, LoopInv, Loo!toolResult PROVE LoopInv'
<1>1. loopPc = "result" /\ run = "running" /\ Told(loop) /\ Asks(loop, call) /\ team = None
  BY DEF LoopInv, Loo!toolResult, JobTold, CallsAsked, TeamAtWork
<1> DEFINE t == Loo!storeResult(loop, call, call.index)
<1>2. /\ Loo!checkpointRuntime(t) /\ loopPc' = "turn" /\ UNCHANGED <<run, team, ran, asked, used>>
  BY DEF Loo!toolResult
<1>3. Told(t) BY <1>1, StoredTells
<1> HIDE DEF t
<1>4. Told(loop') /\ saved' = [state |-> loop', remote |-> None] BY <1>2, <1>3, Checkpointed
<1>5. saved'.state = loop' /\ saved'.remote = None /\ loop'.toolCalls \in Nat
  BY <1>4, LoopAssumption DEF Told, Loo!State
<1>6. SavedTold' BY <1>2, <1>4, <1>5 DEF LoopInv, SavedTold
<1>7. JobTold' BY <1>1, <1>2, <1>4, <1>5 DEF JobTold
<1>8. CallsAsked' BY <1>2 DEF CallsAsked
<1>9. RemoteAsked' BY <1>1, <1>2, <1>5 DEF RemoteAsked
<1>10. TeamAtWork' BY <1>1, <1>2 DEF TeamAtWork
<1>11. Loo!PolicyBoundsTheTeam' BY <1>2 DEF LoopInv, Loo!PolicyBoundsTheTeam
<1> QED BY <1>6, <1>7, <1>8, <1>9, <1>10, <1>11 DEF LoopInv

LEMMA CallDispatched == ASSUME LoopAssumption, LoopInv, Loo!toolBlocks PROVE LoopInv'
<1>1. loopPc = "tool" /\ run = "running" /\ Told(loop) /\ Asks(loop, call) /\ call \in Loo!Call /\ team = None
  BY DEF LoopInv, Loo!toolBlocks, JobTold, CallsAsked, TeamAtWork, Asks
<1> DEFINE t == [loop EXCEPT !.pending = call]
<1>2. /\ Loo!checkpointRuntime(t) /\ loopPc' = "dispatch" /\ UNCHANGED <<run, call, team, ran, asked, used>>
  BY DEF Loo!toolBlocks
<1>3. Told(t) /\ t.pending = call /\ Asks(t, call) BY <1>1, PendingTells
<1> HIDE DEF t
<1>4. /\ Told(loop') /\ loop' # None /\ loop'.pending = call /\ Asks(loop', call)
      /\ saved' = [state |-> loop', remote |-> None]
  BY <1>2, <1>3, Checkpointed
<1>5. saved'.state = loop' /\ saved'.remote = None /\ loop'.toolCalls \in Nat
  BY <1>4, LoopAssumption DEF Told, Loo!State
<1>6. SavedTold' BY <1>2, <1>4, <1>5 DEF LoopInv, SavedTold
<1>7. JobTold' BY <1>1, <1>2, <1>4, <1>5 DEF JobTold
<1>8. CallsAsked' BY <1>2 DEF CallsAsked
<1>9. RemoteAsked'
  <2>1. call # None BY <1>1, LoopAssumption
  <2>2. Waits' /\ saved'.state.pending = call' BY <1>2, <1>4, <1>5, <2>1 DEF Waits
  <2> QED BY <1>1, <1>2, <1>5, <2>2 DEF RemoteAsked
<1>10. TeamAtWork' BY <1>1, <1>2 DEF TeamAtWork
<1>11. Loo!PolicyBoundsTheTeam' BY <1>2 DEF LoopInv, Loo!PolicyBoundsTheTeam
<1> QED BY <1>6, <1>7, <1>8, <1>9, <1>10, <1>11 DEF LoopInv

LEMMA RunWaits == ASSUME LoopInv, Loo!runBlocked PROVE LoopInv'
<1>1. /\ loopPc = "dispatch" /\ Waits /\ saved.state.pending = call /\ saved.remote = None /\ team = None
      /\ run' = "blocked" /\ asked' = call.index /\ loopPc' = "idle" /\ loop' = None
      /\ UNCHANGED <<saved, team, ran, used>>
  BY DEF LoopInv, RemoteAsked, TeamAtWork, Loo!runBlocked
<1>2. SavedTold' BY <1>1 DEF LoopInv, SavedTold
<1>3. JobTold' /\ CallsAsked' /\ TeamAtWork' BY <1>1 DEF JobTold, CallsAsked, TeamAtWork
<1>4. RemoteAsked' BY <1>1 DEF RemoteAsked, Waits
<1>5. Loo!PolicyBoundsTheTeam' BY <1>1 DEF LoopInv, Loo!PolicyBoundsTheTeam
<1> QED BY <1>2, <1>3, <1>4, <1>5 DEF LoopInv

LEMMA ResultArrives == ASSUME LoopInv, Loo!remoteResult PROVE LoopInv'
<1>1. /\ run = "blocked" /\ loopPc = "idle" /\ Waits /\ asked = saved.state.pending.index
      /\ run' = "resumable" /\ saved' = [saved EXCEPT !.remote = [of |-> asked]]
      /\ UNCHANGED <<loop, loopPc, call, team, ran, used>>
  BY DEF LoopInv, RemoteAsked, Loo!remoteResult
<1>2. saved'.state = saved.state /\ saved'.remote.of = asked /\ saved' = [state |-> saved'.state, remote |-> saved'.remote]
  BY <1>1 DEF LoopInv, SavedTold
<1>3. SavedTold' BY <1>1, <1>2 DEF LoopInv, SavedTold
<1>4. JobTold' /\ CallsAsked' /\ TeamAtWork' BY <1>1, <1>2 DEF LoopInv, JobTold, CallsAsked, TeamAtWork
<1>5. RemoteAsked' BY <1>1, <1>2 DEF RemoteAsked, Waits
<1>6. Loo!PolicyBoundsTheTeam' BY <1>1 DEF LoopInv, Loo!PolicyBoundsTheTeam
<1> QED BY <1>3, <1>4, <1>5, <1>6 DEF LoopInv

LEMMA RemoteFailed == ASSUME LoopInv, Loo!remoteFails PROVE LoopInv'
<1>1. /\ loopPc = "idle" /\ run' \in {"queued", "failed"}
      /\ UNCHANGED <<saved, loop, loopPc, call, team, ran, used>>
  BY DEF LoopInv, RemoteAsked, Loo!remoteFails, Loo!Retried
<1>2. SavedTold' /\ JobTold' /\ CallsAsked' BY <1>1 DEF LoopInv, SavedTold, JobTold, CallsAsked
<1>3. RemoteAsked' /\ TeamAtWork' BY <1>1 DEF LoopInv, RemoteAsked, Waits, TeamAtWork
<1>4. Loo!PolicyBoundsTheTeam' BY <1>1 DEF LoopInv, Loo!PolicyBoundsTheTeam
<1> QED BY <1>2, <1>3, <1>4 DEF LoopInv

-----------------------------------------------------------------------------
(* The loop: a team.map.                                                   *)

LEMMA LooCardinality == ASSUME NEW S PROVE Loo!Cardinality(S) = Cardinality(S)
BY DEF Loo!Cardinality, Cardinality

\* What team.map changes is the map, and what teammates used.
LEMMA OnlyTheMap ==
    ASSUME LoopInv, loopPc = "team",
           UNCHANGED <<run, saved, loop, loopPc, call, ran, asked>>,
           team' \in [next : Nat \ {0}, doing : SUBSET (DOMAIN Tasks), outputs : [DOMAIN Tasks -> Outputs]],
           Cardinality(team'.doing) <= MaxParallel,
           \A i \in DOMAIN Tasks : team'.outputs[i] # None => team'.outputs[i].mate = Tasks[i],
           Loo!PolicyBoundsTheTeam'
    PROVE  LoopInv'
<1>1. SavedTold' /\ JobTold' /\ CallsAsked' BY DEF LoopInv, SavedTold, JobTold, CallsAsked
<1>2. RemoteAsked' BY DEF LoopInv, RemoteAsked, Waits
<1>3. TeamAtWork' BY DEF TeamAtWork
<1> QED BY <1>1, <1>2, <1>3 DEF LoopInv

LEMMA MapStarts == ASSUME LoopAssumption, LoopInv, Loo!mapStarts PROVE LoopInv'
<1>1. /\ loopPc = "tool" /\ loopPc' = "team"
      /\ team' = [next |-> 1, doing |-> {}, outputs |-> [i \in DOMAIN Tasks |-> None]]
      /\ UNCHANGED <<run, saved, loop, call, ran, asked, used>>
  BY DEF Loo!mapStarts
<1>2. SavedTold' /\ JobTold' /\ CallsAsked' BY <1>1 DEF LoopInv, SavedTold, JobTold, CallsAsked
<1>3. RemoteAsked' BY <1>1 DEF LoopInv, RemoteAsked, JobTold, Waits
<1>4. TeamAtWork'
  <2>1. Cardinality({}) <= MaxParallel BY FS_EmptySet, LoopAssumption
  <2>2. [i \in DOMAIN Tasks |-> None] \in [DOMAIN Tasks -> Outputs] BY DEF Outputs
  <2> QED BY <1>1, <2>1, <2>2 DEF TeamAtWork
<1>5. Loo!PolicyBoundsTheTeam' BY <1>1 DEF LoopInv, Loo!PolicyBoundsTheTeam
<1> QED BY <1>2, <1>3, <1>4, <1>5 DEF LoopInv

LEMMA MapMoves ==
    ASSUME LoopAssumption, LoopInv, loopPc = "team"
    PROVE  /\ team \in [next : Nat \ {0}, doing : SUBSET (DOMAIN Tasks), outputs : [DOMAIN Tasks -> Outputs]]
           /\ IsFiniteSet(team.doing) /\ Cardinality(team.doing) \in Nat
           /\ Cardinality(team.doing) <= MaxParallel
           /\ \A i \in DOMAIN Tasks : team.outputs[i] # None => team.outputs[i].mate = Tasks[i]
           /\ DOMAIN Tasks = 1..Len(Tasks) /\ Len(Tasks) \in Nat
           /\ \A i \in DOMAIN Tasks : Tasks[i] \in DOMAIN Team
<1>1. DOMAIN Tasks = 1..Len(Tasks) /\ Len(Tasks) \in Nat /\ \A i \in DOMAIN Tasks : Tasks[i] \in DOMAIN Team
  BY LoopAssumption
<1>2. IsFiniteSet(DOMAIN Tasks) BY <1>1, FS_Interval
<1>3. /\ team \in [next : Nat \ {0}, doing : SUBSET (DOMAIN Tasks), outputs : [DOMAIN Tasks -> Outputs]]
      /\ Cardinality(team.doing) <= MaxParallel
      /\ \A i \in DOMAIN Tasks : team.outputs[i] # None => team.outputs[i].mate = Tasks[i]
  BY DEF LoopInv, TeamAtWork
<1>4. team.doing \subseteq DOMAIN Tasks BY <1>3
<1>5. IsFiniteSet(team.doing) /\ Cardinality(team.doing) \in Nat BY <1>2, <1>4, FS_Subset, FS_CardinalityType
<1> QED BY <1>1, <1>3, <1>5

LEMMA TaskTaken == ASSUME LoopAssumption, LoopInv, Loo!takeTask PROVE LoopInv'
<1>1. /\ loopPc = "team" /\ team.next <= Len(Tasks) /\ Loo!Cardinality(team.doing) < Loo!Workers
      /\ team' = [team EXCEPT !.next = @ + 1, !.doing = @ \cup {team.next}]
      /\ UNCHANGED <<run, saved, loop, loopPc, call, ran, asked, used>>
  BY DEF Loo!takeTask
<1>2. /\ team \in [next : Nat \ {0}, doing : SUBSET (DOMAIN Tasks), outputs : [DOMAIN Tasks -> Outputs]]
      /\ IsFiniteSet(team.doing) /\ Cardinality(team.doing) \in Nat
      /\ Cardinality(team.doing) <= MaxParallel
      /\ \A i \in DOMAIN Tasks : team.outputs[i] # None => team.outputs[i].mate = Tasks[i]
      /\ DOMAIN Tasks = 1..Len(Tasks) /\ Len(Tasks) \in Nat
  BY <1>1, MapMoves
<1>3. team'.doing = team.doing \cup {team.next} /\ team'.next = team.next + 1 /\ team'.outputs = team.outputs
      /\ team.next \in 1..Len(Tasks)
  <2>1. team.next \in Nat \ {0} /\ team.next <= Len(Tasks) BY <1>1, <1>2
  <2>2. team.next \in 1..Len(Tasks) BY <1>2, <2>1
  <2> QED BY <1>1, <1>2, <2>2
<1>4. team' \in [next : Nat \ {0}, doing : SUBSET (DOMAIN Tasks), outputs : [DOMAIN Tasks -> Outputs]]
  <2>1. /\ team'.next \in Nat \ {0} /\ team'.doing \in SUBSET (DOMAIN Tasks)
        /\ team'.outputs \in [DOMAIN Tasks -> Outputs]
    BY <1>2, <1>3
  <2>2. team' = [next |-> team'.next, doing |-> team'.doing, outputs |-> team'.outputs] BY <1>1, <1>2
  <2> QED BY <2>1, <2>2
<1>5. Cardinality(team'.doing) <= MaxParallel
  <2>1. Cardinality(team.doing) < MaxParallel
    <3>1. Loo!Cardinality(team.doing) = Cardinality(team.doing) BY LooCardinality
    <3>2. Loo!Workers <= MaxParallel /\ Loo!Workers \in Nat
      <4>1. Loo!Workers = IF MaxParallel < Len(Tasks) THEN MaxParallel ELSE Len(Tasks)
        BY DEF Loo!Workers
      <4>2. MaxParallel \in Nat BY LoopAssumption
      <4>3. Len(Tasks) \in Nat BY <1>2
      <4> QED BY <4>1, <4>2, <4>3
    <3>3. Cardinality(team.doing) < Loo!Workers BY <1>1, <3>1
    <3>4. MaxParallel \in Nat /\ Cardinality(team.doing) \in Nat BY <1>2, LoopAssumption
    <3> HIDE DEF Loo!Workers
    <3> QED BY <3>2, <3>3, <3>4
  <2>2. Cardinality(team'.doing) = Cardinality(team.doing) \/ Cardinality(team'.doing) = Cardinality(team.doing) + 1
    <3>1. Cardinality(team.doing \cup {team.next}) =
             IF team.next \in team.doing THEN Cardinality(team.doing) ELSE Cardinality(team.doing) + 1
      BY <1>2, FS_AddElement
    <3> QED BY <1>3, <3>1
  <2> QED BY <1>2, <2>1, <2>2, LoopAssumption
<1>6. Loo!PolicyBoundsTheTeam' BY <1>1 DEF LoopInv, Loo!PolicyBoundsTheTeam
<1> QED BY <1>1, <1>2, <1>3, <1>4, <1>5, <1>6, OnlyTheMap

LEMMA DelegateCalls ==
    ASSUME LoopAssumption, LoopInv, NEW i \in DOMAIN Tasks, NEW tool \in Loo!ToolNames,
           Loo!delegateCalls(i, tool)
    PROVE  LoopInv'
<1>1. /\ loopPc = "team" /\ tool \in Loo!intersectAllowlist(Tasks[i])
      /\ used' = used \cup {<<Tasks[i], tool>>} /\ team' = team
      /\ UNCHANGED <<run, saved, loop, loopPc, call, ran, asked>>
  BY DEF Loo!delegateCalls
<1>2. Loo!PolicyBoundsTheTeam'
  BY <1>1 DEF LoopInv, Loo!PolicyBoundsTheTeam, Loo!intersectAllowlist
<1> QED BY <1>1, <1>2, MapMoves, OnlyTheMap

LEMMA DelegateEnds ==
    ASSUME LoopAssumption, LoopInv, NEW i \in DOMAIN Tasks, NEW status \in {"succeeded", "failed"},
           Loo!runDelegate(i, status)
    PROVE  LoopInv'
<1> DEFINE o == [mate |-> Tasks[i], status |-> status]
<1>1. /\ loopPc = "team" /\ i \in team.doing
      /\ team' = [team EXCEPT !.doing = @ \ {i}, !.outputs[i] = o]
      /\ UNCHANGED <<run, saved, loop, loopPc, call, ran, asked, used>>
  BY DEF Loo!runDelegate
<1>2. /\ team \in [next : Nat \ {0}, doing : SUBSET (DOMAIN Tasks), outputs : [DOMAIN Tasks -> Outputs]]
      /\ IsFiniteSet(team.doing) /\ Cardinality(team.doing) \in Nat
      /\ Cardinality(team.doing) <= MaxParallel
      /\ \A j \in DOMAIN Tasks : team.outputs[j] # None => team.outputs[j].mate = Tasks[j]
      /\ \A j \in DOMAIN Tasks : Tasks[j] \in DOMAIN Team
  BY <1>1, MapMoves
<1>3. o \in Outputs /\ o.mate = Tasks[i] BY <1>2 DEF Outputs
<1> HIDE DEF o
<1>4. /\ team'.doing = team.doing \ {i} /\ team'.outputs = [team.outputs EXCEPT ![i] = o]
      /\ team'.next = team.next
      /\ team' = [next |-> team'.next, doing |-> team'.doing, outputs |-> team'.outputs]
  BY <1>1, <1>2
<1>5. team'.outputs \in [DOMAIN Tasks -> Outputs] BY <1>2, <1>3, <1>4
<1>6. team' \in [next : Nat \ {0}, doing : SUBSET (DOMAIN Tasks), outputs : [DOMAIN Tasks -> Outputs]]
  BY <1>2, <1>4, <1>5
<1>7. Cardinality(team'.doing) <= MaxParallel
  <2>1. Cardinality(team'.doing) <= Cardinality(team.doing) /\ Cardinality(team'.doing) \in Nat
    BY <1>2, <1>4, FS_Subset, FS_CardinalityType
  <2> QED BY <1>2, <2>1, LoopAssumption
<1>8. \A j \in DOMAIN Tasks : team'.outputs[j] # None => team'.outputs[j].mate = Tasks[j]
  BY <1>2, <1>3, <1>4
<1>9. Loo!PolicyBoundsTheTeam' BY <1>1 DEF LoopInv, Loo!PolicyBoundsTheTeam
<1> QED BY <1>1, <1>6, <1>7, <1>8, <1>9, OnlyTheMap

LEMMA OrphanEnds == ASSUME LoopInv, NEW o \in orphans, Loo!orphanEnds(o) PROVE LoopInv'
<1>1. UNCHANGED <<run, saved, loop, loopPc, call, team, ran, asked>> BY DEF Loo!orphanEnds
<1>2. SavedTold' /\ JobTold' /\ CallsAsked' BY <1>1 DEF LoopInv, SavedTold, JobTold, CallsAsked
<1>3. RemoteAsked' /\ TeamAtWork' BY <1>1 DEF LoopInv, RemoteAsked, Waits, TeamAtWork
<1>4. Loo!PolicyBoundsTheTeam'
  BY DEF LoopInv, Loo!PolicyBoundsTheTeam, Loo!orphanEnds, Loo!intersectAllowlist
<1> QED BY <1>2, <1>3, <1>4 DEF LoopInv

LEMMA MapEnds == ASSUME LoopAssumption, LoopInv, Loo!mapEnds PROVE LoopInv'
<1>1. /\ loopPc = "team" /\ loopPc' = "result" /\ team' = None
      /\ ran' = [ran EXCEPT ![call.index] = @ + 1]
      /\ UNCHANGED <<run, saved, loop, call, asked, used>>
  BY DEF Loo!mapEnds
<1>2. SavedTold'
  <2>1. call.index \in Loo!CallNumbers BY <1>1 DEF LoopInv, CallsAsked, Asks, Loo!Call
  <2>2. ran' \in [Loo!CallNumbers -> Nat] BY <1>1, <2>1 DEF LoopInv, SavedTold
  <2> QED BY <1>1, <2>2 DEF LoopInv, SavedTold
<1>3. JobTold' /\ CallsAsked' /\ TeamAtWork' BY <1>1 DEF LoopInv, JobTold, CallsAsked, TeamAtWork
<1>4. RemoteAsked' BY <1>1 DEF LoopInv, RemoteAsked, JobTold, Waits
<1>5. Loo!PolicyBoundsTheTeam' BY <1>1 DEF LoopInv, Loo!PolicyBoundsTheTeam
<1> QED BY <1>2, <1>3, <1>4, <1>5 DEF LoopInv

-----------------------------------------------------------------------------
(* The loop: every step.                                                   *)

LEMMA LoopNext == ASSUME LoopAssumption, LoopInv, Loo!Next PROVE LoopInv'
<1>0. loopPc # "idle" => run = "running" BY DEF LoopInv, JobTold
<1>1. CASE \/ Loo!stopBeforeTurn \/ Loo!turnFails \/ Loo!denyShell \/ Loo!dispatchFails
           \/ \E tool \in Loo!ToolNames : Loo!refuseCall(tool)
           \/ \E i \in DOMAIN Tasks : Loo!delegateThrows(i)
  <2>1. Loo!failed /\ run = "running" /\ UNCHANGED <<ran, asked, used>>
    BY <1>0, <1>1 DEF Loo!stopBeforeTurn, Loo!turnFails, Loo!denyShell, Loo!dispatchFails, Loo!refuseCall,
       Loo!delegateThrows, Loo!MayAsk
  <2> QED BY <2>1, LoopFails
<1>2. CASE Loo!runAgentLoop BY <1>2, JobBegins
<1>3. CASE Loo!resumeRemote BY <1>3, RemoteResumes
<1>4. CASE Loo!final BY <1>4, RunEnds
<1>5. CASE \E tool \in Loo!ToolNames : Loo!toolCall(tool) BY <1>5, CallMade
<1>6. CASE Loo!executeTool BY <1>6, ToolRuns
<1>7. CASE Loo!toolResult BY <1>7, ResultStored
<1>8. CASE Loo!toolBlocks BY <1>8, CallDispatched
<1>9. CASE Loo!runBlocked BY <1>9, RunWaits
<1>10. CASE Loo!remoteResult BY <1>10, ResultArrives
<1>11. CASE Loo!mapStarts BY <1>11, MapStarts
<1>12. CASE Loo!takeTask BY <1>12, TaskTaken
<1>13. CASE Loo!mapEnds BY <1>13, MapEnds
<1>14. CASE \E i \in DOMAIN Tasks : \E tool \in Loo!ToolNames : Loo!delegateCalls(i, tool)
  BY <1>14, DelegateCalls
<1>15. CASE \E i \in DOMAIN Tasks : \E status \in {"succeeded", "failed"} : Loo!runDelegate(i, status)
  BY <1>15, DelegateEnds
<1>16. CASE \E o \in orphans : Loo!orphanEnds(o) BY <1>16, OrphanEnds
<1>17. CASE Loo!attemptBegins BY <1>17, AttemptBegins
<1>18. CASE Loo!remoteFails BY <1>18, RemoteFailed
<1>19. CASE Loo!crash BY <1>19, JobDies
<1> QED
  BY <1>1, <1>2, <1>3, <1>4, <1>5, <1>6, <1>7, <1>8, <1>9, <1>10, <1>11, <1>12, <1>13, <1>14, <1>15,
     <1>16, <1>17, <1>18, <1>19 DEF Loo!Next

LEMMA LoopStep == ASSUME LoopAssumption, LoopInv, [Loo!Next]_looVars PROVE LoopInv'
<1>1. CASE Loo!Next BY <1>1, LoopNext
<1>2. CASE UNCHANGED looVars
  <2> USE <1>2 DEF looVars
  <2>1. SavedTold' /\ JobTold' /\ CallsAsked' BY DEF LoopInv, SavedTold, JobTold, CallsAsked
  <2>2. RemoteAsked' /\ TeamAtWork' BY DEF LoopInv, RemoteAsked, Waits, TeamAtWork
  <2>3. Loo!PolicyBoundsTheTeam' BY DEF LoopInv, Loo!PolicyBoundsTheTeam
  <2> QED BY <2>1, <2>2, <2>3 DEF LoopInv
<1> QED BY <1>1, <1>2

LEMMA LoopTells ==
    ASSUME LoopInv
    PROVE  /\ Loo!ResultsBelong /\ Loo!HistoryTellsTheCalls /\ Loo!RemoteIsExpected
           /\ Loo!MapIsOrdered /\ Loo!PolicyBoundsTheTeam
<1>1. \A s \in Loo!States : Told(s) BY DEF Loo!States, LoopInv, SavedTold, JobTold
<1>2. Loo!ResultsBelong BY <1>1, TellsTheCalls DEF Loo!ResultsBelong
<1>3. Loo!HistoryTellsTheCalls BY <1>1, TellsTheCalls DEF Loo!HistoryTellsTheCalls
<1>4. Loo!RemoteIsExpected BY DEF LoopInv, RemoteAsked, Waits, Loo!RemoteIsExpected
<1>5. Loo!MapIsOrdered BY LooCardinality DEF LoopInv, TeamAtWork, Loo!MapIsOrdered
<1> QED BY <1>2, <1>3, <1>4, <1>5 DEF LoopInv

\* A call that runs in the loop is in no checkpoint.
LEMMA UnknownCallsRun == ASSUME LoopAssumption, LoopInv, [Loo!Next]_looVars PROVE Loo!KnownStays
<1>1. CASE Loo!executeTool \/ Loo!mapEnds
  <2>1. loopPc \in {"tool", "team"} /\ ran' = [ran EXCEPT ![call.index] = @ + 1]
    BY <1>1 DEF Loo!executeTool, Loo!mapEnds
  <2>2. ran \in [Loo!CallNumbers -> Nat] /\ (saved.state # None => saved.state.toolCalls < call.index)
    BY <2>1 DEF LoopInv, SavedTold, CallsAsked
  <2>3. \A i \in Loo!CallNumbers : ran'[i] > ran[i] => i = call.index BY <2>1, <2>2
  <2> QED BY <2>2, <2>3 DEF Loo!KnownStays
<1>0. \A i \in Loo!CallNumbers : ran[i] \in Nat BY DEF LoopInv, SavedTold
<1>2. CASE UNCHANGED ran BY <1>0, <1>2 DEF Loo!KnownStays
<1>4. CASE Loo!attemptBegins BY <1>0, <1>4 DEF Loo!attemptBegins, Loo!KnownStays
<1>3. Loo!executeTool \/ Loo!mapEnds \/ Loo!attemptBegins \/ UNCHANGED ran
  BY DEF Loo!Next, looVars, Loo!runAgentLoop, Loo!resumeRemote, Loo!stopBeforeTurn, Loo!turnFails,
     Loo!final, Loo!toolCall, Loo!refuseCall, Loo!denyShell, Loo!toolResult, Loo!toolBlocks,
     Loo!runBlocked, Loo!remoteResult, Loo!mapStarts, Loo!takeTask, Loo!delegateCalls,
     Loo!runDelegate, Loo!delegateThrows, Loo!orphanEnds, Loo!crash, Loo!dispatchFails, Loo!remoteFails
<1> QED BY <1>1, <1>2, <1>3, <1>4

LEMMA LoopSpec == WorkSpec => Loo!Init /\ [][Loo!Next]_looVars
<1>1. WorkInit => Loo!Init BY DEF WorkInit
<1>2. [WorkNext]_allVars => [Loo!Next]_looVars BY DEF WorkNext, allVars, looVars
<1> QED BY <1>1, <1>2, PTL DEF WorkSpec

\* Every result the loop keeps is its call's, the history tells each call once
\* and in order however it was trimmed, a job that is given a remote result
\* finds the call that it answers, tasks of a map end before it does, and
\* delegating widens no policy (agent-loop.ts, trimAgentState, team-tools.ts):
\* for any tasks, team, limits, attempts and jobs that die.
THEOREM LoopIsKept == WorkSpec => []LoopHolds
<1>1. Loo!Init => LoopInv BY LoopInit, LoopAssumption
<1>2. LoopInv /\ [Loo!Next]_looVars => LoopInv' BY LoopStep, LoopAssumption
<1>3. LoopInv => LoopHolds BY LoopTells DEF LoopHolds
<1> QED BY <1>1, <1>2, <1>3, LoopSpec, PTL

\* A call that a checkpoint of the attempt knows of never runs again in it,
\* whichever job takes up the loop (main.ts:512-516, agent-loop.ts:385-393): for
\* any limits and any number of attempts and of jobs that die.
THEOREM CallsRunOnce == WorkSpec => KnownCallsStay
<1>1. Loo!Init => LoopInv BY LoopInit, LoopAssumption
<1>2. LoopInv /\ [Loo!Next]_looVars => LoopInv' BY LoopStep, LoopAssumption
<1>3. LoopInv /\ [Loo!Next]_looVars => [scene = "loop" => Loo!KnownStays]_allVars
  BY UnknownCallsRun, LoopAssumption
<1> QED BY <1>1, <1>2, <1>3, LoopSpec, PTL DEF KnownCallsStay

-----------------------------------------------------------------------------
(* Induction, over sets of numbers.                                        *)

\* Numbers are well-ordered.
LEMMA LeastNumber ==
    ASSUME NEW T, T \subseteq Nat, T # {}
    PROVE  \E m \in T : \A k \in T : m <= k
<1> DEFINE below == {0..n : n \in T}
<1>1. below \subseteq FiniteSubsetsOf(Nat)
  <2> SUFFICES ASSUME NEW n \in T PROVE 0..n \in FiniteSubsetsOf(Nat) OBVIOUS
  <2>1. n \in Nat OBVIOUS
  <2>2. IsFiniteSet(0..n) BY <2>1, FS_Interval
  <2>3. 0..n \subseteq Nat BY <2>1
  <2> QED BY <2>2, <2>3 DEF FiniteSubsetsOf
<1>2. below # {} OBVIOUS
<1>3. IsWellFoundedOn(StrictSubsetOrdering(Nat), FiniteSubsetsOf(Nat))
  BY FS_StrictSubsetOrderingWellFounded
<1> HIDE DEF below
<1>4. PICK s \in below : \A y1 \in below : <<y1, s>> \notin StrictSubsetOrdering(Nat)
  BY <1>1, <1>2, <1>3, WFMin
<1>5. PICK m \in T : s = 0..m BY <1>4 DEF below
<1>6. ASSUME NEW k \in T, k < m PROVE FALSE
  <2>1. /\ 0..k \in below /\ 0..k \subseteq 0..m /\ m \notin 0..k /\ m \in 0..m
        /\ 0..k \subseteq Nat /\ 0..m \subseteq Nat
    BY <1>6 DEF below
  <2>2. <<0..k, 0..m>> \in StrictSubsetOrdering(Nat) BY <2>1 DEF StrictSubsetOrdering
  <2> QED BY <1>4, <1>5, <2>1, <2>2
<1> QED BY <1>5, <1>6

\* What holds of 0, and of every number after one it holds of.
LEMMA Induction ==
    ASSUME NEW n \in Nat, NEW S, 0 \in S, \A k \in 1..n : k - 1 \in S => k \in S
    PROVE  \A k \in 0..n : k \in S
<1> DEFINE T == {k \in 0..n : k \notin S}
<1>1. SUFFICES ASSUME T # {} PROVE FALSE OBVIOUS
<1>2. T \subseteq Nat OBVIOUS
<1>3. PICK m \in T : \A k \in T : m <= k
  <2> HIDE DEF T
  <2> QED BY <1>1, <1>2, LeastNumber
<1>4. m \in 1..n /\ m \notin S OBVIOUS
<1>5. m - 1 \notin T BY <1>3, <1>4
<1>6. m - 1 \in 0..n BY <1>4
<1>7. m - 1 \in S BY <1>5, <1>6
<1> QED BY <1>4, <1>7

\* What comes of s after each of n rounds of F, in a set that F stays in.
Within(F, Q) == F \in [Q -> Q]
Rounds(g, F, s, n, Q) == g \in [0..n -> Q] /\ g[0] = s /\ \A k \in 1..n : g[k] = F[g[k - 1]]

\* A function may be iterated.
LEMMA Iterates ==
    ASSUME NEW Q, NEW F, Within(F, Q), NEW s \in Q, NEW n \in Nat
    PROVE  \E g : Rounds(g, F, s, n, Q)
<1> DEFINE S == {m \in Nat : \E g : Rounds(g, F, s, m, Q)}
<1>1. 0 \in S
  <2> DEFINE g == [k \in 0..0 |-> s]
  <2>1. g \in [0..0 -> Q] /\ g[0] = s OBVIOUS
  <2>2. Rounds(g, F, s, 0, Q) BY <2>1 DEF Rounds
  <2> QED BY <2>2
<1>2. ASSUME NEW m \in 1..n, m - 1 \in S PROVE m \in S
  <2>1. PICK g : Rounds(g, F, s, m - 1, Q) BY <1>2
  <2> DEFINE h == [k \in 0..m |-> IF k = m THEN F[g[m - 1]] ELSE g[k]]
  <2>2. m \in Nat /\ m # 0 /\ m - 1 \in 0..(m - 1) /\ \A k \in 0..m : k = m \/ k \in 0..(m - 1) OBVIOUS
  <2>3. h \in [0..m -> Q] BY <2>1, <2>2 DEF Rounds, Within
  <2>4. h[0] = s BY <2>1, <2>2 DEF Rounds
  <2>5. ASSUME NEW k \in 1..m PROVE h[k] = F[h[k - 1]]
    <3>1. CASE k = m
      <4>1. h[k] = F[g[m - 1]] /\ k - 1 \in 0..m /\ k - 1 # m BY <2>2, <3>1
      <4>2. h[k - 1] = g[m - 1] BY <3>1, <4>1
      <4> QED BY <4>1, <4>2
    <3>2. CASE k # m
      <4>1. k \in 1..(m - 1) /\ k \in 0..m /\ k - 1 \in 0..m /\ k - 1 # m BY <2>2, <3>2
      <4>2. h[k] = g[k] /\ h[k - 1] = g[k - 1] BY <3>2, <4>1
      <4>3. g[k] = F[g[k - 1]] BY <2>1, <4>1 DEF Rounds
      <4> QED BY <4>2, <4>3
    <3> QED BY <3>1, <3>2
  <2> HIDE DEF h
  <2>6. Rounds(h, F, s, m, Q) BY <2>3, <2>4, <2>5 DEF Rounds
  <2> QED BY <2>2, <2>6
<1> HIDE DEF S
<1>3. n \in S
  <2>1. \A k \in 0..n : k \in S BY <1>1, <1>2, Induction
  <2> QED BY <2>1
<1> QED BY <1>3 DEF S

\* Subsets that only grow come to rest within as many rounds as there are elements.
LEMMA Saturates ==
    ASSUME NEW U, IsFiniteSet(U), NEW F, Within(F, SUBSET U), NEW s, NEW c,
           Rounds(c, F, s, Cardinality(U), SUBSET U),
           \A k \in 0..Cardinality(U) : c[k] \subseteq F[c[k]]
    PROVE  F[c[Cardinality(U)]] = c[Cardinality(U)]
<1> DEFINE n == Cardinality(U)
<1>1. n \in Nat BY FS_CardinalityType
<1>a. Within(F, SUBSET U) /\ Rounds(c, F, s, n, SUBSET U) /\ \A k \in 0..n : c[k] \subseteq F[c[k]] OBVIOUS
<1>b. n = Cardinality(U) OBVIOUS
<1> HIDE DEF n
<1>0. /\ F \in [SUBSET U -> SUBSET U] /\ c \in [0..n -> SUBSET U]
      /\ \A k \in 1..n : c[k] = F[c[k - 1]] 
  BY <1>a DEF Within, Rounds
<1>2. \A k \in 0..n : IsFiniteSet(c[k]) /\ Cardinality(c[k]) \in Nat /\ Cardinality(c[k]) <= n
  BY <1>0, <1>b, FS_Subset, FS_CardinalityType
<1>3. CASE \E k \in 0..n : F[c[k]] = c[k]
  <2>1. PICK r \in 0..n : F[c[r]] = c[r] BY <1>3
  <2> DEFINE S == {k \in 0..n : k >= r => c[k] = c[r]}
  <2>2. 0 \in S BY <1>1
  <2>3. ASSUME NEW k \in 1..n, k - 1 \in S PROVE k \in S
    <3>1. CASE k = r BY <3>1
    <3>2. CASE k < r BY <3>2
    <3>3. CASE k > r
      <4>1. c[k - 1] = c[r] /\ c[k] = F[c[k - 1]] BY <1>0, <2>3, <3>3
      <4> QED BY <2>1, <4>1
    <3> QED BY <3>1, <3>2, <3>3
  <2> HIDE DEF S
  <2>4. n \in S
    <3>1. \A k \in 0..n : k \in S BY <1>1, <2>2, <2>3, Induction
    <3> QED BY <1>1, <3>1
  <2>5. c[n] = c[r] BY <1>1, <2>4 DEF S
  <2> QED BY <1>b, <2>1, <2>5
<1>4. CASE \A k \in 0..n : F[c[k]] # c[k]
  <2> DEFINE S == {k \in 0..n : k <= Cardinality(c[k])}
  <2>1. 0 \in S BY <1>1, <1>2
  <2>2. ASSUME NEW k \in 1..n, k - 1 \in S PROVE k \in S
    <3>1. k - 1 \in 0..n /\ k \in 0..n BY <1>1
    <3>2. c[k - 1] \subseteq c[k] /\ c[k] # c[k - 1]
      <4>1. c[k] = F[c[k - 1]] BY <1>0
      <4>2. c[k - 1] \subseteq F[c[k - 1]] /\ F[c[k - 1]] # c[k - 1] BY <1>a, <1>4, <3>1
      <4> QED BY <4>1, <4>2
    <3>3. Cardinality(c[k - 1]) < Cardinality(c[k])
      <4>1. IsFiniteSet(c[k]) BY <1>2, <3>1
      <4>2. Cardinality(c[k - 1]) # Cardinality(c[k]) BY <3>2, <4>1, FS_Subset
      <4>3. Cardinality(c[k - 1]) <= Cardinality(c[k]) BY <3>2, <4>1, FS_Subset
      <4>4. Cardinality(c[k - 1]) \in Nat /\ Cardinality(c[k]) \in Nat BY <1>2, <3>1
      <4> QED BY <4>2, <4>3, <4>4
    <3>4. k - 1 <= Cardinality(c[k - 1]) BY <2>2
    <3> QED BY <1>2, <3>1, <3>3, <3>4
  <2> HIDE DEF S
  <2>3. n \in S
    <3>1. \A k \in 0..n : k \in S BY <1>1, <2>1, <2>2, Induction
    <3> QED BY <1>1, <3>1
  <2>4. n \in 0..n /\ Cardinality(c[n]) = n BY <1>1, <1>2, <2>3 DEF S
  <2>5. c[n] = U BY <1>0, <1>b, <2>4, FS_Subset
  <2>6. c[n] \subseteq F[c[n]] /\ c[n] \in SUBSET U BY <1>0, <1>a, <2>4
  <2>7. F[c[n]] \in SUBSET U BY <1>0, <2>6
  <2>8. F[c[n]] = c[n] BY <2>5, <2>6, <2>7
  <2> QED BY <1>b, <2>8
<1> QED BY <1>3, <1>4, <1>b

-----------------------------------------------------------------------------
(* The graph: what is peeled, and what is reached.                         *)

\* The nodes are finitely many numbers.
GraphTyped == IsFiniteSet(Gra!Nodes) /\ Gra!Nodes \subseteq Nat \ {None}

LEMMA GraCardinality == ASSUME NEW S PROVE Gra!Cardinality(S) = Cardinality(S)
BY DEF Gra!Cardinality, Cardinality

\* The rounds of the peeling (Visited).
LEMMA Peeled ==
    ASSUME GraphTyped
    PROVE  \E a \in [0..Cardinality(Gra!Nodes) -> SUBSET Gra!Nodes] :
              /\ a[0] = {} /\ a[Cardinality(Gra!Nodes)] = Gra!Visited
              /\ \A k \in 1..Cardinality(Gra!Nodes) : a[k] = Gra!Peels(a[k - 1])
<1> DEFINE n == Cardinality(Gra!Nodes)
           F == [p \in SUBSET Gra!Nodes |-> Gra!Peels(p)]
<1>1. n \in Nat BY FS_CardinalityType DEF GraphTyped
<1>2. \A p : Gra!Peels(p) \in SUBSET Gra!Nodes BY DEF Gra!Peels
<1>3. F \in [SUBSET Gra!Nodes -> SUBSET Gra!Nodes] BY <1>2
<1>4. {} \in SUBSET Gra!Nodes OBVIOUS
<1>5. PICK g : Rounds(g, F, {}, n, SUBSET Gra!Nodes)
  <2>1. Within(F, SUBSET Gra!Nodes) BY <1>3 DEF Within
  <2> HIDE DEF n, F
  <2> QED BY <1>1, <1>4, <2>1, Iterates
<1>r. g \in [0..n -> SUBSET Gra!Nodes] /\ g[0] = {} /\ \A k \in 1..n : g[k] = F[g[k - 1]]
  BY <1>5 DEF Rounds
<1>6. g = [k \in 0..n |-> IF k = 0 THEN {} ELSE Gra!Peels(g[k - 1])]
  <2>1. \A k \in 0..n : k = 0 \/ (k \in 1..n /\ k - 1 \in 0..n) BY <1>1
  <2>2. \A k \in 1..n : k - 1 \in 0..n BY <1>1
  <2>3. \A k \in 1..n : g[k - 1] \in SUBSET Gra!Nodes BY <1>r, <2>2
  <2>4. \A k \in 1..n : g[k] = Gra!Peels(g[k - 1]) BY <1>r, <2>3
  <2>5. \A k \in 0..n : g[k] = (IF k = 0 THEN {} ELSE Gra!Peels(g[k - 1])) BY <1>r, <2>1, <2>4
  <2>6. g = [k \in 0..n |-> g[k]] BY <1>r
  <2> HIDE DEF n, F
  <2> QED BY <2>5, <2>6
<1> DEFINE a == CHOOSE f : f = [k \in 0..n |-> IF k = 0 THEN {} ELSE Gra!Peels(f[k - 1])]
<1>7. a = [k \in 0..n |-> IF k = 0 THEN {} ELSE Gra!Peels(a[k - 1])] BY <1>6
<1>8. Gra!Visited = a[n] BY GraCardinality DEF Gra!Visited
<1> HIDE DEF a
<1>9. a \in [0..n -> SUBSET Gra!Nodes] BY <1>2, <1>4, <1>7
<1>10. a[0] = {} /\ \A k \in 1..n : a[k] = Gra!Peels(a[k - 1])
  <2>1. 0 \in 0..n /\ \A k \in 1..n : k \in 0..n /\ k # 0 BY <1>1
  <2> QED BY <1>7, <2>1
<1> QED BY <1>8, <1>9, <1>10

\* The rounds in which what reaches a node is collected (Closed).
LEMMA Reached ==
    ASSUME GraphTyped, Gra!EdgesConnect, NEW t \in Gra!Nodes
    PROVE  \E c \in [0..Cardinality(Gra!Nodes) -> SUBSET Gra!Nodes] :
              /\ c[0] = Gra!Parents(t) /\ c[Cardinality(Gra!Nodes)] = Gra!CanReach(t)
              /\ \A k \in 1..Cardinality(Gra!Nodes) :
                    c[k] = c[k - 1] \cup UNION {Gra!Parents(m) : m \in c[k - 1]}
<1> DEFINE n == Cardinality(Gra!Nodes)
           More(s) == s \cup UNION {Gra!Parents(m) : m \in s}
           F == [s \in SUBSET Gra!Nodes |-> More(s)]
<1>1. n \in Nat BY FS_CardinalityType DEF GraphTyped
<1>2. \A m : Gra!Parents(m) \in SUBSET Gra!Nodes BY DEF Gra!Parents, Gra!Into, Gra!EdgesConnect
<1>3. F \in [SUBSET Gra!Nodes -> SUBSET Gra!Nodes] BY <1>2
<1>5. PICK g : Rounds(g, F, Gra!Parents(t), n, SUBSET Gra!Nodes)
  <2>1. Within(F, SUBSET Gra!Nodes) BY <1>3 DEF Within
  <2>2. Gra!Parents(t) \in SUBSET Gra!Nodes BY <1>2
  <2> HIDE DEF n, F
  <2> QED BY <1>1, <2>1, <2>2, Iterates
<1>r. g \in [0..n -> SUBSET Gra!Nodes] /\ g[0] = Gra!Parents(t) /\ \A k \in 1..n : g[k] = F[g[k - 1]]
  BY <1>5 DEF Rounds
<1>6. g = [k \in 0..n |-> IF k = 0 THEN Gra!Parents(t) ELSE More(g[k - 1])]
  <2> HIDE DEF More
  <2>1. \A k \in 0..n : k = 0 \/ (k \in 1..n /\ k - 1 \in 0..n) BY <1>1
  <2>2. \A k \in 1..n : k - 1 \in 0..n BY <1>1
  <2>3. \A k \in 1..n : g[k - 1] \in SUBSET Gra!Nodes BY <1>r, <2>2
  <2>4. \A k \in 1..n : g[k] = More(g[k - 1]) BY <1>r, <2>3
  <2>5. \A k \in 0..n : g[k] = (IF k = 0 THEN Gra!Parents(t) ELSE More(g[k - 1])) BY <1>r, <2>1, <2>4
  <2>6. g = [k \in 0..n |-> g[k]] BY <1>r
  <2> HIDE DEF n, F
  <2> QED BY <2>5, <2>6
<1> DEFINE c == CHOOSE f : f = [k \in 0..n |-> IF k = 0 THEN Gra!Parents(t) ELSE More(f[k - 1])]
<1>7. c = [k \in 0..n |-> IF k = 0 THEN Gra!Parents(t) ELSE More(c[k - 1])]
  <2> HIDE DEF More
  <2> QED BY <1>6
<1>8. Gra!CanReach(t) = c[n] BY GraCardinality DEF Gra!CanReach, Gra!Closed
<1>9. 0 \in 0..n /\ \A k \in 1..n : k \in 0..n /\ k # 0 /\ k - 1 \in 0..n BY <1>1
<1>10. c[0] = Gra!Parents(t) /\ \A k \in 1..n : c[k] = More(c[k - 1])
  <2> HIDE DEF c, More
  <2> QED BY <1>7, <1>9
<1>11. c \in [0..n -> SUBSET Gra!Nodes]
  <2> DEFINE S == {k \in 0..n : c[k] \in SUBSET Gra!Nodes}
  <2> HIDE DEF c
  <2>1. 0 \in S BY <1>2, <1>9, <1>10
  <2>2. ASSUME NEW k \in 1..n, k - 1 \in S PROVE k \in S BY <1>2, <1>9, <1>10, <2>2
  <2> HIDE DEF S
  <2>3. \A k \in 0..n : k \in S BY <1>1, <2>1, <2>2, Induction
  <2>4. \A k \in 0..n : c[k] \in SUBSET Gra!Nodes BY <2>3 DEF S
  <2>5. c = [k \in 0..n |-> IF k = 0 THEN Gra!Parents(t) ELSE More(c[k - 1])] BY <1>7
  <2> HIDE DEF More
  <2> QED BY <2>4, <2>5
<1> HIDE DEF c
<1> QED BY <1>8, <1>10, <1>11

\* What reaches a node is closed (CanReach).
LEMMA ReachIsClosed ==
    ASSUME GraphTyped, Gra!EdgesConnect, NEW t \in Gra!Nodes
    PROVE  /\ Gra!CanReach(t) \in SUBSET Gra!Nodes
           /\ Gra!Parents(t) \subseteq Gra!CanReach(t)
           /\ \A m \in Gra!CanReach(t) : Gra!Parents(m) \subseteq Gra!CanReach(t)
           /\ \A s : /\ Gra!Parents(t) \subseteq s
                     /\ \A m \in s : Gra!Parents(m) \subseteq s
                     => Gra!CanReach(t) \subseteq s
<1> DEFINE n == Cardinality(Gra!Nodes)
           F == [s \in SUBSET Gra!Nodes |-> s \cup UNION {Gra!Parents(m) : m \in s}]
<1>1. n \in Nat BY FS_CardinalityType DEF GraphTyped
<1>2. \A m : Gra!Parents(m) \in SUBSET Gra!Nodes BY DEF Gra!Parents, Gra!Into, Gra!EdgesConnect
<1>3. F \in [SUBSET Gra!Nodes -> SUBSET Gra!Nodes] BY <1>2
<1>4. PICK c \in [0..n -> SUBSET Gra!Nodes] :
        /\ c[0] = Gra!Parents(t) /\ c[n] = Gra!CanReach(t)
        /\ \A k \in 1..n : c[k] = c[k - 1] \cup UNION {Gra!Parents(m) : m \in c[k - 1]}
  BY Reached
<1>5. \A k \in 0..n : F[c[k]] = c[k] \cup UNION {Gra!Parents(m) : m \in c[k]} OBVIOUS
<1>6. \A k \in 1..n : k - 1 \in 0..n BY <1>1
<1>7. \A k \in 1..n : c[k] = F[c[k - 1]] BY <1>4, <1>5, <1>6
<1>8. \A k \in 0..n : c[k] \subseteq F[c[k]] BY <1>5
<1>9. F[c[n]] = c[n]
  <2>1. Within(F, SUBSET Gra!Nodes) BY <1>3 DEF Within
  <2>2. Rounds(c, F, Gra!Parents(t), n, SUBSET Gra!Nodes) BY <1>4, <1>7 DEF Rounds
  <2>3. IsFiniteSet(Gra!Nodes) BY DEF GraphTyped
  <2> HIDE DEF F
  <2> QED BY <1>8, <2>1, <2>2, <2>3, Saturates
<1>10. n \in 0..n /\ 0 \in 0..n BY <1>1
<1>11. \A m \in c[n] : Gra!Parents(m) \subseteq c[n] BY <1>5, <1>9, <1>10
<1>12. Gra!Parents(t) \subseteq c[n]
  <2> DEFINE S == {k \in 0..n : Gra!Parents(t) \subseteq c[k]}
  <2>1. 0 \in S BY <1>4, <1>10
  <2>2. \A k \in 1..n : k - 1 \in S => k \in S BY <1>4
  <2> HIDE DEF S
  <2>3. \A k \in 0..n : k \in S BY <1>1, <2>1, <2>2, Induction
  <2> QED BY <1>10, <2>3 DEF S
<1>13. ASSUME NEW s, Gra!Parents(t) \subseteq s, \A m \in s : Gra!Parents(m) \subseteq s
       PROVE  c[n] \subseteq s
  <2> DEFINE S == {k \in 0..n : c[k] \subseteq s}
  <2>1. 0 \in S BY <1>4, <1>10, <1>13
  <2>2. ASSUME NEW k \in 1..n, k - 1 \in S PROVE k \in S
    <3>1. c[k - 1] \subseteq s BY <2>2
    <3>2. \A m \in c[k - 1] : Gra!Parents(m) \subseteq s BY <1>13, <3>1
    <3> QED BY <1>4, <3>1, <3>2
  <2> HIDE DEF S
  <2>3. \A k \in 0..n : k \in S BY <1>1, <2>1, <2>2, Induction
  <2> QED BY <1>10, <2>3 DEF S
<1>14. c[n] \in SUBSET Gra!Nodes BY <1>10
<1> QED BY <1>4, <1>11, <1>12, <1>13, <1>14

-----------------------------------------------------------------------------
(* Cycles.  The graph is a parameter here, so that the operators say the   *)
(* same of a state and of the next.                                        *)

NodesOf(g) == DOMAIN g.type
IntoOf(g, n) == {e \in g.edges : e.to = n}
Connected(g) == \A e \in g.edges : e.from \in NodesOf(g) /\ e.to \in NodesOf(g)

\* Every edge leads upwards.
Ranked(g) == \E rank \in [NodesOf(g) -> Nat] : \A e \in g.edges : rank[e.from] < rank[e.to]

\* What was visited has nothing behind it that was not, and the other way round.
LEMMA VisitedIsPeeled ==
    ASSUME GraphTyped
    PROVE  Gra!Peels(Gra!Visited) = Gra!Visited
<1> DEFINE n == Cardinality(Gra!Nodes)
           F == [p \in SUBSET Gra!Nodes |-> Gra!Peels(p)]
<1>1. n \in Nat BY FS_CardinalityType DEF GraphTyped
<1>2. \A p : Gra!Peels(p) \in SUBSET Gra!Nodes BY DEF Gra!Peels
<1>3. \A p, q : p \subseteq q => Gra!Peels(p) \subseteq Gra!Peels(q) BY DEF Gra!Peels
<1>4. PICK a \in [0..n -> SUBSET Gra!Nodes] :
        a[0] = {} /\ a[n] = Gra!Visited /\ \A k \in 1..n : a[k] = Gra!Peels(a[k - 1])
  BY Peeled
<1>5. \A k \in 1..n : k - 1 \in 0..n /\ k \in 0..n BY <1>1
<1>6. \A k \in 0..n : a[k] \subseteq Gra!Peels(a[k])
  <2> DEFINE S == {k \in 0..n : a[k] \subseteq Gra!Peels(a[k])}
  <2>1. 0 \in S BY <1>1, <1>4
  <2>2. \A k \in 1..n : k - 1 \in S => k \in S BY <1>3, <1>4, <1>5
  <2> HIDE DEF S
  <2>3. \A k \in 0..n : k \in S BY <1>1, <2>1, <2>2, Induction
  <2> QED BY <2>3 DEF S
<1>7. \A k \in 0..n : F[a[k]] = Gra!Peels(a[k]) OBVIOUS
<1>8. F[a[n]] = a[n]
  <2>1. Within(F, SUBSET Gra!Nodes) BY <1>2 DEF Within
  <2>2. \A k \in 1..n : a[k] = F[a[k - 1]] BY <1>4, <1>5, <1>7
  <2>3. Rounds(a, F, {}, n, SUBSET Gra!Nodes) BY <1>4, <2>2 DEF Rounds
  <2>4. IsFiniteSet(Gra!Nodes) BY DEF GraphTyped
  <2>5. \A k \in 0..n : a[k] \subseteq F[a[k]] BY <1>6, <1>7
  <2> HIDE DEF F
  <2> QED BY <2>1, <2>3, <2>4, <2>5, Saturates
<1>9. n \in 0..n BY <1>1
<1> QED BY <1>4, <1>7, <1>8, <1>9

\* A graph whose nodes are all visited leads upwards: a node's rank is the
\* round in which it is peeled.
LEMMA VisitedIsRanked ==
    ASSUME GraphTyped, Gra!EdgesConnect, Gra!Visited = Gra!Nodes
    PROVE  Ranked(graph)
<1> DEFINE n == Cardinality(Gra!Nodes)
<1>1. n \in Nat BY FS_CardinalityType DEF GraphTyped
<1>2. PICK a \in [0..n -> SUBSET Gra!Nodes] :
        a[0] = {} /\ a[n] = Gra!Visited /\ \A k \in 1..n : a[k] = Gra!Peels(a[k - 1])
  BY Peeled
<1> HIDE DEF n
<1> DEFINE in(m) == {k \in 0..n : m \in a[k]}
           rank == [m \in Gra!Nodes |-> CHOOSE k \in in(m) : \A j \in in(m) : k <= j]
<1>3. ASSUME NEW m \in Gra!Nodes PROVE rank[m] \in in(m) /\ \A j \in in(m) : rank[m] <= j
  <2>1. n \in in(m) BY <1>1, <1>2
  <2>2. in(m) \subseteq Nat BY <1>1
  <2>3. \E k \in in(m) : \A j \in in(m) : k <= j
    <3> HIDE DEF in
    <3> QED BY <2>1, <2>2, LeastNumber
  <2> HIDE DEF in
  <2> QED BY <2>3
<1>4. rank \in [Gra!Nodes -> Nat]
  <2>1. \A m \in Gra!Nodes : rank[m] \in Nat BY <1>1, <1>3
  <2>2. rank = [m \in Gra!Nodes |-> rank[m]] OBVIOUS
  <2> HIDE DEF rank
  <2> QED BY <2>1, <2>2
<1> HIDE DEF rank
<1>5. ASSUME NEW e \in graph.edges PROVE rank[e.from] < rank[e.to]
  <2>1. e.from \in Gra!Nodes /\ e.to \in Gra!Nodes /\ e \in Gra!Into(e.to) BY DEF Gra!EdgesConnect, Gra!Into
  <2>2. rank[e.to] \in 0..n /\ e.to \in a[rank[e.to]] BY <1>3, <2>1
  <2>3. rank[e.to] # 0 BY <1>2, <2>2
  <2>4. rank[e.to] \in 1..n /\ rank[e.to] - 1 \in 0..n BY <1>1, <2>2, <2>3
  <2>5. e.to \in Gra!Peels(a[rank[e.to] - 1]) BY <1>2, <2>2, <2>4
  <2>6. e.from \in a[rank[e.to] - 1] BY <2>1, <2>5 DEF Gra!Peels
  <2>7. rank[e.to] - 1 \in in(e.from) BY <2>4, <2>6
  <2>8. rank[e.from] <= rank[e.to] - 1 /\ rank[e.from] \in 0..n BY <1>3, <2>1, <2>7
  <2> QED BY <1>1, <2>2, <2>8
<1>6. Gra!Nodes = NodesOf(graph) BY DEF NodesOf, Gra!Nodes
<1> QED BY <1>4, <1>5, <1>6 DEF Ranked

\* No node of a graph that leads upwards is behind itself.
LEMMA RankedHasNoCycle ==
    ASSUME GraphTyped, Gra!EdgesConnect, Ranked(graph), NEW t \in Gra!Nodes
    PROVE  t \notin Gra!CanReach(t)
<1>1. PICK rank \in [NodesOf(graph) -> Nat] : \A e \in graph.edges : rank[e.from] < rank[e.to]
  BY DEF Ranked
<1>2. Gra!Nodes = NodesOf(graph) BY DEF NodesOf, Gra!Nodes
<1> DEFINE s == {m \in Gra!Nodes : rank[m] < rank[t]}
<1>3. ASSUME NEW m \in Gra!Nodes, NEW p \in Gra!Parents(m) PROVE p \in Gra!Nodes /\ rank[p] < rank[m]
  BY <1>1 DEF Gra!Parents, Gra!Into, Gra!EdgesConnect
<1>4. Gra!Parents(t) \subseteq s BY <1>3
<1>5. ASSUME NEW m \in s PROVE Gra!Parents(m) \subseteq s
  <2>1. rank[m] \in Nat /\ rank[t] \in Nat /\ rank[m] < rank[t] BY <1>2
  <2> SUFFICES ASSUME NEW p \in Gra!Parents(m) PROVE p \in s OBVIOUS
  <2>2. p \in Gra!Nodes /\ rank[p] < rank[m] BY <1>3
  <2>3. rank[p] \in Nat BY <1>2, <2>2
  <2> QED BY <2>1, <2>2, <2>3
<1>6. t \notin s BY <1>2
<1>7. Gra!CanReach(t) \subseteq s
  <2> HIDE DEF s
  <2> QED BY <1>4, <1>5, ReachIsClosed
<1> QED BY <1>6, <1>7

\* Where a node is not visited some node is behind itself: one with the least
\* behind it has a parent that was not visited, with no less behind it.
LEMMA UnvisitedHasCycle ==
    ASSUME GraphTyped, Gra!EdgesConnect, Gra!Visited # Gra!Nodes
    PROVE  \E n \in Gra!Nodes : n \in Gra!CanReach(n)
<1> DEFINE U == {n \in Gra!Nodes : n \notin Gra!Visited}
           size(n) == Cardinality(Gra!CanReach(n))
           sizes == {size(n) : n \in U}
<1>1. Gra!Visited \subseteq Gra!Nodes BY VisitedIsPeeled DEF Gra!Peels
<1>2. U # {} BY <1>1
<1>3. \A n \in Gra!Nodes : IsFiniteSet(Gra!CanReach(n)) /\ size(n) \in Nat
  <2> SUFFICES ASSUME NEW n \in Gra!Nodes PROVE IsFiniteSet(Gra!CanReach(n)) /\ size(n) \in Nat OBVIOUS
  <2>1. Gra!CanReach(n) \in SUBSET Gra!Nodes BY ReachIsClosed
  <2>2. IsFiniteSet(Gra!CanReach(n)) BY <2>1, FS_Subset DEF GraphTyped
  <2> QED BY <2>2, FS_CardinalityType
<1>4. PICK u \in U : \A n \in U : size(u) <= size(n)
  <2>1. sizes \subseteq Nat /\ sizes # {} BY <1>2, <1>3
  <2>2. \E m \in sizes : \A k \in sizes : m <= k
    <3> HIDE DEF sizes
    <3> QED BY <2>1, LeastNumber
  <2> QED BY <2>2
<1>5. PICK p \in U : p \in Gra!Parents(u)
  <2>1. u \in Gra!Nodes /\ u \notin Gra!Peels(Gra!Visited) BY VisitedIsPeeled
  <2>2. PICK e \in Gra!Into(u) : e.from \notin Gra!Visited BY <2>1 DEF Gra!Peels
  <2>3. e.from \in Gra!Nodes /\ e.from \in Gra!Parents(u) BY <2>2 DEF Gra!Into, Gra!Parents, Gra!EdgesConnect
  <2> QED BY <2>2, <2>3
<1>6. u \in Gra!Nodes /\ p \in Gra!Nodes OBVIOUS
<1>7. /\ p \in Gra!CanReach(u) /\ Gra!Parents(p) \subseteq Gra!CanReach(u)
      /\ \A m \in Gra!CanReach(u) : Gra!Parents(m) \subseteq Gra!CanReach(u)
  <2>1. Gra!Parents(u) \subseteq Gra!CanReach(u) BY <1>6, ReachIsClosed
  <2>2. \A m \in Gra!CanReach(u) : Gra!Parents(m) \subseteq Gra!CanReach(u) BY <1>6, ReachIsClosed
  <2> QED BY <1>5, <2>1, <2>2
<1>8. Gra!CanReach(p) \subseteq Gra!CanReach(u)
  <2> DEFINE s == Gra!CanReach(u)
  <2>1. Gra!Parents(p) \subseteq s /\ \A m \in s : Gra!Parents(m) \subseteq s BY <1>7
  <2> HIDE DEF s
  <2>2. Gra!CanReach(p) \subseteq s BY <1>6, <2>1, ReachIsClosed
  <2> QED BY <2>2 DEF s
<1>9. Gra!CanReach(p) = Gra!CanReach(u)
  <2>1. IsFiniteSet(Gra!CanReach(u)) BY <1>3, <1>6
  <2>2. size(p) <= size(u) BY <1>8, <2>1, FS_Subset
  <2>3. size(u) <= size(p) /\ size(u) \in Nat /\ size(p) \in Nat BY <1>3, <1>4, <1>5, <1>6
  <2>4. size(p) = size(u) BY <2>2, <2>3
  <2> QED BY <1>8, <2>1, <2>4, FS_Subset
<1> QED BY <1>6, <1>7, <1>9

\* The check finds a cycle where there is one, and only there.
LEMMA CheckFindsCycles ==
    ASSUME GraphTyped, Gra!EdgesConnect
    PROVE  Gra!Visited # Gra!Nodes <=> \E n \in Gra!Nodes : n \in Gra!CanReach(n)
<1>1. Gra!Visited # Gra!Nodes => \E n \in Gra!Nodes : n \in Gra!CanReach(n) BY UnvisitedHasCycle
<1>2. Gra!Visited = Gra!Nodes => \A n \in Gra!Nodes : n \notin Gra!CanReach(n)
  BY VisitedIsRanked, RankedHasNoCycle
<1> QED BY <1>1, <1>2

-----------------------------------------------------------------------------
(* What runs.                                                              *)

MetIn(g, e) ==
    \/ e.kind = "always"
    \/ e.kind = "cond_true" /\ g.outcome[e.from] = TRUE
    \/ e.kind = "cond_false" /\ g.outcome[e.from] = FALSE
Executed(steps) == {steps[i] : i \in 1..Len(steps)}
ReadyAfter(g, steps) ==
    {n \in NodesOf(g) : n \notin Executed(steps) /\ \A e \in IntoOf(g, n) : e.from \in Executed(steps) /\ MetIn(g, e)}
FirstAfter(g, steps) == {n \in ReadyAfter(g, steps) : \A m \in ReadyAfter(g, steps) : n <= m}

\* Each node once, by edges that are met, after what it depends on.
Follows(g, steps) ==
    /\ steps \in Seq(NodesOf(g))
    /\ \A i \in 1..Len(steps) :
         /\ \A e \in IntoOf(g, steps[i]) : MetIn(g, e) /\ \E j \in 1..(i - 1) : steps[j] = e.from
         /\ \A j \in 1..(i - 1) : steps[j] # steps[i]

LEMMA FollowsFromNothing == ASSUME NEW g PROVE Follows(g, << >>)
BY DEF Follows

LEMMA FollowsOn ==
    ASSUME NEW g, NEW steps, Follows(g, steps), NEW n \in ReadyAfter(g, steps)
    PROVE  Follows(g, Append(steps, n))
<1> DEFINE longer == Append(steps, n)
           len == Len(steps)
<1>1. steps \in Seq(NodesOf(g)) /\ n \in NodesOf(g) BY DEF Follows, ReadyAfter
<1>2. /\ longer \in Seq(NodesOf(g)) /\ Len(longer) = len + 1 /\ longer[len + 1] = n /\ len \in Nat
      /\ \A i \in 1..len : longer[i] = steps[i]
  BY <1>1
<1>3. n \notin Executed(steps) /\ \A e \in IntoOf(g, n) : e.from \in Executed(steps) /\ MetIn(g, e)
  BY DEF ReadyAfter
<1> HIDE DEF longer, len
<1>4. len = Len(steps) BY DEF len
<1>5. ASSUME NEW i \in 1..(len + 1)
      PROVE  /\ \A e \in IntoOf(g, longer[i]) : MetIn(g, e) /\ \E j \in 1..(i - 1) : longer[j] = e.from
             /\ \A j \in 1..(i - 1) : longer[j] # longer[i]
  <2>1. \A j \in 1..(i - 1) : j \in 1..len BY <1>2
  <2>2. CASE i \in 1..len
    <3>1. /\ \A e \in IntoOf(g, steps[i]) : MetIn(g, e) /\ \E j \in 1..(i - 1) : steps[j] = e.from
          /\ \A j \in 1..(i - 1) : steps[j] # steps[i]
      BY <1>4, <2>2 DEF Follows
    <3>2. longer[i] = steps[i] /\ \A j \in 1..(i - 1) : longer[j] = steps[j] BY <1>2, <2>1, <2>2
    <3> QED BY <3>1, <3>2
  <2>3. CASE i = len + 1
    <3>1. longer[i] = n /\ i - 1 = len BY <1>2, <2>3
    <3>2. \A j \in 1..len : longer[j] # n BY <1>2, <1>3, <1>4 DEF Executed
    <3>3. ASSUME NEW e \in IntoOf(g, n) PROVE MetIn(g, e) /\ \E j \in 1..len : longer[j] = e.from
      <4>1. MetIn(g, e) /\ \E j \in 1..len : steps[j] = e.from BY <1>3, <1>4 DEF Executed
      <4> QED BY <1>2, <4>1
    <3> QED BY <3>1, <3>2, <3>3
  <2>4. i \in 1..len \/ i = len + 1 BY <1>2
  <2> QED BY <2>2, <2>3, <2>4
<1>6. Follows(g, longer) BY <1>2, <1>5 DEF Follows
<1> QED BY <1>6 DEF longer

\* Where a node is ready there is a first one, and one only.
LEMMA FirstIsOne ==
    ASSUME NEW g, NEW steps, NodesOf(g) \subseteq Nat
    PROVE  /\ \A n, m \in FirstAfter(g, steps) : n = m
           /\ FirstAfter(g, steps) = {} => ReadyAfter(g, steps) = {}
           /\ FirstAfter(g, steps) \subseteq ReadyAfter(g, steps)
           /\ ReadyAfter(g, steps) \subseteq NodesOf(g)
<1>1. ReadyAfter(g, steps) \subseteq NodesOf(g) BY DEF ReadyAfter
<1>2. ReadyAfter(g, steps) \subseteq Nat BY <1>1
<1>3. \A n, m \in FirstAfter(g, steps) : n <= m /\ m <= n /\ n \in Nat /\ m \in Nat BY <1>2 DEF FirstAfter
<1>4. ASSUME ReadyAfter(g, steps) # {} PROVE FirstAfter(g, steps) # {}
  <2>1. \E m \in ReadyAfter(g, steps) : \A k \in ReadyAfter(g, steps) : m <= k BY <1>2, <1>4, LeastNumber
  <2> QED BY <2>1 DEF FirstAfter
<1>5. FirstAfter(g, steps) \subseteq ReadyAfter(g, steps) BY DEF FirstAfter
<1>6. \A n, m \in FirstAfter(g, steps) : n = m BY <1>3
<1> QED BY <1>1, <1>4, <1>5, <1>6

\* What the conditions allow: a node whose every edge comes from one of them and is met.
Allowed(g, S) == \A n \in NodesOf(g) : n \in S <=> \A e \in IntoOf(g, n) : e.from \in S /\ MetIn(g, e)

\* It is fixed by the graph, where the graph leads upwards.
LEMMA AllowedIsOne ==
    ASSUME NEW g, Connected(g), Ranked(g), NEW A \in SUBSET NodesOf(g), NEW B \in SUBSET NodesOf(g),
           Allowed(g, A), Allowed(g, B)
    PROVE  A = B
<1>1. PICK rank \in [NodesOf(g) -> Nat] : \A e \in g.edges : rank[e.from] < rank[e.to] BY DEF Ranked
<1> DEFINE D == {n \in NodesOf(g) : ~(n \in A <=> n \in B)}
           ranks == {rank[n] : n \in D}
<1>2. ASSUME D # {} PROVE FALSE
  <2>1. ranks \subseteq Nat /\ ranks # {} BY <1>2
  <2>2. PICK n \in D : \A m \in D : rank[n] <= rank[m]
    <3>1. \E r \in ranks : \A k \in ranks : r <= k
      <4> HIDE DEF ranks
      <4> QED BY <2>1, LeastNumber
    <3> QED BY <3>1
  <2>3. ASSUME NEW e \in IntoOf(g, n) PROVE e.from \in A <=> e.from \in B
    <3>1. e.from \in NodesOf(g) /\ n \in NodesOf(g) /\ e \in g.edges /\ e.to = n BY DEF Connected, IntoOf
    <3>2. rank[e.from] < rank[n] /\ rank[e.from] \in Nat /\ rank[n] \in Nat BY <1>1, <3>1
    <3>3. e.from \notin D BY <2>2, <3>2
    <3> QED BY <3>1, <3>3
  <2>4. n \in A <=> n \in B BY <2>3 DEF Allowed
  <2> QED BY <2>4
<1> QED BY <1>2

\* A run that follows its graph and has nothing left to run has executed what
\* the conditions allow, each node once.
LEMMA FollowedToTheEnd ==
    ASSUME NEW g, NodesOf(g) \subseteq Nat, Connected(g), Ranked(g),
           NEW steps, Follows(g, steps), FirstAfter(g, steps) = {}
    PROVE  /\ Executed(steps) \in SUBSET NodesOf(g) /\ Allowed(g, Executed(steps))
           /\ Len(steps) = Cardinality(Executed(steps))
<1> DEFINE S == Executed(steps)
<1>1. steps \in Seq(NodesOf(g)) /\ Len(steps) \in Nat BY DEF Follows
<1>2. S \in SUBSET NodesOf(g) BY <1>1 DEF Executed
<1>3. ReadyAfter(g, steps) = {} BY FirstIsOne
<1>4. ASSUME NEW n \in NodesOf(g) PROVE n \in S <=> \A e \in IntoOf(g, n) : e.from \in S /\ MetIn(g, e)
  <2>1. ASSUME n \in S, NEW e \in IntoOf(g, n) PROVE e.from \in S /\ MetIn(g, e)
    <3>1. PICK i \in 1..Len(steps) : n = steps[i] BY <2>1 DEF Executed
    <3>2. MetIn(g, e) /\ \E j \in 1..(i - 1) : steps[j] = e.from BY <2>1, <3>1 DEF Follows
    <3>3. \A j \in 1..(i - 1) : j \in 1..Len(steps) BY <1>1
    <3> QED BY <3>2, <3>3 DEF Executed
  <2>2. ASSUME n \notin S, \A e \in IntoOf(g, n) : e.from \in S /\ MetIn(g, e) PROVE FALSE
    BY <1>3, <2>2 DEF ReadyAfter
  <2> QED BY <2>1, <2>2
<1>5. Len(steps) = Cardinality(S)
  <2> DEFINE f == [i \in 1..Len(steps) |-> steps[i]]
  <2>1. IsFiniteSet(1..Len(steps)) /\ Cardinality(1..Len(steps)) = Len(steps)
    <3>1. 0 \in Int /\ 1 \in Int /\ Len(steps) \in Int BY <1>1
    <3>2. IsFiniteSet(1..Len(steps)) BY <3>1, FS_Interval
    <3>3. Cardinality(1..Len(steps)) = IF 1 > Len(steps) THEN 0 ELSE Len(steps) - 1 + 1 BY <3>1, FS_Interval
    <3>4. Cardinality(1..Len(steps)) = Len(steps) BY <1>1, <3>3
    <3> QED BY <3>2, <3>4
  <2>2. f \in [1..Len(steps) -> S] BY DEF Executed
  <2>3. \A m \in S : \E i \in 1..Len(steps) : f[i] = m BY DEF Executed
  <2>4. ASSUME NEW i \in 1..Len(steps), NEW j \in 1..Len(steps), i # j PROVE f[i] # f[j]
    <3>1. i < j \/ j < i BY <1>1, <2>4
    <3>2. ASSUME i < j PROVE f[i] # f[j]
      <4>1. i \in 1..(j - 1) BY <1>1, <3>2
      <4>2. steps[i] # steps[j] BY <4>1 DEF Follows
      <4> QED BY <4>2
    <3>3. ASSUME j < i PROVE f[i] # f[j]
      <4>1. j \in 1..(i - 1) BY <1>1, <3>3
      <4>2. steps[j] # steps[i] BY <4>1 DEF Follows
      <4> QED BY <4>2
    <3> QED BY <3>1, <3>2, <3>3
  <2> HIDE DEF f, S
  <2>5. f \in Bijection(1..Len(steps), S)
    <3>1. f \in Injection(1..Len(steps), S) BY <2>2, <2>4 DEF Injection, IsInjective
    <3>2. f \in Surjection(1..Len(steps), S) BY <2>2, <2>3 DEF Surjection
    <3> QED BY <3>1, <3>2 DEF Bijection
  <2>6. ExistsBijection(1..Len(steps), S) BY <2>5 DEF ExistsBijection
  <2>7. Cardinality(S) = Cardinality(1..Len(steps)) BY <2>1, <2>6, FS_Bijection
  <2> QED BY <2>1, <2>7
<1> QED BY <1>2, <1>4, <1>5 DEF Allowed

-----------------------------------------------------------------------------
(* The invariant of the run and its worker.                                *)

Resumable(g, steps, n) == n # None => FirstAfter(g, steps) = {n} /\ g.type[n] = "remote"

GraphTypes ==
    /\ GraphTyped
    /\ graphRow \in [status : {"queued", "running", "succeeded", "failed"}, attempt : Nat,
                     steps : Seq(NodesOf(graph)), block : NodesOf(graph) \cup {None},
                     pending : NodesOf(graph) \cup {None}, queued : BOOLEAN]
    /\ worker \in [at : {"idle", "check", "loop", "save"}, steps : Seq(NodesOf(graph)),
                   pending : NodesOf(graph) \cup {None}]

\* The steps kept, and those of the worker, follow the graph.
StepsFollow == Follows(graph, graphRow.steps) /\ Follows(graph, worker.steps)

\* A graph that the worker goes through, or went through, was checked.
CheckedFirst ==
    worker.at \in {"loop", "save"} \/ graphRow.status = "succeeded" => Connected(graph) /\ Ranked(graph)

\* A run that succeeded has nothing left to run.
NothingLeft == graphRow.status = "succeeded" => FirstAfter(graph, graphRow.steps) = {}

\* The worker works at a run that is running and does not wait, and only such a run waits.
WorksOrWaits ==
    /\ worker.at # "idle" => graphRow.status = "running" /\ graphRow.block = None
    /\ graphRow.block # None => graphRow.status = "running"

\* The node that blocked, or whose result is pending, is ready first.
BlockedIsFirst ==
    /\ graphRow.status = "running" => Resumable(graph, graphRow.steps, graphRow.block)
    /\ graphRow.status = "running" => Resumable(graph, graphRow.steps, graphRow.pending)
    /\ worker.at \in {"check", "loop"} => Resumable(graph, worker.steps, worker.pending)
    /\ worker.at = "save" => worker.pending = None

GraphInv ==
    /\ GraphTypes /\ StepsFollow /\ CheckedFirst /\ NothingLeft /\ WorksOrWaits /\ BlockedIsFirst

\* The model's operators, and those above.
LEMMA SameGraph ==
    ASSUME GraphTypes
    PROVE  /\ Gra!Nodes = NodesOf(graph)
           /\ Gra!EdgesConnect <=> Connected(graph)
           /\ \A n : Gra!Into(n) = IntoOf(graph, n)
           /\ \A e : Gra!Met(e) <=> MetIn(graph, e)
           /\ \A s \in Seq(NodesOf(graph)) : Gra!ToSet(s) = Executed(s)
           /\ Gra!First = FirstAfter(graph, worker.steps)
<1>1. Gra!Nodes = NodesOf(graph) BY DEF NodesOf, Gra!Nodes
<1>2. Gra!EdgesConnect <=> Connected(graph) BY <1>1 DEF Gra!EdgesConnect, Connected
<1>3. \A n : Gra!Into(n) = IntoOf(graph, n) BY DEF Gra!Into, IntoOf
<1>4. \A e : Gra!Met(e) <=> MetIn(graph, e) BY DEF Gra!Met, MetIn
<1>5. \A s \in Seq(NodesOf(graph)) : Gra!ToSet(s) = Executed(s)
  <2> SUFFICES ASSUME NEW s \in Seq(NodesOf(graph)) PROVE Gra!ToSet(s) = Executed(s) OBVIOUS
  <2>1. DOMAIN s = 1..Len(s) OBVIOUS
  <2> QED BY <2>1 DEF Gra!ToSet, Executed
<1>6. Gra!First = FirstAfter(graph, worker.steps)
  <2>1. worker.steps \in Seq(NodesOf(graph)) BY DEF GraphTypes
  <2>2. Gra!ToSet(worker.steps) = Executed(worker.steps) BY <1>5, <2>1
  <2>3. \A e : Gra!edgeStatus(e) <=> e.from \in Executed(worker.steps) /\ MetIn(graph, e)
    BY <2>2 DEF Gra!edgeStatus, Gra!Succeeded, MetIn
  <2>4. \A n : Gra!nodeReady(n) <=> /\ n \notin Executed(worker.steps)
                                    /\ \A e \in IntoOf(graph, n) : e.from \in Executed(worker.steps) /\ MetIn(graph, e)
    BY <1>3, <2>2, <2>3 DEF Gra!nodeReady, Gra!Succeeded
  <2>5. Gra!Ready = ReadyAfter(graph, worker.steps) BY <1>1, <2>4 DEF Gra!Ready, ReadyAfter
  <2> QED BY <2>5 DEF Gra!First, FirstAfter
<1> QED BY <1>1, <1>2, <1>3, <1>4, <1>5, <1>6

LEMMA CheckedIsRanked ==
    ASSUME GraphTypes, Gra!Code = "OK"
    PROVE  Connected(graph) /\ Ranked(graph)
<1>1. Gra!EdgesConnect /\ Gra!Visited = Gra!Nodes BY DEF Gra!Code
<1> QED BY <1>1, SameGraph, VisitedIsRanked DEF GraphTypes

LEMMA GraphBegins ==
    ASSUME NEW g, IsFiniteSet(DOMAIN g.type), DOMAIN g.type \subseteq Nat \ {None}, Gra!InitOf(g)
    PROVE  GraphInv
<1> USE DEF Gra!InitOf, Gra!Idle
<1>1. GraphTypes
  <2>1. graph = g /\ Gra!Nodes = DOMAIN g.type BY DEF Gra!Nodes
  <2>2. GraphTyped BY <2>1 DEF GraphTyped
  <2>3. << >> \in Seq(NodesOf(graph)) OBVIOUS
  <2> QED BY <2>2, <2>3 DEF GraphTypes
<1>2. StepsFollow BY FollowsFromNothing DEF StepsFollow
<1>3. CheckedFirst /\ NothingLeft /\ WorksOrWaits BY DEF CheckedFirst, NothingLeft, WorksOrWaits
<1>4. BlockedIsFirst BY DEF BlockedIsFirst, Resumable
<1> QED BY <1>1, <1>2, <1>3, <1>4 DEF GraphInv

LEMMA GraphKeepsTyped == ASSUME GraphTyped, graph' = graph PROVE GraphTyped'
BY DEF GraphTyped, Gra!Nodes

\* What is ready first, of what is ready, of the worker's steps.
LEMMA FirstFollows ==
    ASSUME GraphInv, NEW n \in Gra!First
    PROVE  /\ n \in NodesOf(graph) /\ n # None
           /\ Gra!First = {n} /\ FirstAfter(graph, worker.steps) = {n}
           /\ Append(worker.steps, n) \in Seq(NodesOf(graph))
           /\ Follows(graph, Append(worker.steps, n))
           /\ Gra!IsRemote(n) <=> graph.type[n] = "remote"
<1>1. GraphTypes /\ StepsFollow BY DEF GraphInv
<1>2. Gra!First = FirstAfter(graph, worker.steps) BY <1>1, SameGraph
<1>3. NodesOf(graph) \subseteq Nat \ {None} BY <1>1, SameGraph DEF GraphTypes, GraphTyped
<1>4. /\ \A k, m \in FirstAfter(graph, worker.steps) : k = m
      /\ FirstAfter(graph, worker.steps) \subseteq ReadyAfter(graph, worker.steps)
      /\ ReadyAfter(graph, worker.steps) \subseteq NodesOf(graph)
  BY <1>3, FirstIsOne
<1>5. n \in ReadyAfter(graph, worker.steps) /\ n \in NodesOf(graph) BY <1>2, <1>4
<1>6. Follows(graph, worker.steps) BY <1>1 DEF StepsFollow
<1>7. Follows(graph, Append(worker.steps, n)) BY <1>5, <1>6, FollowsOn
<1>8. Append(worker.steps, n) \in Seq(NodesOf(graph)) BY <1>7 DEF Follows
<1>9. FirstAfter(graph, worker.steps) = {n} BY <1>2, <1>4
<1> QED BY <1>2, <1>3, <1>5, <1>7, <1>8, <1>9 DEF Gra!IsRemote

\* A job begins, or goes on.
LEMMA GraphStarts ==
    ASSUME GraphInv, Gra!Starts \/ Gra!Resumes PROVE GraphInv'
<1> USE DEF GraphInv
<1>1. CASE Gra!Starts
  <2> USE <1>1 DEF Gra!Starts
  <2>1. GraphTypes'
    <3>1. GraphTyped' BY GraphKeepsTyped DEF GraphTypes
    <3>2. << >> \in Seq(NodesOf(graph)) OBVIOUS
    <3>3. graphRow' \in [status : {"queued", "running", "succeeded", "failed"}, attempt : Nat,
                         steps : Seq(NodesOf(graph)), block : NodesOf(graph) \cup {None},
                         pending : NodesOf(graph) \cup {None}, queued : BOOLEAN]
      <4>1. graphRow.attempt + 1 \in Nat BY DEF GraphTypes
      <4>2. graphRow' = [graphRow EXCEPT !.status = "running", !.attempt = graphRow.attempt + 1,
                                         !.steps = << >>, !.pending = None]
        OBVIOUS
      <4> HIDE <1>1
      <4> QED BY <3>2, <4>1, <4>2 DEF GraphTypes
    <3>4. worker' = [at |-> "check", steps |-> << >>, pending |-> None] /\ graph' = graph OBVIOUS
    <3> HIDE <1>1
    <3> QED BY <3>1, <3>2, <3>3, <3>4 DEF GraphTypes
  <2>2. /\ graphRow'.status = "running" /\ graphRow'.steps = << >> /\ graphRow'.pending = None
        /\ graphRow'.block = graphRow.block /\ graphRow.block = None
        /\ worker' = [at |-> "check", steps |-> << >>, pending |-> None] /\ graph' = graph
    BY DEF GraphTypes, WorksOrWaits
  <2>3. StepsFollow' BY <2>2, FollowsFromNothing DEF StepsFollow
  <2>4. CheckedFirst' /\ NothingLeft' /\ WorksOrWaits' BY <2>2 DEF CheckedFirst, NothingLeft, WorksOrWaits
  <2>5. BlockedIsFirst' BY <2>2 DEF BlockedIsFirst, Resumable
  <2> QED BY <2>1, <2>3, <2>4, <2>5
<1>2. CASE Gra!Resumes
  <2> USE <1>2 DEF Gra!Resumes
  <2>1. GraphTypes'
    <3>1. GraphTyped' BY GraphKeepsTyped DEF GraphTypes
    <3> QED BY <3>1 DEF GraphTypes
  <2>2. /\ graphRow.status = "running" /\ graphRow.block = None /\ graphRow' = graphRow /\ graph' = graph
        /\ worker' = [at |-> "check", steps |-> graphRow.steps, pending |-> graphRow.pending]
    OBVIOUS
  <2>3. StepsFollow' BY <2>2 DEF StepsFollow
  <2>4. CheckedFirst' /\ NothingLeft' /\ WorksOrWaits' BY <2>2 DEF CheckedFirst, NothingLeft, WorksOrWaits
  <2>5. BlockedIsFirst' BY <2>2 DEF BlockedIsFirst
  <2> QED BY <2>1, <2>3, <2>4, <2>5
<1> QED BY <1>1, <1>2

\* An attempt that fails leaves the worker idle and the steps as they are.
LEMMA GraphFails ==
    ASSUME GraphInv, graph' = graph, graphRow' = Gra!Retried(graphRow),
           graphRow.status = "running", worker' = Gra!Idle \/ (worker' = worker /\ worker.at = "idle")
    PROVE  GraphInv'
<1> USE DEF GraphInv
<1>1. GraphTypes'
  <2>1. GraphTyped' BY GraphKeepsTyped DEF GraphTypes
  <2>2. << >> \in Seq(NodesOf(graph)) OBVIOUS
  <2>3. graphRow' \in [status : {"queued", "running", "succeeded", "failed"}, attempt : Nat,
                       steps : Seq(NodesOf(graph)), block : NodesOf(graph) \cup {None},
                       pending : NodesOf(graph) \cup {None}, queued : BOOLEAN]
    BY DEF GraphTypes, Gra!Retried
  <2>4. worker' \in [at : {"idle", "check", "loop", "save"}, steps : Seq(NodesOf(graph)),
                     pending : NodesOf(graph) \cup {None}]
    <3>1. CASE worker' = Gra!Idle BY <2>2, <3>1 DEF Gra!Idle
    <3>2. CASE worker' = worker BY <3>2 DEF GraphTypes
    <3> QED BY <3>1, <3>2
  <2> QED BY <2>1, <2>3, <2>4 DEF GraphTypes
<1>2. /\ graphRow'.status \in {"queued", "failed"} /\ graphRow'.steps = graphRow.steps
      /\ graphRow'.block = None
  BY DEF GraphTypes, Gra!Retried
<1>3. worker'.at = "idle" /\ Follows(graph, worker'.steps)
  BY FollowsFromNothing DEF Gra!Idle, StepsFollow
<1>4. StepsFollow' BY <1>2, <1>3 DEF StepsFollow
<1>5. CheckedFirst' /\ NothingLeft' /\ WorksOrWaits' BY <1>2, <1>3 DEF CheckedFirst, NothingLeft, WorksOrWaits
<1>6. BlockedIsFirst' BY <1>2, <1>3 DEF BlockedIsFirst
<1> QED BY <1>1, <1>4, <1>5, <1>6

\* A graph is checked, and the loop begins or the attempt fails.
LEMMA GraphChecks ==
    ASSUME GraphInv, Gra!ChecksGraph PROVE GraphInv'
<1> USE DEF GraphInv
<1>1. graph' = graph /\ worker.at = "check" /\ graphRow.status = "running"
  BY DEF Gra!ChecksGraph, WorksOrWaits
<1>2. CASE graphRow' = Gra!Retried(graphRow) /\ worker' = Gra!Idle BY <1>1, <1>2, GraphFails
<1>3. CASE Gra!Code = "OK" /\ worker' = [worker EXCEPT !.at = "loop"] /\ graphRow' = graphRow
  <2>1. worker'.at = "loop" /\ worker'.steps = worker.steps /\ worker'.pending = worker.pending
    BY <1>3 DEF GraphTypes
  <2>2. GraphTypes'
    <3>1. GraphTyped' BY <1>1, GraphKeepsTyped DEF GraphTypes
    <3> QED BY <1>1, <1>3, <3>1 DEF GraphTypes
  <2>3. StepsFollow' BY <1>1, <1>3, <2>1 DEF StepsFollow
  <2>4. CheckedFirst' BY <1>1, <1>3, CheckedIsRanked DEF CheckedFirst
  <2>5. NothingLeft' /\ WorksOrWaits' BY <1>1, <1>3, <2>1 DEF NothingLeft, WorksOrWaits
  <2>6. BlockedIsFirst' BY <1>1, <1>3, <2>1 DEF BlockedIsFirst
  <2> QED BY <2>2, <2>3, <2>4, <2>5, <2>6
<1> QED BY <1>2, <1>3 DEF Gra!ChecksGraph

\* A node runs here, or uses the result that was pending.
LEMMA GraphPushes ==
    ASSUME GraphInv, worker.at = "loop", NEW n \in Gra!First, Gra!Pushes(n, None),
           graphRow' = graphRow, graph' = graph
    PROVE  GraphInv'
<1> USE DEF GraphInv
<1>1. Append(worker.steps, n) \in Seq(NodesOf(graph)) /\ Follows(graph, Append(worker.steps, n)) BY FirstFollows
<1>2. worker' = [at |-> "save", steps |-> Append(worker.steps, n), pending |-> None] BY DEF Gra!Pushes
<1>3. GraphTypes'
  <2>1. GraphTyped' BY GraphKeepsTyped DEF GraphTypes
  <2> QED BY <1>1, <1>2, <2>1 DEF GraphTypes
<1>4. StepsFollow' BY <1>1, <1>2 DEF StepsFollow
<1>5. CheckedFirst' /\ NothingLeft' /\ WorksOrWaits' BY <1>2 DEF CheckedFirst, NothingLeft, WorksOrWaits
<1>6. BlockedIsFirst' BY <1>2 DEF BlockedIsFirst
<1> QED BY <1>3, <1>4, <1>5, <1>6

LEMMA GraphRunsHere ==
    ASSUME GraphInv, Gra!RunsHere \/ Gra!ConsumesResult PROVE GraphInv'
<1>1. CASE Gra!RunsHere
  <2>1. PICK n \in Gra!First : ~Gra!IsRemote(n) /\ Gra!Pushes(n, worker.pending)
    BY <1>1 DEF Gra!RunsHere
  <2>2. worker.pending = None
    <3>1. Resumable(graph, worker.steps, worker.pending) BY <1>1 DEF Gra!RunsHere, GraphInv, BlockedIsFirst
    <3>2. FirstAfter(graph, worker.steps) = {n} /\ (Gra!IsRemote(n) <=> graph.type[n] = "remote") BY FirstFollows
    <3> QED BY <2>1, <3>1, <3>2 DEF Resumable
  <2>3. Gra!Pushes(n, None) BY <2>1, <2>2
  <2>4. worker.at = "loop" /\ graphRow' = graphRow /\ graph' = graph BY <1>1 DEF Gra!RunsHere
  <2> QED BY <2>3, <2>4, GraphPushes
<1>2. CASE Gra!ConsumesResult
  <2>1. PICK n \in Gra!First : Gra!Pushes(n, None) BY <1>2 DEF Gra!ConsumesResult
  <2>2. worker.at = "loop" /\ graphRow' = graphRow /\ graph' = graph BY <1>2 DEF Gra!ConsumesResult
  <2> QED BY <2>1, <2>2, GraphPushes
<1> QED BY <1>1, <1>2

\* A node whose call goes to the gateway.
LEMMA GraphBlocks ==
    ASSUME GraphInv, Gra!Blocks PROVE GraphInv'
<1> USE DEF GraphInv
<1>1. PICK n \in Gra!First :
        /\ Gra!IsRemote(n)
        /\ graphRow' = [graphRow EXCEPT !.block = n, !.steps = worker.steps, !.pending = None, !.queued = FALSE]
  BY DEF Gra!Blocks
<1>2. worker.at = "loop" /\ worker' = Gra!Idle /\ graph' = graph BY DEF Gra!Blocks
<1>3. graphRow.status = "running" BY <1>2 DEF WorksOrWaits
<1>4. /\ n \in NodesOf(graph) /\ FirstAfter(graph, worker.steps) = {n} /\ graph.type[n] = "remote"
  BY <1>1, FirstFollows
<1>5. /\ graphRow'.status = "running" /\ graphRow'.block = n /\ graphRow'.steps = worker.steps
      /\ graphRow'.pending = None
  BY <1>1, <1>3 DEF GraphTypes
<1>6. GraphTypes'
  <2>1. GraphTyped' BY <1>2, GraphKeepsTyped DEF GraphTypes
  <2>2. << >> \in Seq(NodesOf(graph)) OBVIOUS
  <2>3. graphRow' \in [status : {"queued", "running", "succeeded", "failed"}, attempt : Nat,
                       steps : Seq(NodesOf(graph)), block : NodesOf(graph) \cup {None},
                       pending : NodesOf(graph) \cup {None}, queued : BOOLEAN]
    BY <1>1, <1>4 DEF GraphTypes
  <2> QED BY <1>2, <2>1, <2>2, <2>3 DEF GraphTypes, Gra!Idle
<1>7. StepsFollow' BY <1>2, <1>5, FollowsFromNothing DEF StepsFollow, Gra!Idle
<1>8. CheckedFirst' /\ NothingLeft' /\ WorksOrWaits' BY <1>2, <1>5 DEF CheckedFirst, NothingLeft, WorksOrWaits, Gra!Idle
<1>9. BlockedIsFirst' BY <1>2, <1>4, <1>5 DEF BlockedIsFirst, Resumable, Gra!Idle
<1> QED BY <1>6, <1>7, <1>8, <1>9

\* What was executed is written to the run.
LEMMA GraphSaves ==
    ASSUME GraphInv, Gra!checkpointProgress PROVE GraphInv'
<1> USE DEF GraphInv
<1>1. /\ worker.at = "save" /\ worker' = [worker EXCEPT !.at = "loop"] /\ graph' = graph
      /\ graphRow' = [graphRow EXCEPT !.steps = worker.steps, !.pending = worker.pending]
  BY DEF Gra!checkpointProgress
<1>2. graphRow.status = "running" /\ graphRow.block = None /\ worker.pending = None
  BY <1>1 DEF WorksOrWaits, BlockedIsFirst
<1>3. /\ worker'.at = "loop" /\ worker'.steps = worker.steps /\ worker'.pending = None
      /\ graphRow'.status = "running" /\ graphRow'.steps = worker.steps
      /\ graphRow'.pending = None /\ graphRow'.block = None
  BY <1>1, <1>2 DEF GraphTypes
<1>4. GraphTypes'
  <2>1. GraphTyped' BY <1>1, GraphKeepsTyped DEF GraphTypes
  <2> QED BY <1>1, <2>1 DEF GraphTypes
<1>5. StepsFollow' BY <1>1, <1>3 DEF StepsFollow
<1>6. CheckedFirst' BY <1>1 DEF CheckedFirst
<1>7. NothingLeft' /\ WorksOrWaits' BY <1>3 DEF NothingLeft, WorksOrWaits
<1>8. BlockedIsFirst' BY <1>3 DEF BlockedIsFirst, Resumable
<1> QED BY <1>4, <1>5, <1>6, <1>7, <1>8

\* The run ends when no node is ready.
LEMMA GraphFinishes ==
    ASSUME GraphInv, Gra!Finishes PROVE GraphInv'
<1> USE DEF GraphInv
<1>1. /\ worker.at = "loop" /\ Gra!First = {} /\ worker' = Gra!Idle /\ graph' = graph
      /\ graphRow' = [graphRow EXCEPT !.status = "succeeded", !.steps = worker.steps, !.queued = FALSE]
  BY DEF Gra!Finishes
<1>2. graphRow.block = None BY <1>1 DEF WorksOrWaits
<1>3. /\ graphRow'.status = "succeeded" /\ graphRow'.steps = worker.steps /\ graphRow'.block = None
  BY <1>1, <1>2 DEF GraphTypes
<1>4. GraphTypes'
  <2>1. GraphTyped' BY <1>1, GraphKeepsTyped DEF GraphTypes
  <2>2. << >> \in Seq(NodesOf(graph)) OBVIOUS
  <2> QED BY <1>1, <2>1, <2>2 DEF GraphTypes, Gra!Idle
<1>5. StepsFollow' BY <1>1, <1>3, FollowsFromNothing DEF StepsFollow, Gra!Idle
<1>6. CheckedFirst' BY <1>1 DEF CheckedFirst
<1>7. NothingLeft' BY <1>1, <1>3, SameGraph DEF NothingLeft
<1>8. WorksOrWaits' /\ BlockedIsFirst' BY <1>1, <1>3 DEF WorksOrWaits, BlockedIsFirst, Gra!Idle
<1> QED BY <1>4, <1>5, <1>6, <1>7, <1>8

\* A job that has nothing to do, a result, and a worker that dies.
LEMMA GraphReturns ==
    ASSUME GraphInv, Gra!Returns \/ Gra!ResultArrives \/ Gra!Dies PROVE GraphInv'
<1> USE DEF GraphInv
<1>0. graph' = graph BY DEF Gra!Returns, Gra!ResultArrives, Gra!Dies
<1>1. GraphTyped' BY <1>0, GraphKeepsTyped DEF GraphTypes
<1>2. << >> \in Seq(NodesOf(graph)) OBVIOUS
<1>3. CASE Gra!Returns
  <2>1. worker' = worker /\ graphRow' = [graphRow EXCEPT !.queued = FALSE] BY <1>3 DEF Gra!Returns
  <2>2. /\ graphRow'.status = graphRow.status /\ graphRow'.steps = graphRow.steps
        /\ graphRow'.block = graphRow.block /\ graphRow'.pending = graphRow.pending
    BY <2>1 DEF GraphTypes
  <2>3. GraphTypes' BY <1>0, <1>1, <2>1 DEF GraphTypes
  <2>4. StepsFollow' /\ CheckedFirst' /\ NothingLeft' /\ WorksOrWaits' /\ BlockedIsFirst'
    BY <1>0, <2>1, <2>2 DEF StepsFollow, CheckedFirst, NothingLeft, WorksOrWaits, BlockedIsFirst
  <2> QED BY <2>3, <2>4
<1>4. CASE Gra!ResultArrives
  <2>1. /\ worker' = worker /\ graphRow.status = "running" /\ graphRow.block # None
        /\ graphRow' = [graphRow EXCEPT !.pending = graphRow.block, !.block = None, !.queued = TRUE]
    BY <1>4 DEF Gra!ResultArrives
  <2>2. /\ graphRow'.status = "running" /\ graphRow'.steps = graphRow.steps
        /\ graphRow'.block = None /\ graphRow'.pending = graphRow.block
    BY <2>1 DEF GraphTypes
  <2>3. worker.at = "idle" BY <2>1 DEF WorksOrWaits
  <2>4. GraphTypes' BY <1>0, <1>1, <2>1 DEF GraphTypes
  <2>5. StepsFollow' /\ CheckedFirst' /\ NothingLeft' /\ WorksOrWaits'
    BY <1>0, <2>1, <2>2, <2>3 DEF StepsFollow, CheckedFirst, NothingLeft, WorksOrWaits
  <2>6. BlockedIsFirst' BY <1>0, <2>1, <2>2, <2>3 DEF BlockedIsFirst, Resumable
  <2> QED BY <2>4, <2>5, <2>6
<1>5. CASE Gra!Dies
  <2>1. worker' = Gra!Idle /\ graphRow' = graphRow BY <1>5 DEF Gra!Dies
  <2>2. GraphTypes' BY <1>0, <1>1, <1>2, <2>1 DEF GraphTypes, Gra!Idle
  <2>3. StepsFollow' BY <1>0, <2>1, FollowsFromNothing DEF StepsFollow, Gra!Idle
  <2>4. CheckedFirst' /\ NothingLeft' /\ WorksOrWaits' /\ BlockedIsFirst'
    BY <1>0, <2>1 DEF CheckedFirst, NothingLeft, WorksOrWaits, BlockedIsFirst, Gra!Idle
  <2> QED BY <2>2, <2>3, <2>4
<1> QED BY <1>3, <1>4, <1>5

LEMMA GraphGoesOn ==
    ASSUME GraphInv, Gra!Next PROVE GraphInv'
<1>1. CASE Gra!Throws
  <2>1. /\ worker.at = "loop" /\ graphRow' = Gra!Retried(graphRow) /\ worker' = Gra!Idle /\ graph' = graph
    BY <1>1 DEF Gra!Throws
  <2>2. graphRow.status = "running" BY <2>1 DEF GraphInv, WorksOrWaits
  <2> QED BY <2>1, <2>2, GraphFails
<1>2. CASE Gra!RemoteFails
  <2>1. /\ graphRow.status = "running" /\ graphRow.block # None /\ graphRow' = Gra!Retried(graphRow)
        /\ worker' = worker /\ graph' = graph
    BY <1>2 DEF Gra!RemoteFails
  <2>2. worker.at = "idle" BY <2>1 DEF GraphInv, WorksOrWaits
  <2> QED BY <2>1, <2>2, GraphFails
<1> QED
  BY <1>1, <1>2, GraphStarts, GraphChecks, GraphRunsHere, GraphBlocks, GraphSaves, GraphFinishes, GraphReturns
  DEF Gra!Next

LEMMA GraphStays ==
    ASSUME GraphInv, UNCHANGED graVars PROVE GraphInv'
<1>1. graph' = graph /\ graphRow' = graphRow /\ worker' = worker BY DEF graVars
<1>2. GraphTyped' BY <1>1, GraphKeepsTyped DEF GraphInv, GraphTypes
<1> QED BY <1>1, <1>2 DEF GraphInv, GraphTypes, StepsFollow, CheckedFirst, NothingLeft, WorksOrWaits, BlockedIsFirst

-----------------------------------------------------------------------------
(* What the invariant says of the graph.                                   *)

LEMMA RunsWhatIsAllowed == ASSUME GraphInv PROVE Gra!RunsWhatConditionsAllow
<1> SUFFICES ASSUME graphRow.status = "succeeded"
             PROVE  /\ Gra!ToSet(graphRow.steps) = Gra!ConditionsAllow
                    /\ Len(graphRow.steps) = Gra!Cardinality(Gra!ConditionsAllow)
                    /\ \A i \in DOMAIN graphRow.steps : \A e \in Gra!Into(graphRow.steps[i]) :
                          \E j \in 1 .. i - 1 : graphRow.steps[j] = e.from
  BY DEF Gra!RunsWhatConditionsAllow
<1> DEFINE steps == graphRow.steps
<1>1. GraphTypes /\ StepsFollow /\ CheckedFirst /\ NothingLeft BY DEF GraphInv
<1>2. Connected(graph) /\ Ranked(graph) /\ FirstAfter(graph, steps) = {} BY <1>1 DEF CheckedFirst, NothingLeft
<1>3. steps \in Seq(NodesOf(graph)) /\ Follows(graph, steps) BY <1>1 DEF GraphTypes, StepsFollow
<1>4. /\ Gra!Nodes = NodesOf(graph) /\ \A n : Gra!Into(n) = IntoOf(graph, n)
      /\ \A e : Gra!Met(e) <=> MetIn(graph, e)
      /\ Gra!ToSet(steps) = Executed(steps)
  BY <1>1, <1>3, SameGraph
<1>5. NodesOf(graph) \subseteq Nat BY <1>1, <1>4 DEF GraphTypes, GraphTyped
<1>6. /\ Executed(steps) \in SUBSET NodesOf(graph) /\ Allowed(graph, Executed(steps))
      /\ Len(steps) = Cardinality(Executed(steps))
  <2> HIDE DEF steps
  <2> QED BY <1>2, <1>3, <1>5, FollowedToTheEnd
<1> HIDE DEF steps
<1> DEFINE permits(S) == \A n \in Gra!Nodes : n \in S <=> \A e \in Gra!Into(n) : e.from \in S /\ Gra!Met(e)
<1>7. \A S : permits(S) <=> Allowed(graph, S) BY <1>4 DEF Allowed
<1>8. Gra!ConditionsAllow = CHOOSE S \in SUBSET Gra!Nodes : permits(S) BY DEF Gra!ConditionsAllow
<1>9. Gra!ConditionsAllow \in SUBSET Gra!Nodes /\ permits(Gra!ConditionsAllow)
  <2>1. Executed(steps) \in SUBSET Gra!Nodes /\ permits(Executed(steps)) BY <1>4, <1>6, <1>7
  <2> HIDE DEF permits
  <2> QED BY <1>8, <2>1
<1>10. Gra!ConditionsAllow = Executed(steps)
  <2>1. Gra!ConditionsAllow \in SUBSET NodesOf(graph) /\ Allowed(graph, Gra!ConditionsAllow) BY <1>4, <1>7, <1>9
  <2> QED BY <1>2, <1>6, <2>1, AllowedIsOne
<1>11. \A i \in DOMAIN steps : \A e \in Gra!Into(steps[i]) : \E j \in 1 .. i - 1 : steps[j] = e.from
  <2>1. DOMAIN steps = 1..Len(steps) BY <1>3
  <2> QED BY <1>3, <1>4, <2>1 DEF Follows
<1>12. Len(steps) = Gra!Cardinality(Gra!ConditionsAllow) BY <1>6, <1>10, GraCardinality
<1> QED BY <1>4, <1>10, <1>11, <1>12 DEF steps

LEMMA KeptStepsAreOrdered == ASSUME GraphInv PROVE Gra!StepsAreOrdered
<1> DEFINE ordered(steps) ==
      \A i \in DOMAIN steps : /\ \A e \in Gra!Into(steps[i]) : \E j \in 1 .. i - 1 : steps[j] = e.from
                              /\ \A j \in 1 .. i - 1 : steps[j] # steps[i]
<1>1. ASSUME NEW steps, Follows(graph, steps) PROVE ordered(steps)
  <2>1. DOMAIN steps = 1..Len(steps) BY <1>1 DEF Follows
  <2>2. \A n : Gra!Into(n) = IntoOf(graph, n) BY SameGraph DEF GraphInv
  <2> QED BY <1>1, <2>1, <2>2 DEF Follows
<1>2. ordered(graphRow.steps) /\ ordered(worker.steps) BY <1>1 DEF GraphInv, StepsFollow
<1> QED BY <1>2 DEF Gra!StepsAreOrdered

LEMMA ResultsGoToTheirNode == ASSUME GraphInv PROVE Gra!ResultGoesToItsNode
BY SameGraph DEF GraphInv, BlockedIsFirst, Resumable, Gra!ResultGoesToItsNode

LEMMA AllCyclesAreFound == ASSUME GraphInv PROVE Gra!CyclesAreFound
<1> SUFFICES ASSUME Gra!EdgesConnect, Gra!ConditionEdges, Gra!Nodes # {}
             PROVE  Gra!Code = "GRAPH_CYCLE_DETECTED" <=> \E n \in Gra!Nodes : n \in Gra!CanReach(n)
  BY DEF Gra!CyclesAreFound
<1>1. Gra!Code = "GRAPH_CYCLE_DETECTED" <=> Gra!Visited # Gra!Nodes BY DEF Gra!Code
<1>2. GraphTyped BY DEF GraphInv, GraphTypes
<1> QED BY <1>1, <1>2, CheckFindsCycles

LEMMA GraphInvHolds == WorkSpec => []GraphInv
<1>1. WorkInit => GraphInv
  <2> SUFFICES ASSUME WorkInit PROVE GraphInv OBVIOUS
  <2>1. CASE Gra!Init
    <3>1. PICK g \in Graphs : Gra!InitOf(g) BY <2>1 DEF Gra!Init
    <3>2. IsFiniteSet(DOMAIN g.type) /\ DOMAIN g.type \subseteq Nat \ {None} BY GraphsAssumption
    <3> QED BY <3>1, <3>2, GraphBegins
  <2>2. CASE Gra!InitOf(NoGraph)
    <3>1. DOMAIN NoGraph.type = {} BY DEF NoGraph
    <3>2. IsFiniteSet(DOMAIN NoGraph.type) /\ DOMAIN NoGraph.type \subseteq Nat \ {None} BY <3>1, FS_EmptySet
    <3> QED BY <2>2, <3>2, GraphBegins
  <2> QED BY <2>1, <2>2 DEF WorkInit
<1>2. GraphInv /\ [WorkNext]_allVars => GraphInv'
  <2> SUFFICES ASSUME GraphInv, [WorkNext]_allVars PROVE GraphInv' OBVIOUS
  <2>1. Gra!Next \/ UNCHANGED graVars BY DEF WorkNext, allVars
  <2> QED BY <2>1, GraphGoesOn, GraphStays
<1> QED BY <1>1, <1>2, PTL DEF WorkSpec

\* A run of a graph that succeeds has executed the nodes that its conditions
\* allow, each once and after what it needs, a result goes to the node that was
\* sent for it, and no cycle passes the check, of every graph (the v3 branch of
\* processWorkflowRunJob, validateV3GraphConstraints).
THEOREM GraphIsKept == WorkSpec => []GraphIsFollowed
<1>1. GraphInv => GraphIsFollowed
  BY RunsWhatIsAllowed, KeptStepsAreOrdered, ResultsGoToTheirNode, AllCyclesAreFound DEF GraphIsFollowed
<1> QED BY <1>1, GraphInvHolds, PTL

-----------------------------------------------------------------------------
(* The channel: messages that come in.                                     *)

\* Where a request is, and what it holds.
Pcs == Cha!Done \cup Cha!Working \cup {"key"}
Reasons ==
    {"none"} \cup {Cha!evaluateChannelSecurity(a, entries, m) : a \in Accounts, entries \in SUBSET Entries, m \in Messages}
Webhooks == [pc : Pcs, m : Messages, account : Accounts, reason : Reasons, known : BOOLEAN,
             session : BOOLEAN, left : SUBSET Workflows]

InboundTypes ==
    /\ account \in Accounts /\ allow \in SUBSET Entries
    /\ rows \in [Messages -> {"none", "accepted", "dropped"}]
    /\ events \in [Messages -> Nat] /\ told \in [Messages -> Nat]
    /\ origin \in [Messages -> Edges] /\ runs \in [Messages -> [Workflows -> Nat]]
    /\ req \in [Deliveries -> Webhooks]

\* A message is in the session, or has started a run, only if its row says that
\* it was accepted; the brain is told of what is in the session.
RowDecides(m) ==
    /\ events[m] <= 1 /\ told[m] <= events[m] /\ (events[m] = 1 => rows[m] = "accepted")
    /\ \A w \in Workflows : runs[m][w] <= IF rows[m] = "accepted" THEN 1 ELSE 0

\* What a request that routes a message has done, and has left to do.
Routes(d) == req[d].pc \in {"brain", "workflows"}
InSession(d) == IF req[d].session THEN 1 ELSE 0
StageHolds(d) ==
    /\ Routes(d) \/ req[d].pc = "accepted" => rows[req[d].m] = "accepted"
    /\ req[d].pc = "brain" => req[d].session /\ events[req[d].m] = 1 /\ told[req[d].m] = 0
    /\ req[d].pc \in {"workflows", "accepted"} => /\ events[req[d].m] = InSession(d)
                                                  /\ told[req[d].m] = InSession(d)
    /\ Routes(d) => \A w \in req[d].left : runs[req[d].m][w] = 0

\* One request routes a message.
OneRoutes == \A d, e \in Deliveries : Routes(d) /\ Routes(e) /\ req[d].m = req[e].m => d = e

\* What LossIsReported says of one message.
Known(m) == m \in keys \/ rows[m] # "none"
UnderWay(d) == req[d].pc \in Cha!Working \cup {"failed"}
Reported(m) ==
    \/ rows[m] = "dropped" \/ (rows[m] = "accepted" /\ told[m] = events[m])
    \/ \E d \in Deliveries : req[d].m = m /\ UnderWay(d)

InboundInv ==
    /\ InboundTypes /\ OneRoutes
    /\ \A m \in Messages : RowDecides(m) /\ (Known(m) => Reported(m))
    /\ \A d \in Deliveries : StageHolds(d)

\* A request's fields.
LEMMA RequestFields ==
    ASSUME InboundTypes, NEW d \in Deliveries
    PROVE  /\ req[d] \in Webhooks /\ req[d].m \in Messages
           /\ req[d] = [pc |-> req[d].pc, m |-> req[d].m, account |-> req[d].account,
                        reason |-> req[d].reason, known |-> req[d].known,
                        session |-> req[d].session, left |-> req[d].left]
BY DEF InboundTypes, Webhooks

LEMMA IdleRequest ==
    ASSUME ChannelAssumption, InboundTypes
    PROVE  Cha!Idle \in Webhooks
<1>1. (CHOOSE m \in Messages : TRUE) \in Messages BY DEF ChannelAssumption
<1>2. (CHOOSE a \in Accounts : TRUE) \in Accounts BY DEF InboundTypes
<1> QED BY <1>1, <1>2 DEF Cha!Idle, Webhooks, Pcs, Cha!Done, Reasons

\* One request takes a step, and nothing happens to other messages.
Steps(d, m) ==
    /\ req' \in [Deliveries -> Webhooks] /\ req'[d].m = m
    /\ \A e \in Deliveries \ {d} : req'[e] = req[e]
    /\ \A k \in Messages \ {m} : /\ rows'[k] = rows[k] /\ events'[k] = events[k] /\ told'[k] = told[k]
                                 /\ runs'[k] = runs[k] /\ (k \in keys' => k \in keys)

LEMMA RequestEnds ==
    ASSUME ChannelAssumption, InboundTypes, NEW d \in Deliveries, NEW at \in Cha!Done, Cha!End(d, at)
    PROVE  /\ req' \in [Deliveries -> Webhooks]
           /\ req'[d].pc = at /\ req'[d].m = req[d].m
           /\ \A e \in Deliveries \ {d} : req'[e] = req[e]
<1> DEFINE r == [Cha!Idle EXCEPT !.m = req[d].m, !.pc = at]
<1>1. r \in Webhooks /\ r.pc = at /\ r.m = req[d].m
  BY IdleRequest, RequestFields DEF Webhooks, Pcs
<1>2. req' = [req EXCEPT ![d] = r] BY DEF Cha!End
<1> HIDE DEF r
<1> QED BY <1>1, <1>2 DEF InboundTypes

LEMMA RequestGoes ==
    ASSUME InboundTypes, NEW d \in Deliveries, NEW at \in Pcs, Cha!Go(d, at)
    PROVE  /\ req' \in [Deliveries -> Webhooks]
           /\ req'[d].pc = at /\ req'[d].m = req[d].m
           /\ req'[d].left = req[d].left /\ req'[d].session = req[d].session
           /\ \A e \in Deliveries \ {d} : req'[e] = req[e]
<1> DEFINE r == [req[d] EXCEPT !.pc = at]
<1>1. /\ r \in Webhooks /\ r.pc = at /\ r.m = req[d].m /\ r.left = req[d].left
      /\ r.session = req[d].session
  BY RequestFields DEF Webhooks
<1>2. req' = [req EXCEPT ![d] = r] BY DEF Cha!Go
<1> HIDE DEF r
<1> QED BY <1>1, <1>2 DEF InboundTypes

\* What a step of one request has to show: of its message, of itself, and of the
\* others that route the message or have answered for it.
LEMMA OneSteps ==
    ASSUME InboundInv, InboundTypes', NEW d \in Deliveries, NEW m \in Messages, Steps(d, m),
           RowDecides(m)', StageHolds(d)', Known(m)' => Reported(m)',
           UnderWay(d) => req[d].m = m,
           \A e \in Deliveries \ {d} : req[e].m = m =>
              /\ Routes(e) => /\ ~Routes(d)' /\ rows'[m] = rows[m] /\ events'[m] = events[m]
                              /\ told'[m] = told[m] /\ runs'[m] = runs[m]
              /\ req[e].pc = "accepted" => /\ rows'[m] = rows[m] /\ events'[m] = events[m]
                                           /\ told'[m] = told[m]
    PROVE  InboundInv'
<1> USE DEF InboundInv
<1>1. ASSUME NEW k \in Messages \ {m} PROVE RowDecides(k)' /\ (Known(k)' => Reported(k)')
  <2>1. RowDecides(k)' BY DEF Steps, RowDecides
  <2>2. ASSUME Known(k)' PROVE Reported(k)'
    <3>1. Reported(k) BY <2>2 DEF Steps, Known
    <3>2. CASE \E e \in Deliveries : req[e].m = k /\ UnderWay(e)
      <4>1. PICK e \in Deliveries : req[e].m = k /\ UnderWay(e) BY <3>2
      <4>2. e # d /\ req'[e] = req[e] BY <4>1 DEF Steps
      <4> QED BY <4>1, <4>2 DEF Reported, UnderWay
    <3> QED BY <3>1, <3>2 DEF Steps, Reported
  <2> QED BY <2>1, <2>2
<1>2. ASSUME NEW e \in Deliveries \ {d} PROVE StageHolds(e)'
  <2>1. req'[e] = req[e] /\ req[e].m \in Messages BY RequestFields DEF Steps
  <2>2. StageHolds(e) OBVIOUS
  <2>3. CASE req[e].m # m BY <2>1, <2>2, <2>3 DEF Steps, StageHolds, Routes, InSession
  <2>4. CASE req[e].m = m /\ Routes(e) BY <2>1, <2>2, <2>4 DEF StageHolds, Routes, InSession
  <2>5. CASE req[e].m = m /\ ~Routes(e) BY <2>1, <2>2, <2>5 DEF StageHolds, Routes, InSession
  <2> QED BY <2>3, <2>4, <2>5
<1>3. OneRoutes' BY DEF OneRoutes, Routes, Steps
<1> QED BY <1>1, <1>2, <1>3

\* A request that does not route, before it or after it, disturbs nothing.
LEMMA NothingRouted ==
    ASSUME InboundInv, NEW d \in Deliveries, NEW m \in Messages, Steps(d, m), UnderWay(d) => req[d].m = m,
           req'[d].pc \notin {"brain", "workflows", "accepted"},
           UNCHANGED <<account, allow, events, told, origin, runs>>,
           rows' = rows \/ (rows[m] = "none" /\ rows' = [rows EXCEPT ![m] = "dropped"]),
           \/ keys' = keys /\ rows' = rows /\ ~UnderWay(d)
           \/ req'[d].pc = "duplicate" /\ ~UnderWay(d) /\ m \in keys /\ rows' = rows
           \/ UnderWay(d)' \/ rows' # rows
    PROVE  InboundInv'
<1> USE DEF InboundInv
<1>1. InboundTypes' BY DEF InboundTypes, Steps
<1>2. RowDecides(m)' BY DEF RowDecides, InboundTypes
<1>3. StageHolds(d)' BY DEF StageHolds, Routes
<1>4. Known(m)' => Reported(m)'
  <2>1. CASE UnderWay(d)' BY <2>1 DEF Reported, Steps
  <2>2. CASE rows' # rows BY <2>2 DEF Reported, InboundTypes
  <2>3. CASE rows' = rows /\ ~UnderWay(d) /\ (keys' = keys \/ m \in keys)
    <3>1. SUFFICES ASSUME Known(m)' PROVE Reported(m)' OBVIOUS
    <3>2. Reported(m) BY <2>3, <3>1 DEF Known
    <3>3. CASE \E e \in Deliveries : req[e].m = m /\ UnderWay(e)
      <4>1. PICK e \in Deliveries : req[e].m = m /\ UnderWay(e) BY <3>3
      <4>2. e # d /\ req'[e] = req[e] BY <2>3, <4>1 DEF Steps
      <4> QED BY <4>1, <4>2 DEF Reported, UnderWay
    <3> QED BY <2>3, <3>2, <3>3 DEF Reported
  <2> QED BY <2>1, <2>2, <2>3
<1>5. ASSUME NEW e \in Deliveries \ {d}, req[e].m = m, Routes(e) \/ req[e].pc = "accepted"
      PROVE  ~Routes(d)' /\ rows'[m] = rows[m]
  BY <1>5 DEF StageHolds, Routes
<1> QED BY <1>1, <1>2, <1>3, <1>4, <1>5, OneSteps

\* What asks, is refused, is judged, is dropped or fails before the brain is told.
LEMMA RequestsBefore ==
    ASSUME ChannelAssumption, InboundInv, NEW d \in Deliveries,
           \/ \E m \in Messages : Cha!handleWebhook(d, m)
           \/ Cha!webhookRejected(d) \/ Cha!acquireKey(d) \/ Cha!readAllowlist(d)
           \/ Cha!dropMessage(d) \/ (Cha!requestFails(d) /\ told' = told)
    PROVE  InboundInv'
<1> USE DEF InboundInv
<1>0. InboundTypes OBVIOUS
<1>1. CASE \E m \in Messages : Cha!handleWebhook(d, m)
  <2>1. PICK m \in Messages : Cha!handleWebhook(d, m) BY <1>1
  <2> DEFINE r == [Cha!Idle EXCEPT !.m = m, !.account = account, !.pc = IF account.enabled THEN "key" ELSE "refused"]
  <2>2. req' = [req EXCEPT ![d] = r] BY <2>1 DEF Cha!handleWebhook
  <2>3. r \in Webhooks /\ r.pc \in {"key", "refused"} /\ r.m = m
    BY <1>0, IdleRequest DEF Webhooks, Pcs, Cha!Done, InboundTypes
  <2> HIDE DEF r
  <2>4. UNCHANGED <<account, allow, keys, rows, events, told, origin, runs>> /\ ~UnderWay(d)
    BY <2>1 DEF Cha!handleWebhook, Cha!inbound, Cha!admin, UnderWay, Cha!Working
  <2>5. Steps(d, m) BY <2>2, <2>3, <2>4 DEF InboundTypes, Steps
  <2>6. req'[d].pc \notin {"brain", "workflows", "accepted"} BY <2>2, <2>3 DEF InboundTypes
  <2> QED BY <2>4, <2>5, <2>6, NothingRouted
<1> DEFINE m == req[d].m
<1> SUFFICES ASSUME ~\E k \in Messages : Cha!handleWebhook(d, k) PROVE InboundInv' BY <1>1
<1>m. m \in Messages /\ req[d] \in Webhooks BY RequestFields
<1>2. CASE Cha!webhookRejected(d)
  <2>1. Cha!End(d, "refused") /\ UNCHANGED <<account, allow, keys, rows, events, told, origin, runs>> /\ ~UnderWay(d)
    BY <1>2 DEF Cha!webhookRejected, Cha!inbound, Cha!admin, UnderWay, Cha!Working
  <2>2. "refused" \in Cha!Done BY DEF Cha!Done
  <2>3. Steps(d, m) /\ req'[d].pc = "refused" BY <1>0, <2>1, <2>2, RequestEnds DEF Steps
  <2> QED BY <1>m, <2>1, <2>3, NothingRouted
<1>3. CASE Cha!acquireKey(d)
  <2>1. /\ \/ m \in keys /\ Cha!End(d, "duplicate")
           \/ m \notin keys /\ Cha!Go(d, "evaluate")
        /\ keys' = keys \cup {m} /\ ~UnderWay(d) /\ UNCHANGED <<account, allow, rows, events, told, origin, runs>>
    BY <1>3 DEF Cha!acquireKey, Cha!admin, UnderWay, Cha!Working
  <2>2. "duplicate" \in Cha!Done /\ "evaluate" \in Pcs BY DEF Cha!Done, Pcs, Cha!Working
  <2>3. CASE m \in keys /\ Cha!End(d, "duplicate")
    <3>1. Steps(d, m) /\ req'[d].pc = "duplicate" BY <1>0, <2>1, <2>2, <2>3, RequestEnds DEF Steps
    <3> QED BY <1>m, <2>1, <2>3, <3>1, NothingRouted
  <2>4. CASE Cha!Go(d, "evaluate")
    <3>1. Steps(d, m) /\ req'[d].pc = "evaluate" BY <1>0, <2>1, <2>2, <2>4, RequestGoes DEF Steps
    <3>2. UnderWay(d)' BY <3>1 DEF UnderWay, Cha!Working
    <3> QED BY <1>m, <2>1, <3>1, <3>2, NothingRouted
  <2> QED BY <2>1, <2>3, <2>4
<1>4. CASE Cha!readAllowlist(d)
  <2> DEFINE why == Cha!evaluateChannelSecurity(req[d].account, allow, m)
             known == convs[Env[m].conv] # "none"
             r == [req[d] EXCEPT !.pc = "commit", !.reason = why, !.known = known]
  <2>1. req' = [req EXCEPT ![d] = r] /\ UNCHANGED <<account, allow, keys, rows, events, told, origin, runs>>
    BY <1>4 DEF Cha!readAllowlist, Cha!inbound, Cha!admin
  <2>2. why \in Reasons /\ known \in BOOLEAN BY <1>0, <1>m DEF Reasons, Webhooks, InboundTypes
  <2>3. r \in Webhooks /\ r.pc = "commit" /\ r.m = m
    <3> HIDE DEF why, known
    <3> QED BY <1>m, <2>2 DEF Webhooks, Pcs, Cha!Working
  <2> HIDE DEF r
  <2>4. Steps(d, m) /\ req'[d].pc = "commit" BY <2>1, <2>3 DEF InboundTypes, Steps
  <2>5. UnderWay(d)' BY <2>4 DEF UnderWay, Cha!Working
  <2> QED BY <1>m, <2>1, <2>4, <2>5, NothingRouted
<1>5. CASE Cha!dropMessage(d)
  <2>1. /\ \/ Cha!End(d, "dropped") /\ rows[m] = "none" /\ rows' = [rows EXCEPT ![m] = "dropped"]
           \/ Cha!End(d, "failed") /\ rows' = rows
        /\ UNCHANGED <<account, allow, keys, events, told, origin, runs>>
    BY <1>5 DEF Cha!dropMessage, Cha!createChannelMessage
  <2>2. "dropped" \in Cha!Done /\ "failed" \in Cha!Done BY DEF Cha!Done
  <2>3. CASE Cha!End(d, "dropped") /\ rows[m] = "none" /\ rows' = [rows EXCEPT ![m] = "dropped"]
    <3>1. Steps(d, m) /\ req'[d].pc = "dropped" BY <1>0, <1>m, <2>1, <2>2, <2>3, RequestEnds DEF Steps, InboundTypes
    <3>2. rows' # rows BY <1>m, <2>3 DEF InboundTypes
    <3> QED BY <1>m, <2>1, <2>3, <3>1, <3>2, NothingRouted
  <2>4. CASE Cha!End(d, "failed") /\ rows' = rows
    <3>1. Steps(d, m) /\ req'[d].pc = "failed" BY <1>0, <2>1, <2>2, <2>4, RequestEnds DEF Steps
    <3>2. UnderWay(d)' BY <3>1 DEF UnderWay
    <3> QED BY <1>m, <2>1, <2>4, <3>1, <3>2, NothingRouted
  <2> QED BY <2>1, <2>3, <2>4
<1>6. CASE Cha!requestFails(d) /\ told' = told
  <2>1. CASE origin' = origin
    <3>1. Cha!End(d, "failed") /\ UNCHANGED <<account, allow, keys, rows, events, told, origin, runs>>
      BY <1>6, <2>1 DEF Cha!requestFails, Cha!admin
    <3>2. "failed" \in Cha!Done BY DEF Cha!Done
    <3>3. Steps(d, m) /\ req'[d].pc = "failed" BY <1>0, <3>1, <3>2, RequestEnds DEF Steps
    <3>4. UnderWay(d)' BY <3>3 DEF UnderWay
    <3> QED BY <1>m, <3>1, <3>3, <3>4, NothingRouted
  <2>2. CASE origin' # origin
    <3>1. told' = [told EXCEPT ![m] = @ + 1] BY <1>6, <2>2 DEF Cha!requestFails, Cha!tellBrain
    <3>2. told'[m] = told[m] + 1 /\ told[m] \in Nat BY <1>m, <3>1 DEF InboundTypes
    <3> QED BY <1>6, <3>2
  <2> QED BY <2>1, <2>2
<1> QED BY <1>2, <1>3, <1>4, <1>5, <1>6

\* The message's row is the only one: whose insert succeeds routes it.
LEMMA RequestRoutes ==
    ASSUME ChannelAssumption, InboundInv, NEW d \in Deliveries, Cha!routeMessage(d)
    PROVE  InboundInv'
<1> USE DEF InboundInv
<1>m. PICK m \in Messages : m = req[d].m BY RequestFields
<1>0. InboundTypes /\ req[d] \in Webhooks BY RequestFields
<1>1. UNCHANGED <<account, allow, keys, told, origin, runs>> /\ UnderWay(d) /\ ~Routes(d)
  BY DEF Cha!routeMessage, Cha!admin, UnderWay, Cha!Working, Routes
<1>2. CASE UNCHANGED <<rows, events>> /\ Cha!End(d, "failed")
  <2>1. "failed" \in Cha!Done BY DEF Cha!Done
  <2>2. Steps(d, m) /\ req'[d].pc = "failed" BY <1>m, <1>0, <1>1, <1>2, <2>1, RequestEnds DEF Steps
  <2>3. UnderWay(d)' BY <2>2 DEF UnderWay
  <2> QED BY <1>m, <1>1, <1>2, <2>2, <2>3, NothingRouted
<1>3. CASE ~(UNCHANGED <<rows, events>> /\ Cha!End(d, "failed"))
  <2> DEFINE s == Cha!findsSession(d)
             due == Cha!collectChannelTriggeredWorkflows(m)
             r == [req[d] EXCEPT !.pc = IF s THEN "brain" ELSE "workflows", !.session = s, !.left = due]
  <2>1. /\ rows[m] = "none" /\ rows' = [rows EXCEPT ![m] = "accepted"]
        /\ events' = [events EXCEPT ![m] = IF s THEN @ + 1 ELSE @]
        /\ req' = [req EXCEPT ![d] = r]
    BY <1>m, <1>3 DEF Cha!routeMessage, Cha!createChannelMessage
  <2>2. due \in SUBSET Workflows /\ s \in BOOLEAN BY DEF Cha!collectChannelTriggeredWorkflows, Cha!findsSession
  <2> HIDE DEF due, s
  <2>3. /\ r \in Webhooks /\ r.pc = (IF s THEN "brain" ELSE "workflows") /\ r.m = m /\ r.session = s /\ r.left = due
    BY <1>m, <1>0, <2>2 DEF Webhooks, Pcs, Cha!Working
  <2> HIDE DEF r
  <2>4. /\ req' \in [Deliveries -> Webhooks] /\ req'[d] = r /\ \A e \in Deliveries \ {d} : req'[e] = req[e]
    BY <1>0, <2>1, <2>3 DEF InboundTypes
  <2>5. events[m] = 0 /\ told[m] = 0 /\ \A w \in Workflows : runs[m][w] = 0
    <3>1. events[m] \in Nat /\ told[m] \in Nat /\ runs[m] \in [Workflows -> Nat] /\ RowDecides(m)
      BY <1>0 DEF InboundTypes
    <3>2. events[m] = 0 /\ told[m] = 0 BY <2>1, <3>1 DEF RowDecides
    <3>3. ASSUME NEW w \in Workflows PROVE runs[m][w] = 0
      <4>1. runs[m][w] \in Nat /\ runs[m][w] <= 0 BY <2>1, <3>1 DEF RowDecides
      <4> QED BY <4>1
    <3> QED BY <3>2, <3>3
  <2>6. /\ rows' \in [Messages -> {"none", "accepted", "dropped"}] /\ rows'[m] = "accepted"
        /\ events' \in [Messages -> Nat] /\ events'[m] = IF s THEN 1 ELSE 0
        /\ \A k \in Messages \ {m} : rows'[k] = rows[k] /\ events'[k] = events[k]
    BY <1>0, <2>1, <2>2, <2>5 DEF InboundTypes
  <2>7. InboundTypes' BY <1>0, <1>1, <2>4, <2>6 DEF InboundTypes
  <2>8. Steps(d, m) BY <1>1, <2>3, <2>4, <2>6 DEF Steps
  <2>9. RowDecides(m)'
    <3>1. \A w \in Workflows : runs'[m][w] <= 1 BY <1>1, <2>5
    <3> QED BY <1>1, <2>5, <2>6, <3>1 DEF RowDecides
  <2>10. StageHolds(d)' BY <1>1, <2>2, <2>3, <2>4, <2>5, <2>6 DEF StageHolds, Routes, InSession
  <2>11. Reported(m)'
    <3>1. UnderWay(d)' /\ req'[d].m = m BY <2>2, <2>3, <2>4 DEF UnderWay, Cha!Working
    <3> QED BY <3>1 DEF Reported
  <2>12. ASSUME NEW e \in Deliveries, req[e].m = m PROVE ~Routes(e) /\ req[e].pc # "accepted"
    BY <2>1, <2>12 DEF StageHolds
  <2> QED BY <1>m, <2>7, <2>8, <2>9, <2>10, <2>11, <2>12, OneSteps
<1> QED BY <1>2, <1>3

\* The brain is told once: by the request that routed the message, which fails
\* or goes on.
LEMMA RequestTells ==
    ASSUME ChannelAssumption, InboundInv, NEW d \in Deliveries,
           Cha!sendToBrain(d) \/ (Cha!requestFails(d) /\ told' # told)
    PROVE  InboundInv'
<1> USE DEF InboundInv
<1>m. PICK m \in Messages : m = req[d].m BY RequestFields
<1>0. InboundTypes /\ req[d] \in Webhooks BY RequestFields
<1>1. /\ UNCHANGED <<account, allow, keys, rows, events, runs>> /\ req[d].pc = "brain"
      /\ told' = [told EXCEPT ![m] = @ + 1] /\ origin' = [origin EXCEPT ![m] = EdgeOf[d]]
      /\ Cha!Go(d, "workflows") \/ Cha!End(d, "failed")
  BY <1>m DEF Cha!sendToBrain, Cha!requestFails, Cha!tellBrain, Cha!admin
<1>2. "workflows" \in Pcs /\ "failed" \in Cha!Done BY DEF Pcs, Cha!Working, Cha!Done
<1>3. /\ req' \in [Deliveries -> Webhooks] /\ req'[d].m = m /\ \A e \in Deliveries \ {d} : req'[e] = req[e]
      /\ \/ req'[d].pc = "failed"
         \/ req'[d].pc = "workflows" /\ req'[d].left = req[d].left /\ req'[d].session = req[d].session
  <2>1. CASE Cha!Go(d, "workflows") BY <1>m, <1>0, <1>2, <2>1, RequestGoes
  <2>2. CASE Cha!End(d, "failed") BY <1>m, <1>0, <1>2, <2>2, RequestEnds
  <2> QED BY <1>1, <2>1, <2>2
<1>4. /\ rows[m] = "accepted" /\ events[m] = 1 /\ told[m] = 0 /\ req[d].session
      /\ \A w \in req[d].left : runs[m][w] = 0
  BY <1>m, <1>1 DEF StageHolds, Routes
<1>5. told' \in [Messages -> Nat] /\ told'[m] = 1 /\ \A k \in Messages \ {m} : told'[k] = told[k]
  BY <1>0, <1>1, <1>4 DEF InboundTypes
<1>6. origin' \in [Messages -> Edges]
  <2>1. EdgeOf[d] \in Edges BY DEF ChannelAssumption
  <2> QED BY <1>0, <1>1, <2>1 DEF InboundTypes
<1>7. InboundTypes' BY <1>0, <1>1, <1>3, <1>5, <1>6 DEF InboundTypes
<1>8. Steps(d, m) BY <1>1, <1>3, <1>5 DEF Steps
<1>9. RowDecides(m)' BY <1>1, <1>4, <1>5 DEF RowDecides
<1>10. StageHolds(d)' BY <1>1, <1>3, <1>4, <1>5 DEF StageHolds, Routes, InSession
<1>11. Reported(m)' BY <1>1, <1>4, <1>5 DEF Reported
<1>12. ASSUME NEW e \in Deliveries \ {d}, req[e].m = m PROVE ~Routes(e) /\ req[e].pc # "accepted"
  <2>1. ~Routes(e) BY <1>m, <1>1, <1>12 DEF OneRoutes, Routes
  <2>2. req[e].pc # "accepted" BY <1>4, <1>12 DEF StageHolds, InSession
  <2> QED BY <2>1, <2>2
<1> QED BY <1>m, <1>7, <1>8, <1>9, <1>10, <1>11, <1>12, OneSteps

\* A workflow that is started, or whose start fails, is done with.
LEMMA RequestStarts ==
    ASSUME InboundInv, NEW d \in Deliveries, NEW w \in Workflows,
           Cha!postInternalTrigger(d, w) \/ Cha!triggerRunFails(d, w)
    PROVE  InboundInv'
<1> USE DEF InboundInv
<1>m. PICK m \in Messages : m = req[d].m BY RequestFields
<1> DEFINE r == [req[d] EXCEPT !.left = @ \ {w}]
<1>0. InboundTypes /\ req[d] \in Webhooks BY RequestFields
<1>1. /\ UNCHANGED <<account, allow, keys, rows, events, told, origin>>
      /\ req[d].pc = "workflows" /\ w \in req[d].left /\ req' = [req EXCEPT ![d] = r]
      /\ runs' = runs \/ runs' = [runs EXCEPT ![m][w] = @ + 1]
  BY <1>m DEF Cha!postInternalTrigger, Cha!triggerRunFails, Cha!admin, Cha!inbound, Cha!started
<1>2. /\ r \in Webhooks /\ r.pc = "workflows" /\ r.m = m /\ r.left = req[d].left \ {w}
      /\ r.session = req[d].session
  BY <1>m, <1>0, <1>1 DEF Webhooks
<1> HIDE DEF r
<1>3. req' \in [Deliveries -> Webhooks] /\ req'[d] = r /\ \A e \in Deliveries \ {d} : req'[e] = req[e]
  BY <1>1, <1>2 DEF InboundTypes
<1>4. /\ rows[m] = "accepted" /\ events[m] = InSession(d) /\ told[m] = InSession(d)
      /\ \A v \in req[d].left : runs[m][v] = 0
  BY <1>m, <1>1 DEF StageHolds, Routes
<1>5. /\ runs' \in [Messages -> [Workflows -> Nat]] /\ runs'[m][w] <= 1
      /\ \A v \in Workflows \ {w} : runs'[m][v] = runs[m][v]
      /\ \A k \in Messages \ {m} : runs'[k] = runs[k]
  <2>0. runs \in [Messages -> [Workflows -> Nat]] BY <1>0 DEF InboundTypes
  <2>1. CASE runs' = runs BY <1>1, <1>4, <2>0, <2>1
  <2>2. CASE runs' = [runs EXCEPT ![m][w] = @ + 1]
    <3> DEFINE f == [runs[m] EXCEPT ![w] = @ + 1]
    <3>1. f \in [Workflows -> Nat] /\ f[w] = 1 /\ \A v \in Workflows \ {w} : f[v] = runs[m][v]
      BY <1>1, <1>4, <2>0
    <3>2. runs' = [runs EXCEPT ![m] = f] BY <2>2
    <3> HIDE DEF f
    <3> QED BY <2>0, <3>1, <3>2
  <2> QED BY <1>1, <2>1, <2>2
<1>6. InboundTypes' BY <1>0, <1>1, <1>3, <1>5 DEF InboundTypes
<1>7. Steps(d, m) BY <1>1, <1>2, <1>3, <1>5 DEF Steps
<1>8. RowDecides(m)'
  <2>1. RowDecides(m) OBVIOUS
  <2>2. \A v \in Workflows : runs'[m][v] <= 1 BY <1>4, <1>5, <2>1 DEF RowDecides
  <2> QED BY <1>1, <1>4, <2>1, <2>2 DEF RowDecides
<1>9. StageHolds(d)'
  <2>1. \A v \in r.left : runs'[m][v] = 0
    <3>1. req[d].left \in SUBSET Workflows BY <1>0 DEF Webhooks
    <3> QED BY <1>2, <1>4, <1>5, <3>1
  <2> QED BY <1>1, <1>2, <1>3, <1>4, <2>1 DEF StageHolds, Routes, InSession
<1>10. Reported(m)' BY <1>1, <1>4 DEF Reported
<1>11. \A e \in Deliveries \ {d} : req[e].m = m => ~Routes(e) BY <1>m, <1>1 DEF OneRoutes, Routes
<1> QED BY <1>m, <1>1, <1>6, <1>7, <1>8, <1>9, <1>10, <1>11, OneSteps

\* "Accepted" is answered when everything is done.
LEMMA RequestAnswers ==
    ASSUME ChannelAssumption, InboundInv, NEW d \in Deliveries, Cha!answerWebhook(d)
    PROVE  InboundInv'
<1> USE DEF InboundInv
<1>m. PICK m \in Messages : m = req[d].m BY RequestFields
<1> DEFINE r == [Cha!Idle EXCEPT !.m = m, !.session = req[d].session, !.pc = "accepted"]
<1>0. InboundTypes /\ req[d] \in Webhooks BY RequestFields
<1>1. /\ UNCHANGED <<account, allow, keys, rows, events, told, origin, runs>> /\ req[d].pc = "workflows"
      /\ req' = [req EXCEPT ![d] = r]
  BY <1>m DEF Cha!answerWebhook, Cha!admin, Cha!inbound
<1>2. r \in Webhooks /\ r.pc = "accepted" /\ r.m = m /\ r.session = req[d].session
  BY <1>m, <1>0, IdleRequest DEF Webhooks, Pcs, Cha!Done
<1> HIDE DEF r
<1>3. req' \in [Deliveries -> Webhooks] /\ req'[d] = r /\ \A e \in Deliveries \ {d} : req'[e] = req[e]
  BY <1>1, <1>2 DEF InboundTypes
<1>4. rows[m] = "accepted" /\ events[m] = InSession(d) /\ told[m] = InSession(d)
  BY <1>m, <1>1 DEF StageHolds, Routes
<1>5. InboundTypes' BY <1>0, <1>1, <1>3 DEF InboundTypes
<1>6. Steps(d, m) BY <1>1, <1>2, <1>3 DEF Steps
<1>7. RowDecides(m)' BY <1>1 DEF RowDecides
<1>8. StageHolds(d)' BY <1>1, <1>2, <1>3, <1>4 DEF StageHolds, Routes, InSession
<1>9. Reported(m)' BY <1>1, <1>4 DEF Reported
<1>10. \A e \in Deliveries \ {d} : req[e].m = m => ~Routes(e) BY <1>m, <1>1 DEF OneRoutes, Routes
<1> QED BY <1>m, <1>1, <1>5, <1>6, <1>7, <1>8, <1>9, <1>10, OneSteps

\* Requests that fail with their edge disturb nothing, nor does a key's loss.
LEMMA RequestsLost ==
    ASSUME InboundInv, account' \in Accounts, allow' \in SUBSET Entries,
           UNCHANGED <<rows, events, told, origin, runs>>, keys' \subseteq keys,
           req' \in [Deliveries -> Webhooks],
           \A d \in Deliveries : req'[d] = req[d] \/ (req'[d].pc = "failed" /\ req'[d].m = req[d].m)
    PROVE  InboundInv'
<1> USE DEF InboundInv
<1>1. InboundTypes' BY DEF InboundTypes
<1>2. \A d \in Deliveries : Routes(d)' => req'[d] = req[d] BY DEF Routes
<1>3. OneRoutes' BY <1>2 DEF OneRoutes, Routes
<1>4. ASSUME NEW d \in Deliveries PROVE StageHolds(d)'
  <2>1. CASE req'[d] = req[d] BY <2>1 DEF StageHolds, Routes, InSession
  <2>2. CASE req'[d].pc = "failed" BY <2>2 DEF StageHolds, Routes
  <2> QED BY <2>1, <2>2
<1>5. ASSUME NEW m \in Messages PROVE RowDecides(m)' /\ (Known(m)' => Reported(m)')
  <2>1. RowDecides(m)' BY DEF RowDecides
  <2>2. ASSUME Known(m)' PROVE Reported(m)'
    <3>1. Reported(m) BY <2>2 DEF Known
    <3>2. \A d \in Deliveries : req[d].m = m /\ UnderWay(d) => req'[d].m = m /\ UnderWay(d)' BY DEF UnderWay
    <3> QED BY <3>1, <3>2 DEF Reported
  <2> QED BY <2>1, <2>2
<1> QED BY <1>1, <1>3, <1>4, <1>5

LEMMA RequestsStep ==
    ASSUME ChannelAssumption, InboundInv, Cha!Next
    PROVE  InboundInv'
<1>0. InboundTypes /\ InboundInv BY DEF InboundInv
<1>1. CASE \E d \in Deliveries, m \in Messages : Cha!handleWebhook(d, m) BY <1>1, RequestsBefore
<1>2. CASE \E d \in Deliveries : \/ Cha!webhookRejected(d) \/ Cha!acquireKey(d) \/ Cha!readAllowlist(d)
                                 \/ Cha!dropMessage(d)
  BY <1>2, RequestsBefore
<1>3. CASE \E d \in Deliveries : Cha!routeMessage(d) BY <1>3, RequestRoutes
<1>4. CASE \E d \in Deliveries : Cha!sendToBrain(d) \/ Cha!requestFails(d) BY <1>4, RequestTells, RequestsBefore
<1>5. CASE \E d \in Deliveries, w \in Workflows : Cha!postInternalTrigger(d, w) \/ Cha!triggerRunFails(d, w)
  BY <1>5, RequestStarts
<1>6. CASE \E d \in Deliveries : Cha!answerWebhook(d) BY <1>6, RequestAnswers
<1>7. CASE /\ UNCHANGED <<rows, events, told, origin, runs, req>> /\ keys' \subseteq keys
           /\ account' \in Accounts /\ allow' \in SUBSET Entries
  BY <1>0, <1>7, RequestsLost DEF InboundTypes
<1>8. CASE \E m \in Messages : Cha!KeyLost(m)
  BY <1>0, <1>7, <1>8 DEF Cha!KeyLost, Cha!admin, InboundTypes
<1>9. CASE \/ \E a \in Accounts : Cha!updateChannelAccount(a)
           \/ \E e \in Entries : Cha!putChannelAllowlistEntry(e) \/ Cha!deleteChannelAllowlistEntry(e)
           \/ \E p \in pairing, s \in {"approved", "rejected"} : Cha!updateChannelPairingRequestStatus(p, s)
  BY <1>0, <1>7, <1>9 DEF Cha!updateChannelAccount, Cha!putChannelAllowlistEntry, Cha!deleteChannelAllowlistEntry,
     Cha!updateChannelPairingRequestStatus, Cha!inbound, InboundTypes
<1>10. CASE \/ \E m \in Messages : Cha!channelOutbound(m)
            \/ \E e \in Edges : \/ Cha!xreadGroup(e) \/ Cha!sendSessionReply(e) \/ Cha!postOutboundWebhook(e)
                                 \/ Cha!postFails(e) \/ Cha!recordReply(e)
  BY <1>0, <1>7, <1>10 DEF Cha!channelOutbound, Cha!xreadGroup, Cha!sendSessionReply, Cha!postOutboundWebhook,
     Cha!postFails, Cha!recordReply, Cha!inbound, Cha!admin, InboundTypes
<1>11. CASE \E e \in Edges : Cha!EdgeDies(e)
  <2>0. PICK e \in Edges : Cha!EdgeDies(e) BY <1>11
  <2>1. UNCHANGED <<account, allow, keys, rows, events, told, origin, runs>>
    BY <2>0 DEF Cha!EdgeDies, Cha!inbound, Cha!admin
  <2>2. \A d \in Deliveries : /\ [req[d] EXCEPT !.pc = "failed"] \in Webhooks
                              /\ [req[d] EXCEPT !.pc = "failed"].pc = "failed"
                              /\ [req[d] EXCEPT !.pc = "failed"].m = req[d].m
    BY <1>0, RequestFields DEF Webhooks, Pcs, Cha!Done
  <2>3. req' = [d \in Deliveries |-> IF req[d].pc \in Cha!Done \/ EdgeOf[d] # e THEN req[d]
                                     ELSE [req[d] EXCEPT !.pc = "failed"]]
    BY <2>0 DEF Cha!EdgeDies
  <2>4. req' \in [Deliveries -> Webhooks] BY <1>0, <2>2, <2>3 DEF InboundTypes
  <2>5. \A d \in Deliveries : req'[d] = req[d] \/ (req'[d].pc = "failed" /\ req'[d].m = req[d].m)
    BY <2>2, <2>3
  <2> QED BY <1>0, <2>1, <2>4, <2>5, RequestsLost DEF InboundTypes
<1> QED BY <1>1, <1>2, <1>3, <1>4, <1>5, <1>6, <1>8, <1>9, <1>10, <1>11 DEF Cha!Next

LEMMA RequestsStart ==
    ASSUME ChannelAssumption, Cha!Init
    PROVE  InboundInv
<1>1. (CHOOSE m \in Messages : TRUE) \in Messages /\ (CHOOSE e \in Edges : TRUE) \in Edges BY DEF ChannelAssumption
<1>2. account \in Accounts BY DEF Cha!Init
<1>3. (CHOOSE a \in Accounts : TRUE) \in Accounts BY <1>2
<1>4. Cha!Idle \in Webhooks /\ Cha!Idle.pc = "idle"
  BY <1>1, <1>3 DEF Cha!Idle, Webhooks, Pcs, Cha!Done, Reasons
<1>5. \A d \in Deliveries : req[d] = Cha!Idle BY DEF Cha!Init
<1>6. InboundTypes BY <1>1, <1>2, <1>4 DEF Cha!Init, InboundTypes
<1>7. \A m \in Messages : RowDecides(m) /\ ~Known(m) BY DEF RowDecides, Known, Cha!Init
<1>8. OneRoutes /\ \A d \in Deliveries : StageHolds(d) BY <1>4, <1>5 DEF StageHolds, OneRoutes, Routes
<1> QED BY <1>6, <1>7, <1>8 DEF InboundInv

LEMMA RequestsHold ==
    ASSUME InboundInv
    PROVE  Cha!RoutedOnce /\ Cha!AcceptedToldBrain /\ Cha!LossIsReported
<1> USE DEF InboundInv
<1>1. ASSUME NEW m \in Messages PROVE events[m] <= 1 /\ told[m] <= 1 /\ \A w \in Workflows : runs[m][w] <= 1
  <2>1. events[m] \in Nat /\ told[m] \in Nat /\ runs[m] \in [Workflows -> Nat] /\ RowDecides(m) BY DEF InboundTypes
  <2>2. ASSUME NEW w \in Workflows PROVE runs[m][w] <= 1
    <3>1. runs[m][w] \in Nat BY <2>1
    <3> QED BY <2>1, <3>1 DEF RowDecides
  <2> QED BY <2>1, <2>2 DEF RowDecides
<1>2. Cha!AcceptedToldBrain BY DEF Cha!AcceptedToldBrain, StageHolds, InSession
<1>3. Cha!LossIsReported BY DEF Cha!LossIsReported, Known, Reported, UnderWay
<1> QED BY <1>1, <1>2, <1>3 DEF Cha!RoutedOnce

-----------------------------------------------------------------------------
(* The channel: replies that go out.                                       *)

Statuses == {"none", "accepted", "failed", "dead_letter"}
Hands == [pc : {"idle", "post", "record"}, n : Nat, attempt : Nat, status : Statuses]
Answers == [m : Messages, edge : Edges, row : Statuses, tried : Nat]
OutboundTypes ==
    /\ replies \in Seq(Answers) /\ edge \in [Edges -> Hands]
    /\ stream \in [Edges -> Seq(Nat)] /\ batch \in [Edges -> Seq(Nat)] /\ posted \in [Edges -> Seq(Nat)]

\* Of the replies given, those that go out through an edge.
Owns(given, e, n) == n \in 1..Len(given) /\ given[n].edge = e

\* They wait in their order: those the edge has read before the others.
Ascends(s) == \A i, j \in 1..Len(s) : i < j => s[i] < s[j]
WaitInOrder(e) ==
    /\ Ascends(batch[e]) /\ Ascends(stream[e])
    /\ \A i \in 1..Len(batch[e]), j \in 1..Len(stream[e]) : batch[e][i] < stream[e][j]
    /\ \A i \in 1..Len(batch[e]) : Owns(replies, e, batch[e][i])
    /\ \A i \in 1..Len(stream[e]) : Owns(replies, e, stream[e][i])

\* A reply that something was done for comes before all that wait.
InHand(e, n) == edge[e].pc # "idle" /\ edge[e].n = n
Got(e, n) == \E i \in 1..Len(posted[e]) : posted[e][i] = n
Taken(e, n) == replies[n].tried # 0 \/ replies[n].row # "none" \/ InHand(e, n) \/ Got(e, n)
TakenComeFirst(e) ==
    /\ \A n \in 1..Len(replies) : Owns(replies, e, n) /\ Taken(e, n) =>
          /\ \A i \in 1..Len(batch[e]) : n < batch[e][i]
          /\ \A i \in 1..Len(stream[e]) : n < stream[e][i]
    /\ \A i \in 1..Len(posted[e]) : Owns(replies, e, posted[e][i])

\* What is known of the reply in hand.
HandHolds(e) ==
    edge[e].pc # "idle" => LET n == edge[e].n IN
        /\ Owns(replies, e, n) /\ replies[n].row = "none"
        /\ \A i \in 1..Len(posted[e]) : posted[e][i] <= n
        /\ edge[e].pc = "post" => edge[e].attempt \in 1..MaxPosts /\ replies[n].tried = edge[e].attempt - 1
        /\ edge[e].pc = "record" => /\ edge[e].status = "accepted" => Got(e, n)
                                    /\ edge[e].status = "dead_letter" => replies[n].tried = MaxPosts

\* What RepliesInOrder and OutboundTruthful say of one edge.
InOrder(e) == \A i, j \in 1..Len(posted[e]) : i < j => posted[e][i] <= posted[e][j]
Truthful(e) ==
    \A n \in 1..Len(replies) : Owns(replies, e, n) =>
        /\ replies[n].row = "accepted" => Got(e, n)
        /\ replies[n].row = "dead_letter" => replies[n].tried = MaxPosts

LineHolds(e) == WaitInOrder(e) /\ TakenComeFirst(e) /\ HandHolds(e) /\ InOrder(e) /\ Truthful(e)
OutboundInv == OutboundTypes /\ \A e \in Edges : LineHolds(e)

LEMMA EdgeFields ==
    ASSUME OutboundTypes, NEW e \in Edges
    PROVE  /\ Len(replies) \in Nat
           /\ stream[e] \in Seq(Nat) /\ batch[e] \in Seq(Nat) /\ posted[e] \in Seq(Nat)
           /\ Len(stream[e]) \in Nat /\ Len(batch[e]) \in Nat /\ Len(posted[e]) \in Nat
           /\ \A i \in 1..Len(stream[e]) : stream[e][i] \in Nat
           /\ \A i \in 1..Len(batch[e]) : batch[e][i] \in Nat
           /\ \A i \in 1..Len(posted[e]) : posted[e][i] \in Nat
           /\ edge[e] \in Hands
           /\ \A n \in 1..Len(replies) : n \in Nat /\ replies[n] \in Answers
<1>1. stream[e] \in Seq(Nat) /\ batch[e] \in Seq(Nat) /\ posted[e] \in Seq(Nat) /\ edge[e] \in Hands
  BY DEF OutboundTypes
<1>2. replies \in Seq(Answers) BY DEF OutboundTypes
<1>3. /\ Len(replies) \in Nat
      /\ \A n \in 1..Len(replies) : n \in Nat /\ replies[n] \in Answers
  BY <1>2
<1>4. \A s \in Seq(Nat) : Len(s) \in Nat /\ \A i \in 1..Len(s) : s[i] \in Nat OBVIOUS
<1> QED BY <1>1, <1>3, <1>4

\* One edge's line moves: the others' stays as it is, and so do their replies.
Moves(e) ==
    /\ Len(replies) <= Len(replies')
    /\ \A f \in Edges \ {e} : /\ stream'[f] = stream[f] /\ batch'[f] = batch[f]
                              /\ edge'[f] = edge[f] /\ posted'[f] = posted[f]
    /\ \A n \in 1..Len(replies) : replies'[n].edge = replies[n].edge
    /\ \A n \in 1..Len(replies) : replies[n].edge # e => replies'[n] = replies[n]
    /\ \A n \in (1..Len(replies')) \ (1..Len(replies)) : replies'[n].edge = e

LEMMA LineMoves ==
    ASSUME OutboundInv, OutboundTypes', NEW e \in Edges, Moves(e), LineHolds(e)'
    PROVE  OutboundInv'
<1> SUFFICES ASSUME NEW f \in Edges \ {e} PROVE LineHolds(f)' BY DEF OutboundInv
<1>1. LineHolds(f) /\ OutboundTypes BY DEF OutboundInv
<1>2. UNCHANGED <<stream[f], batch[f], edge[f], posted[f]>> BY DEF Moves
<1>3. \A n \in 1..Len(replies) : n \in 1..Len(replies')
  <2>1. Len(replies) \in Nat /\ Len(replies') \in Nat BY <1>1 DEF OutboundTypes
  <2> QED BY <2>1 DEF Moves
<1>4. \A n : Owns(replies', f, n) <=> Owns(replies, f, n)
  BY <1>3 DEF Moves, Owns
<1>5. \A n : Owns(replies, f, n) => replies'[n] = replies[n] BY DEF Moves, Owns
<1>6. WaitInOrder(f)' BY <1>1, <1>2, <1>4 DEF LineHolds, WaitInOrder, Ascends
<1>7. TakenComeFirst(f)'
  <2>1. ASSUME NEW n \in 1..Len(replies'), Owns(replies', f, n), Taken(f, n)'
        PROVE  n \in 1..Len(replies) /\ Owns(replies, f, n) /\ Taken(f, n)
    <3>1. Owns(replies, f, n) /\ n \in 1..Len(replies) BY <1>4, <2>1 DEF Owns
    <3>2. replies'[n] = replies[n] BY <1>5, <3>1
    <3> QED BY <1>2, <2>1, <3>1, <3>2 DEF Taken, InHand, Got
  <2>2. TakenComeFirst(f) BY <1>1 DEF LineHolds
  <2> QED BY <1>2, <1>4, <2>1, <2>2 DEF TakenComeFirst
<1>8. HandHolds(f)' BY <1>1, <1>2, <1>4, <1>5 DEF LineHolds, HandHolds, Got
<1>9. InOrder(f)' BY <1>1, <1>2 DEF LineHolds, InOrder
<1>10. Truthful(f)' BY <1>1, <1>2, <1>3, <1>4, <1>5 DEF LineHolds, Truthful, Got, Owns
<1> QED BY <1>6, <1>7, <1>8, <1>9, <1>10 DEF LineHolds

\* A reply is numbered after all that were given before it.
LEMMA ReplyGiven ==
    ASSUME InboundTypes, OutboundInv, NEW m \in Messages, Cha!channelOutbound(m)
    PROVE  OutboundInv'
<1>0. OutboundTypes BY DEF OutboundInv
<1>e. PICK e \in Edges : e = origin[m] BY DEF InboundTypes
<1>n. PICK n \in Nat \ {0} : n = Len(replies) + 1 BY <1>0 DEF OutboundTypes
<1> DEFINE r == [m |-> m, edge |-> e, row |-> "none", tried |-> 0]
<1>1. /\ replies' = Append(replies, r) /\ stream' = [stream EXCEPT ![e] = Append(@, n)]
      /\ UNCHANGED <<batch, edge, posted>>
  BY <1>e, <1>n DEF Cha!channelOutbound
<1>2. r \in Answers /\ r.edge = e /\ r.row = "none" /\ r.tried = 0 BY DEF Answers, Statuses
<1> HIDE DEF r
<1>3. /\ replies' \in Seq(Answers) /\ Len(replies') = n /\ replies'[n] = r
      /\ \A k \in 1..Len(replies) : replies'[k] = replies[k]
  BY <1>0, <1>n, <1>1, <1>2 DEF OutboundTypes
<1>4. /\ \A k \in 1..Len(replies') : k \in 1..Len(replies) \/ k = n
      /\ \A k \in 1..Len(replies) : k \in 1..Len(replies') /\ k < n
  <2>1. Len(replies) \in Nat BY <1>0 DEF OutboundTypes
  <2> QED BY <1>n, <1>3, <2>1
<1>5. /\ stream' \in [Edges -> Seq(Nat)] /\ Len(stream'[e]) = Len(stream[e]) + 1
      /\ \A i \in 1..Len(stream[e]) : stream'[e][i] = stream[e][i]
      /\ stream'[e][Len(stream[e]) + 1] = n
      /\ \A f \in Edges \ {e} : stream'[f] = stream[f]
  <2>1. stream[e] \in Seq(Nat) BY <1>0 DEF OutboundTypes
  <2>2. stream'[e] = Append(stream[e], n) BY <1>0, <1>1 DEF OutboundTypes
  <2>3. /\ stream'[e] \in Seq(Nat) /\ Len(stream'[e]) = Len(stream[e]) + 1
        /\ \A i \in 1..Len(stream[e]) : stream'[e][i] = stream[e][i]
        /\ stream'[e][Len(stream[e]) + 1] = n
    BY <2>1, <2>2
  <2> QED BY <1>0, <1>1, <2>3 DEF OutboundTypes
<1>6. OutboundTypes' BY <1>0, <1>1, <1>3, <1>5 DEF OutboundTypes
<1>7. \A k \in 1..Len(replies) : replies'[k] = replies[k] BY <1>3
<1>8. Moves(e)
  <2>1. Len(replies) <= Len(replies') BY <1>0, <1>n, <1>3 DEF OutboundTypes
  <2> QED BY <1>1, <1>2, <1>3, <1>4, <1>5, <1>7, <2>1 DEF Moves
<1>9. LineHolds(e) BY DEF OutboundInv
<1>10. Len(stream[e]) \in Nat /\ \A j \in 1..Len(stream'[e]) : j \in 1..Len(stream[e]) \/ j = Len(stream[e]) + 1
  BY <1>0, <1>5, EdgeFields
<1>11. \A k : Owns(replies, e, k) => Owns(replies', e, k) /\ k < n /\ k \in Nat
  BY <1>0, <1>4, <1>7, EdgeFields DEF Owns
<1>12. Owns(replies', e, n) BY <1>2, <1>3, <1>4 DEF Owns
<1>13. WaitInOrder(e)'
  <2>1. Ascends(batch[e])' BY <1>1, <1>9 DEF LineHolds, WaitInOrder, Ascends
  <2>2. Ascends(stream[e])'
    <3> SUFFICES ASSUME NEW i \in 1..Len(stream'[e]), NEW j \in 1..Len(stream'[e]), i < j
                 PROVE  stream'[e][i] < stream'[e][j]
      BY DEF Ascends
    <3>1. i \in 1..Len(stream[e]) BY <1>5, <1>10
    <3>2. CASE j \in 1..Len(stream[e]) BY <1>5, <1>9, <3>1, <3>2 DEF LineHolds, WaitInOrder, Ascends
    <3>3. CASE j = Len(stream[e]) + 1 BY <1>5, <1>9, <1>11, <3>1, <3>3 DEF LineHolds, WaitInOrder
    <3> QED BY <1>10, <3>2, <3>3
  <2>3. ASSUME NEW i \in 1..Len(batch[e]), NEW j \in 1..Len(stream'[e]) PROVE batch[e][i] < stream'[e][j]
    <3>1. CASE j \in 1..Len(stream[e]) BY <1>5, <1>9, <3>1 DEF LineHolds, WaitInOrder
    <3>2. CASE j = Len(stream[e]) + 1 BY <1>5, <1>9, <1>11, <3>2 DEF LineHolds, WaitInOrder
    <3> QED BY <1>10, <3>1, <3>2
  <2>4. \A i \in 1..Len(batch[e]) : Owns(replies', e, batch[e][i]) BY <1>1, <1>9, <1>11 DEF LineHolds, WaitInOrder
  <2>5. ASSUME NEW i \in 1..Len(stream'[e]) PROVE Owns(replies', e, stream'[e][i])
    <3>1. CASE i \in 1..Len(stream[e]) BY <1>5, <1>9, <1>11, <3>1 DEF LineHolds, WaitInOrder
    <3>2. CASE i = Len(stream[e]) + 1 BY <1>5, <1>12, <3>2
    <3> QED BY <1>10, <3>1, <3>2
  <2> QED BY <1>1, <2>1, <2>2, <2>3, <2>4, <2>5 DEF WaitInOrder
<1>14. ~Taken(e, n)'
  <2>1. ~Owns(replies, e, n) BY <1>11
  <2>2. ~InHand(e, n)' /\ ~Got(e, n)'
    BY <1>1, <1>9, <2>1 DEF LineHolds, HandHolds, TakenComeFirst, InHand, Got
  <2> QED BY <1>2, <1>3, <2>2 DEF Taken
<1>15. TakenComeFirst(e)'
  <2>1. ASSUME NEW k \in 1..Len(replies'), Owns(replies', e, k), Taken(e, k)'
        PROVE  /\ \A i \in 1..Len(batch'[e]) : k < batch'[e][i]
               /\ \A i \in 1..Len(stream'[e]) : k < stream'[e][i]
    <3>1. k \in 1..Len(replies) BY <1>4, <1>14, <2>1
    <3>2. Owns(replies, e, k) /\ Taken(e, k) BY <1>1, <1>7, <2>1, <3>1 DEF Taken, InHand, Got, Owns
    <3>3. /\ k \in Nat /\ k < n /\ \A i \in 1..Len(batch[e]) : k < batch[e][i]
          /\ \A i \in 1..Len(stream[e]) : k < stream[e][i]
      BY <1>9, <1>11, <3>1, <3>2 DEF LineHolds, TakenComeFirst
    <3> QED BY <1>1, <1>5, <1>10, <3>3
  <2>2. \A i \in 1..Len(posted'[e]) : Owns(replies', e, posted'[e][i]) BY <1>1, <1>9, <1>11 DEF LineHolds, TakenComeFirst
  <2> QED BY <2>1, <2>2 DEF TakenComeFirst
<1>16. HandHolds(e)' BY <1>1, <1>7, <1>9, <1>11 DEF LineHolds, HandHolds, Got, Owns
<1>17. InOrder(e)' BY <1>1, <1>9 DEF LineHolds, InOrder
<1>18. Truthful(e)'
  <2> SUFFICES ASSUME NEW k \in 1..Len(replies'), Owns(replies', e, k)
               PROVE  /\ replies'[k].row = "accepted" => Got(e, k)'
                      /\ replies'[k].row = "dead_letter" => replies'[k].tried = MaxPosts
    BY DEF Truthful
  <2>1. CASE k \in 1..Len(replies) BY <1>1, <1>7, <1>9, <2>1 DEF LineHolds, Truthful, Got, Owns
  <2>2. CASE k = n BY <1>2, <1>3, <2>2
  <2> QED BY <1>4, <2>1, <2>2
<1> QED BY <1>6, <1>8, <1>13, <1>15, <1>16, <1>17, <1>18, LineMoves DEF LineHolds

\* The edge's read takes all that wait.
LEMMA RepliesRead ==
    ASSUME OutboundInv, NEW e \in Edges, Cha!xreadGroup(e)
    PROVE  OutboundInv'
<1>0. OutboundTypes /\ LineHolds(e) BY DEF OutboundInv
<1>1. /\ batch[e] = <<>> /\ batch' = [batch EXCEPT ![e] = stream[e]] /\ stream' = [stream EXCEPT ![e] = <<>>]
      /\ UNCHANGED <<replies, edge, posted>>
  BY DEF Cha!xreadGroup
<1>2. /\ batch' \in [Edges -> Seq(Nat)] /\ stream' \in [Edges -> Seq(Nat)]
      /\ batch'[e] = stream[e] /\ stream'[e] = <<>> /\ Len(stream'[e]) = 0
      /\ \A f \in Edges \ {e} : batch'[f] = batch[f] /\ stream'[f] = stream[f]
  BY <1>0, <1>1 DEF OutboundTypes
<1>3. OutboundTypes' BY <1>0, <1>1, <1>2 DEF OutboundTypes
<1>4. Moves(e)
  <2>1. Len(replies) \in Nat BY <1>0 DEF OutboundTypes
  <2> QED BY <1>1, <1>2, <2>1 DEF Moves
<1>5. WaitInOrder(e)' BY <1>0, <1>1, <1>2 DEF LineHolds, WaitInOrder, Ascends
<1>6. TakenComeFirst(e)' BY <1>0, <1>1, <1>2 DEF LineHolds, TakenComeFirst, Taken, InHand, Got
<1>7. HandHolds(e)' /\ InOrder(e)' /\ Truthful(e)'
  BY <1>0, <1>1 DEF LineHolds, HandHolds, InOrder, Truthful, Got
<1> QED BY <1>3, <1>4, <1>5, <1>6, <1>7, LineMoves DEF LineHolds

\* The loop takes the first that it has read.
LEMMA ReplyTaken ==
    ASSUME ChannelAssumption, OutboundInv, NEW e \in Edges, Cha!sendSessionReply(e)
    PROVE  OutboundInv'
<1>0. OutboundTypes /\ LineHolds(e) BY DEF OutboundInv
<1> DEFINE n == Head(batch[e])
           h == IF ~account.enabled THEN Cha!NoReply
                ELSE IF ~account.url
                THEN [pc |-> "record", n |-> n, attempt |-> 0, status |-> "failed"]
                ELSE [pc |-> "post", n |-> n, attempt |-> 1, status |-> "failed"]
<1>1. /\ edge[e].pc = "idle" /\ batch[e] # <<>> /\ batch' = [batch EXCEPT ![e] = Tail(@)]
      /\ edge' = [edge EXCEPT ![e] = h] /\ UNCHANGED <<replies, stream, posted>>
  BY DEF Cha!sendSessionReply
<1>2. /\ n \in Nat /\ n = batch[e][1] /\ Len(batch[e]) \in Nat \ {0} /\ Tail(batch[e]) \in Seq(Nat)
      /\ Len(Tail(batch[e])) = Len(batch[e]) - 1
      /\ \A i \in 1..Len(Tail(batch[e])) : Tail(batch[e])[i] = batch[e][i + 1] /\ i + 1 \in 1..Len(batch[e])
  <2>1. batch[e] \in Seq(Nat) BY <1>0 DEF OutboundTypes
  <2> QED BY <1>1, <2>1
<1>3. /\ h \in Hands
      /\ h.pc # "idle" => h.n = n
      /\ h.pc = "post" => h.attempt = 1
      /\ h.pc = "record" => h.status = "failed"
  BY <1>2 DEF Cha!NoReply, Statuses, Hands
<1> HIDE DEF n, h
<1>4. /\ batch' \in [Edges -> Seq(Nat)] /\ edge' \in [Edges -> Hands]
      /\ batch'[e] = Tail(batch[e]) /\ edge'[e] = h
      /\ \A f \in Edges \ {e} : batch'[f] = batch[f] /\ edge'[f] = edge[f]
  BY <1>0, <1>1, <1>2, <1>3 DEF OutboundTypes
<1>5. OutboundTypes' BY <1>0, <1>1, <1>4 DEF OutboundTypes
<1>6. Moves(e)
  <2>1. Len(replies) \in Nat BY <1>0 DEF OutboundTypes
  <2> QED BY <1>1, <1>4, <2>1 DEF Moves
<1>7. \A i \in 1..Len(batch'[e]) : n < batch'[e][i]
  <2> SUFFICES ASSUME NEW i \in 1..Len(batch'[e]) PROVE n < batch'[e][i] OBVIOUS
  <2>1. Ascends(batch[e]) /\ 1 \in 1..Len(batch[e]) /\ 1 < i + 1 BY <1>0, <1>2, <1>4 DEF LineHolds, WaitInOrder
  <2>2. batch[e][1] < batch[e][i + 1] BY <1>2, <1>4, <2>1 DEF Ascends
  <2> QED BY <1>2, <1>4, <2>2
<1>8. Owns(replies, e, n) /\ \A i \in 1..Len(stream[e]) : n < stream[e][i]
  BY <1>0, <1>2 DEF LineHolds, WaitInOrder
<1>9. n \in 1..Len(replies) BY <1>8 DEF Owns
<1>10. ~Taken(e, n)
  <2> SUFFICES ASSUME Taken(e, n) PROVE FALSE OBVIOUS
  <2>1. n < batch[e][1] BY <1>0, <1>2, <1>8, <1>9 DEF LineHolds, TakenComeFirst
  <2> QED BY <1>2, <2>1
<1>11. replies[n].tried = 0 /\ replies[n].row = "none" BY <1>10 DEF Taken
<1>12. \A i \in 1..Len(posted[e]) : posted[e][i] <= n
  <2> SUFFICES ASSUME NEW i \in 1..Len(posted[e]) PROVE posted[e][i] <= n OBVIOUS
  <2>1. Owns(replies, e, posted[e][i]) /\ Taken(e, posted[e][i])
    BY <1>0 DEF LineHolds, TakenComeFirst, Taken, Got
  <2>2. posted[e][i] \in 1..Len(replies) /\ posted[e][i] \in Nat BY <1>0, <2>1, EdgeFields DEF Owns
  <2>3. posted[e][i] < batch[e][1] BY <1>0, <1>2, <2>1, <2>2 DEF LineHolds, TakenComeFirst
  <2> QED BY <1>2, <2>2, <2>3
<1>13. WaitInOrder(e)'
  <2>1. Ascends(batch[e])'
    <3> SUFFICES ASSUME NEW i \in 1..Len(batch'[e]), NEW j \in 1..Len(batch'[e]), i < j
                 PROVE  batch'[e][i] < batch'[e][j]
      BY DEF Ascends
    <3>1. i + 1 < j + 1 OBVIOUS
    <3>2. batch[e][i + 1] < batch[e][j + 1] BY <1>0, <1>2, <1>4, <3>1 DEF LineHolds, WaitInOrder, Ascends
    <3> QED BY <1>2, <1>4, <3>2
  <2>2. Ascends(stream[e])' BY <1>0, <1>1 DEF LineHolds, WaitInOrder, Ascends
  <2>3. \A i \in 1..Len(batch'[e]), j \in 1..Len(stream[e]) : batch'[e][i] < stream[e][j]
    BY <1>0, <1>2, <1>4 DEF LineHolds, WaitInOrder
  <2>4. \A i \in 1..Len(batch'[e]) : Owns(replies, e, batch'[e][i]) BY <1>0, <1>2, <1>4 DEF LineHolds, WaitInOrder
  <2>5. \A i \in 1..Len(stream[e]) : Owns(replies, e, stream[e][i]) BY <1>0 DEF LineHolds, WaitInOrder
  <2> QED BY <1>1, <2>1, <2>2, <2>3, <2>4, <2>5 DEF WaitInOrder
<1>14. TakenComeFirst(e)'
  <2>1. ASSUME NEW k \in 1..Len(replies), Owns(replies, e, k), Taken(e, k)'
        PROVE  /\ \A i \in 1..Len(batch'[e]) : k < batch'[e][i]
               /\ \A i \in 1..Len(stream[e]) : k < stream[e][i]
    <3>1. CASE Taken(e, k) BY <1>0, <1>2, <1>4, <2>1, <3>1 DEF LineHolds, TakenComeFirst
    <3>2. CASE k = n BY <1>7, <1>8, <3>2
    <3>3. Taken(e, k) \/ k = n BY <1>1, <1>3, <1>4, <2>1 DEF Taken, InHand, Got
    <3> QED BY <3>1, <3>2, <3>3
  <2> QED BY <1>0, <1>1, <2>1 DEF LineHolds, TakenComeFirst
<1>15. HandHolds(e)'
  BY <1>1, <1>3, <1>4, <1>8, <1>11, <1>12, ChannelAssumption DEF HandHolds, ChannelAssumption
<1>16. InOrder(e)' /\ Truthful(e)' BY <1>0, <1>1 DEF LineHolds, InOrder, Truthful, Got
<1> QED BY <1>5, <1>6, <1>13, <1>14, <1>15, <1>16, LineMoves DEF LineHolds

\* One reply of an edge is written: what is known of the others stays.
Writes(e, n, r) ==
    /\ n \in 1..Len(replies) /\ Owns(replies, e, n) /\ r \in Answers /\ r.edge = e
    /\ replies' = [replies EXCEPT ![n] = r]
    /\ \A f \in Edges \ {e} : /\ stream'[f] = stream[f] /\ batch'[f] = batch[f]
                              /\ edge'[f] = edge[f] /\ posted'[f] = posted[f]

RowWritten(e, n, r) ==
    /\ Moves(e) /\ replies' \in Seq(Answers) /\ Len(replies') = Len(replies) /\ replies'[n] = r
    /\ \A k \in (1..Len(replies)) \ {n} : replies'[k] = replies[k]
    /\ \A k : Owns(replies', e, k) <=> Owns(replies, e, k)

LEMMA ReplyWritten ==
    ASSUME OutboundTypes, NEW e \in Edges, NEW n, NEW r, Writes(e, n, r)
    PROVE  RowWritten(e, n, r)
<1>1. replies \in Seq(Answers) /\ Len(replies) \in Nat BY DEF OutboundTypes
<1>0. n \in 1..Len(replies) /\ Owns(replies, e, n) /\ r \in Answers /\ r.edge = e
  BY DEF Writes
<1>2. /\ replies' \in Seq(Answers) /\ Len(replies') = Len(replies) /\ replies'[n] = r
      /\ \A k \in (1..Len(replies)) \ {n} : replies'[k] = replies[k]
  BY <1>0, <1>1, ExceptSeq DEF Writes
<1>3. \A k : Owns(replies', e, k) <=> Owns(replies, e, k) BY <1>0, <1>2 DEF Owns
<1>4. Moves(e) BY <1>0, <1>1, <1>2 DEF Moves, Owns, Writes
<1> QED BY <1>2, <1>3, <1>4 DEF RowWritten

\* A post is tried once more; whatever comes of it, the reply stays in hand.
LEMMA ReplyPosted ==
    ASSUME ChannelAssumption, OutboundInv, NEW e \in Edges,
           Cha!postOutboundWebhook(e) \/ Cha!postFails(e)
    PROVE  OutboundInv'
<1>0. OutboundTypes /\ LineHolds(e) BY DEF OutboundInv
<1>1. PICK n \in 1..Len(replies) :
            /\ n = edge[e].n /\ n \in Nat /\ edge[e].pc = "post" /\ Owns(replies, e, n)
            /\ replies[n].row = "none" /\ edge[e].attempt \in 1..MaxPosts
            /\ replies[n].tried = edge[e].attempt - 1
            /\ \A i \in 1..Len(posted[e]) : posted[e][i] <= n
  <2>1. edge[e].pc = "post" BY DEF Cha!postOutboundWebhook, Cha!postFails
  <2>2. Owns(replies, e, edge[e].n) BY <1>0, <2>1 DEF LineHolds, HandHolds
  <2>3. edge[e].n \in 1..Len(replies) BY <2>2 DEF Owns
  <2> QED BY <1>0, <2>1, <2>3, EdgeFields DEF LineHolds, HandHolds
<1> DEFINE r == [replies[n] EXCEPT !.tried = @ + 1]
           g == Append(posted[e], n)
<1>2. /\ replies' = [replies EXCEPT ![n] = r] /\ UNCHANGED <<stream, batch>>
      /\ posted' \in {posted, [posted EXCEPT ![e] = g]}
      /\ \/ /\ edge' = [edge EXCEPT ![e].pc = "record", ![e].status = "accepted"]
            /\ posted' = [posted EXCEPT ![e] = g]
         \/ edge[e].attempt < MaxPosts /\ edge' = [edge EXCEPT ![e].attempt = @ + 1]
         \/ /\ ~(edge[e].attempt < MaxPosts)
            /\ edge' = [edge EXCEPT ![e].pc = "record", ![e].status = "dead_letter"]
  BY <1>1 DEF Cha!postOutboundWebhook, Cha!postFails, Cha!Tries, Cha!Gets
<1>3. /\ r \in Answers /\ r.edge = e /\ r.row = "none" /\ r.tried = edge[e].attempt
      /\ edge[e].attempt \in Nat /\ MaxPosts \in Nat
  <2>1. replies[n] \in Answers /\ edge[e] \in Hands BY <1>0, EdgeFields
  <2>2. replies[n].edge = e BY <1>1 DEF Owns
  <2> QED BY <1>1, <2>1, <2>2, ChannelAssumption DEF Answers, Hands, ChannelAssumption
<1> HIDE DEF r
<1>4. /\ g \in Seq(Nat) /\ Len(g) = Len(posted[e]) + 1 /\ g[Len(g)] = n /\ Len(posted[e]) \in Nat
      /\ \A i \in 1..Len(posted[e]) : g[i] = posted[e][i]
  <2>1. posted[e] \in Seq(Nat) BY <1>0 DEF OutboundTypes
  <2> QED BY <1>1, <2>1
<1> HIDE DEF g
<1>5. /\ posted' \in [Edges -> Seq(Nat)] /\ posted'[e] \in {posted[e], g}
      /\ posted' = [posted EXCEPT ![e] = g] => posted'[e] = g
      /\ \A f \in Edges \ {e} : posted'[f] = posted[f]
  <2>0. posted \in [Edges -> Seq(Nat)] BY <1>0 DEF OutboundTypes
  <2>1. [posted EXCEPT ![e] = g] \in [Edges -> Seq(Nat)] /\ [posted EXCEPT ![e] = g][e] = g
    BY <1>4, <2>0
  <2>2. \A f \in Edges \ {e} : [posted EXCEPT ![e] = g][f] = posted[f] BY <2>0
  <2> QED BY <1>2, <2>0, <2>1, <2>2
<1>6. /\ edge' \in [Edges -> Hands] /\ edge'[e].n = n /\ edge'[e].pc # "idle"
      /\ edge'[e].pc = "post" => edge'[e].attempt = edge[e].attempt + 1 /\ edge[e].attempt < MaxPosts
      /\ edge'[e].pc = "record" => /\ edge'[e].status = "accepted" => posted'[e] = g
                                   /\ edge'[e].status = "dead_letter" => ~(edge[e].attempt < MaxPosts)
      /\ \A f \in Edges \ {e} : edge'[f] = edge[f]
  <2>0. edge \in [Edges -> Hands] /\ edge[e] \in Hands BY <1>0 DEF OutboundTypes
  <2>1. CASE /\ edge' = [edge EXCEPT ![e].pc = "record", ![e].status = "accepted"]
             /\ posted' = [posted EXCEPT ![e] = g]
    <3> DEFINE h == [edge[e] EXCEPT !.pc = "record", !.status = "accepted"]
    <3>1. /\ h \in Hands /\ h.pc = "record" /\ h.status = "accepted" /\ h.n = n
      BY <1>1, <2>0 DEF Hands, Statuses
    <3>2. edge' = [edge EXCEPT ![e] = h] BY <2>1, <2>0
    <3> HIDE DEF h
    <3>3. edge'[e] = h /\ edge' \in [Edges -> Hands] /\ \A f \in Edges \ {e} : edge'[f] = edge[f]
      BY <2>0, <3>1, <3>2
    <3>4. posted'[e] = g BY <1>5, <2>1
    <3> QED BY <3>1, <3>3, <3>4
  <2>2. CASE edge[e].attempt < MaxPosts /\ edge' = [edge EXCEPT ![e].attempt = @ + 1]
    <3> DEFINE h == [edge[e] EXCEPT !.attempt = @ + 1]
    <3>0. edge[e].attempt + 1 \in Nat BY <1>3
    <3>1. h \in Hands /\ h.pc = "post" /\ h.attempt = edge[e].attempt + 1 /\ h.n = n
      BY <1>1, <2>0, <3>0 DEF Hands
    <3>2. edge' = [edge EXCEPT ![e] = h] BY <2>2, <2>0
    <3> HIDE DEF h
    <3>3. edge'[e] = h /\ edge' \in [Edges -> Hands] /\ \A f \in Edges \ {e} : edge'[f] = edge[f]
      BY <2>0, <3>1, <3>2
    <3> QED BY <2>2, <3>1, <3>3
  <2>3. CASE /\ ~(edge[e].attempt < MaxPosts)
             /\ edge' = [edge EXCEPT ![e].pc = "record", ![e].status = "dead_letter"]
    <3> DEFINE h == [edge[e] EXCEPT !.pc = "record", !.status = "dead_letter"]
    <3>1. h \in Hands /\ h.pc = "record" /\ h.status = "dead_letter" /\ h.n = n
      BY <1>1, <2>0 DEF Hands, Statuses
    <3>2. edge' = [edge EXCEPT ![e] = h] BY <2>3, <2>0
    <3> HIDE DEF h
    <3>3. edge'[e] = h /\ edge' \in [Edges -> Hands] /\ \A f \in Edges \ {e} : edge'[f] = edge[f]
      BY <2>0, <3>1, <3>2
    <3> QED BY <2>3, <3>1, <3>3
  <2> QED BY <1>2, <2>1, <2>2, <2>3
<1>7. /\ Moves(e) /\ replies' \in Seq(Answers) /\ Len(replies') = Len(replies) /\ replies'[n] = r
      /\ \A k \in (1..Len(replies)) \ {n} : replies'[k] = replies[k]
      /\ \A k : Owns(replies', e, k) <=> Owns(replies, e, k)
  <2>1. Writes(e, n, r) BY <1>1, <1>2, <1>3, <1>5, <1>6 DEF Writes
  <2>2. RowWritten(e, n, r) BY <1>0, <2>1, ReplyWritten
  <2> QED BY <2>2 DEF RowWritten
<1>8. OutboundTypes' BY <1>0, <1>2, <1>5, <1>6, <1>7 DEF OutboundTypes
<1>9. /\ \A k : Got(e, k) => Got(e, k)'
      /\ \A k : Got(e, k)' => Got(e, k) \/ k = n
      /\ posted'[e] = g => Got(e, n)'
  <2>1. Len(g) \in 1..Len(g) /\ \A i \in 1..Len(g) : i \in 1..Len(posted[e]) \/ i = Len(g) BY <1>4
  <2>2. \A i \in 1..Len(posted[e]) : i \in 1..Len(g) BY <1>4
  <2> QED BY <1>4, <1>5, <2>1, <2>2 DEF Got
<1>10. WaitInOrder(e)' BY <1>0, <1>2, <1>7 DEF LineHolds, WaitInOrder, Ascends
<1>11. TakenComeFirst(e)'
  <2>1. ASSUME NEW k \in 1..Len(replies), Owns(replies, e, k), Taken(e, k)' PROVE Taken(e, k)
    <3>1. CASE k = n BY <1>1, <3>1 DEF Taken, InHand
    <3>2. CASE k # n BY <1>6, <1>7, <1>9, <2>1, <3>2 DEF Taken, InHand
    <3> QED BY <3>1, <3>2
  <2>2. ASSUME NEW i \in 1..Len(posted'[e]) PROVE Owns(replies, e, posted'[e][i])
    <3>1. posted'[e][i] = n \/ \E j \in 1..Len(posted[e]) : posted'[e][i] = posted[e][j] BY <1>9 DEF Got
    <3> QED BY <1>0, <1>1, <3>1 DEF LineHolds, TakenComeFirst
  <2> QED BY <1>0, <1>2, <1>7, <2>1, <2>2 DEF LineHolds, TakenComeFirst
<1>12. \A i \in 1..Len(posted'[e]) : posted'[e][i] <= n
  <2> SUFFICES ASSUME NEW i \in 1..Len(posted'[e]) PROVE posted'[e][i] <= n OBVIOUS
  <2>1. posted'[e][i] = n \/ \E j \in 1..Len(posted[e]) : posted'[e][i] = posted[e][j] BY <1>9 DEF Got
  <2> QED BY <1>1, <2>1
<1>13. HandHolds(e)'
  <2>1. edge'[e].pc = "post" => edge'[e].attempt \in 1..MaxPosts /\ replies'[n].tried = edge'[e].attempt - 1
    BY <1>1, <1>3, <1>6, <1>7
  <2>2. edge'[e].pc = "record" => /\ edge'[e].status = "accepted" => Got(e, n)'
                                  /\ edge'[e].status = "dead_letter" => replies'[n].tried = MaxPosts
    BY <1>1, <1>3, <1>6, <1>7, <1>9
  <2> QED BY <1>1, <1>3, <1>6, <1>7, <1>12, <2>1, <2>2 DEF HandHolds
<1>14. InOrder(e)'
  <2> SUFFICES ASSUME NEW i \in 1..Len(posted'[e]), NEW j \in 1..Len(posted'[e]), i < j
               PROVE  posted'[e][i] <= posted'[e][j]
    BY DEF InOrder
  <2>1. CASE posted'[e] = posted[e] BY <1>0, <2>1 DEF LineHolds, InOrder
  <2>2. CASE posted'[e] = g
    <3>1. i \in 1..Len(posted[e]) BY <1>4, <2>2
    <3>2. CASE j \in 1..Len(posted[e]) BY <1>0, <1>4, <2>2, <3>1, <3>2 DEF LineHolds, InOrder
    <3>3. CASE j = Len(g) BY <1>4, <1>12, <2>2, <3>3
    <3> QED BY <1>4, <2>2, <3>2, <3>3
  <2> QED BY <1>5, <2>1, <2>2
<1>15. Truthful(e)'
  <2> SUFFICES ASSUME NEW k \in 1..Len(replies), Owns(replies, e, k)
               PROVE  /\ replies'[k].row = "accepted" => Got(e, k)'
                      /\ replies'[k].row = "dead_letter" => replies'[k].tried = MaxPosts
    BY <1>7 DEF Truthful
  <2>1. CASE k = n BY <1>3, <1>7, <2>1
  <2>2. CASE k # n BY <1>0, <1>7, <1>9, <2>2 DEF LineHolds, Truthful
  <2> QED BY <2>1, <2>2
<1> QED BY <1>7, <1>8, <1>10, <1>11, <1>13, <1>14, <1>15, LineMoves DEF LineHolds

\* What became of it is recorded, and no other row is touched.
LEMMA ReplyRecorded ==
    ASSUME OutboundInv, NEW e \in Edges, Cha!recordReply(e)
    PROVE  OutboundInv'
<1>0. OutboundTypes /\ LineHolds(e) BY DEF OutboundInv
<1>1. PICK n \in 1..Len(replies) :
            /\ n = edge[e].n /\ edge[e].pc = "record" /\ Owns(replies, e, n)
            /\ edge[e].status = "accepted" => Got(e, n)
            /\ edge[e].status = "dead_letter" => replies[n].tried = MaxPosts
  <2>1. edge[e].pc = "record" BY DEF Cha!recordReply
  <2>2. Owns(replies, e, edge[e].n) BY <1>0, <2>1 DEF LineHolds, HandHolds
  <2>3. edge[e].n \in 1..Len(replies) BY <2>2 DEF Owns
  <2> QED BY <1>0, <2>1, <2>3 DEF LineHolds, HandHolds
<1> DEFINE r == [replies[n] EXCEPT !.row = edge[e].status]
<1>2. /\ replies' = [replies EXCEPT ![n] = r] /\ edge' = [edge EXCEPT ![e] = Cha!NoReply]
      /\ UNCHANGED <<stream, batch, posted>>
  BY <1>1 DEF Cha!recordReply
<1>3. r \in Answers /\ r.edge = e /\ r.row = edge[e].status /\ r.tried = replies[n].tried
  <2>1. replies[n] \in Answers /\ edge[e] \in Hands BY <1>0, EdgeFields
  <2>2. replies[n].edge = e BY <1>1 DEF Owns
  <2> QED BY <2>1, <2>2 DEF Answers, Hands
<1> HIDE DEF r
<1>4. /\ edge' \in [Edges -> Hands] /\ edge'[e].pc = "idle" /\ \A f \in Edges \ {e} : edge'[f] = edge[f]
  <2>1. Cha!NoReply \in Hands /\ Cha!NoReply.pc = "idle" BY DEF Cha!NoReply, Hands, Statuses
  <2> QED BY <1>0, <1>2, <2>1 DEF OutboundTypes
<1>5. /\ Moves(e) /\ replies' \in Seq(Answers) /\ Len(replies') = Len(replies) /\ replies'[n] = r
      /\ \A k \in (1..Len(replies)) \ {n} : replies'[k] = replies[k]
      /\ \A k : Owns(replies', e, k) <=> Owns(replies, e, k)
  <2>1. Writes(e, n, r) BY <1>1, <1>2, <1>3, <1>4 DEF Writes
  <2>2. RowWritten(e, n, r) BY <1>0, <2>1, ReplyWritten
  <2> QED BY <2>2 DEF RowWritten
<1>6. OutboundTypes' BY <1>0, <1>2, <1>4, <1>5 DEF OutboundTypes
<1>7. WaitInOrder(e)' BY <1>0, <1>2, <1>5 DEF LineHolds, WaitInOrder, Ascends
<1>8. TakenComeFirst(e)'
  <2>1. ASSUME NEW k \in 1..Len(replies), Taken(e, k)' PROVE Taken(e, k)
    <3>1. CASE k = n BY <1>1, <3>1 DEF Taken, InHand
    <3>2. CASE k # n BY <1>2, <1>4, <1>5, <2>1, <3>2 DEF Taken, InHand, Got
    <3> QED BY <3>1, <3>2
  <2> QED BY <1>0, <1>2, <1>5, <2>1 DEF LineHolds, TakenComeFirst
<1>9. HandHolds(e)' BY <1>4 DEF HandHolds
<1>10. InOrder(e)' BY <1>0, <1>2 DEF LineHolds, InOrder
<1>11. Truthful(e)'
  <2> SUFFICES ASSUME NEW k \in 1..Len(replies), Owns(replies, e, k)
               PROVE  /\ replies'[k].row = "accepted" => Got(e, k)
                      /\ replies'[k].row = "dead_letter" => replies'[k].tried = MaxPosts
    BY <1>2, <1>5 DEF Truthful, Got
  <2>1. CASE k = n BY <1>1, <1>3, <1>5, <2>1
  <2>2. CASE k # n BY <1>0, <1>5, <2>2 DEF LineHolds, Truthful
  <2> QED BY <2>1, <2>2
<1> QED BY <1>5, <1>6, <1>7, <1>8, <1>9, <1>10, <1>11, LineMoves DEF LineHolds

\* An edge's death disturbs no order.
LEMMA RepliesLost ==
    ASSUME OutboundInv, NEW e \in Edges, Cha!EdgeDies(e)
    PROVE  OutboundInv'
<1>0. OutboundTypes /\ LineHolds(e) BY DEF OutboundInv
<1>1. /\ batch' = [batch EXCEPT ![e] = <<>>] /\ edge' = [edge EXCEPT ![e] = Cha!NoReply]
      /\ UNCHANGED <<replies, stream, posted>>
  BY DEF Cha!EdgeDies
<1>2. Cha!NoReply \in Hands /\ Cha!NoReply.pc = "idle" BY DEF Cha!NoReply, Hands, Statuses
<1>3. /\ batch' \in [Edges -> Seq(Nat)] /\ edge' \in [Edges -> Hands]
      /\ batch'[e] = <<>> /\ Len(batch'[e]) = 0 /\ edge'[e].pc = "idle"
      /\ \A f \in Edges \ {e} : batch'[f] = batch[f] /\ edge'[f] = edge[f]
  BY <1>0, <1>1, <1>2 DEF OutboundTypes
<1>4. OutboundTypes' BY <1>0, <1>1, <1>3 DEF OutboundTypes
<1>5. Moves(e)
  <2>1. Len(replies) \in Nat BY <1>0 DEF OutboundTypes
  <2> QED BY <1>1, <1>3, <2>1 DEF Moves
<1>6. WaitInOrder(e)' BY <1>0, <1>1, <1>3 DEF LineHolds, WaitInOrder, Ascends
<1>7. TakenComeFirst(e)' BY <1>0, <1>1, <1>3 DEF LineHolds, TakenComeFirst, Taken, InHand, Got
<1>8. HandHolds(e)' /\ InOrder(e)' /\ Truthful(e)'
  BY <1>0, <1>1, <1>3 DEF LineHolds, HandHolds, InOrder, Truthful, Got
<1> QED BY <1>4, <1>5, <1>6, <1>7, <1>8, LineMoves DEF LineHolds

\* What comes in and the administrators do not touch what goes out.
LEMMA RepliesStay == ASSUME OutboundInv, UNCHANGED Cha!outbound PROVE OutboundInv'
<1>1. UNCHANGED <<replies, stream, batch, edge, posted>> BY DEF Cha!outbound
<1>2. OutboundTypes' BY <1>1 DEF OutboundInv, OutboundTypes
<1>3. ASSUME NEW e \in Edges PROVE LineHolds(e)'
  BY <1>1 DEF OutboundInv, LineHolds, WaitInOrder, Ascends, TakenComeFirst, Taken, InHand, Got, HandHolds,
     InOrder, Truthful
<1> QED BY <1>2, <1>3 DEF OutboundInv

LEMMA RepliesStep ==
    ASSUME ChannelAssumption, InboundInv, OutboundInv, Cha!Next
    PROVE  OutboundInv'
<1>0. InboundTypes BY DEF InboundInv
<1>1. CASE \E m \in Messages : Cha!channelOutbound(m) BY <1>0, <1>1, ReplyGiven
<1>2. CASE \E e \in Edges : Cha!xreadGroup(e) BY <1>2, RepliesRead
<1>3. CASE \E e \in Edges : Cha!sendSessionReply(e) BY <1>3, ReplyTaken
<1>4. CASE \E e \in Edges : Cha!postOutboundWebhook(e) \/ Cha!postFails(e) BY <1>4, ReplyPosted
<1>5. CASE \E e \in Edges : Cha!recordReply(e) BY <1>5, ReplyRecorded
<1>6. CASE \E e \in Edges : Cha!EdgeDies(e) BY <1>6, RepliesLost
<1>7. CASE \/ \E d \in Deliveries, m \in Messages : Cha!handleWebhook(d, m)
           \/ \E d \in Deliveries : \/ Cha!webhookRejected(d) \/ Cha!acquireKey(d) \/ Cha!readAllowlist(d)
                                    \/ Cha!dropMessage(d) \/ Cha!routeMessage(d) \/ Cha!sendToBrain(d)
                                    \/ Cha!requestFails(d) \/ Cha!answerWebhook(d)
                                    \/ \E w \in Workflows : Cha!postInternalTrigger(d, w) \/ Cha!triggerRunFails(d, w)
  BY <1>7, RepliesStay DEF Cha!handleWebhook, Cha!webhookRejected, Cha!acquireKey, Cha!readAllowlist, Cha!dropMessage,
     Cha!routeMessage, Cha!sendToBrain, Cha!requestFails, Cha!answerWebhook, Cha!postInternalTrigger,
     Cha!triggerRunFails
<1>8. CASE \/ \E m \in Messages : Cha!KeyLost(m)
           \/ \E a \in Accounts : Cha!updateChannelAccount(a)
           \/ \E k \in Entries : Cha!putChannelAllowlistEntry(k) \/ Cha!deleteChannelAllowlistEntry(k)
           \/ \E p \in pairing, s \in {"approved", "rejected"} : Cha!updateChannelPairingRequestStatus(p, s)
  BY <1>8, RepliesStay DEF Cha!KeyLost, Cha!updateChannelAccount, Cha!putChannelAllowlistEntry,
     Cha!deleteChannelAllowlistEntry, Cha!updateChannelPairingRequestStatus
<1> QED BY <1>1, <1>2, <1>3, <1>4, <1>5, <1>6, <1>7, <1>8 DEF Cha!Next

LEMMA RepliesStart == ASSUME Cha!Init PROVE OutboundInv
<1>1. /\ replies = <<>> /\ \A e \in Edges : stream[e] = <<>> /\ batch[e] = <<>> /\ posted[e] = <<>>
      /\ \A e \in Edges : edge[e] = Cha!NoReply
  BY DEF Cha!Init
<1>2. Cha!NoReply \in Hands /\ Cha!NoReply.pc = "idle" BY DEF Cha!NoReply, Hands, Statuses
<1>3. Len(replies) = 0 /\ \A e \in Edges : Len(stream[e]) = 0 /\ Len(batch[e]) = 0 /\ Len(posted[e]) = 0 BY <1>1
<1>4. OutboundTypes BY <1>1, <1>2 DEF OutboundTypes, Cha!Init
<1>5. ASSUME NEW e \in Edges PROVE LineHolds(e)
  <2>1. edge[e].pc = "idle" BY <1>1, <1>2
  <2> QED BY <1>3, <2>1 DEF LineHolds, WaitInOrder, Ascends, TakenComeFirst, HandHolds, InOrder, Truthful
<1> QED BY <1>4, <1>5 DEF OutboundInv

LEMMA RepliesHold ==
    ASSUME OutboundInv
    PROVE  Cha!RepliesInOrder /\ Cha!OutboundTruthful
<1>1. Cha!RepliesInOrder BY DEF OutboundInv, LineHolds, InOrder, Cha!RepliesInOrder
<1>2. ASSUME NEW n \in Cha!Replies
      PROVE  LET e == replies[n].edge IN
                /\ replies[n].row = "accepted" => \E i \in 1..Len(posted[e]) : posted[e][i] = n
                /\ replies[n].row = "dead_letter" => replies[n].tried = MaxPosts
  <2>1. n \in 1..Len(replies) /\ replies \in Seq(Answers) BY DEF Cha!Replies, OutboundInv, OutboundTypes
  <2>2. replies[n] \in Answers BY <2>1
  <2>3. replies[n].edge \in Edges BY <2>2 DEF Answers
  <2>4. Truthful(replies[n].edge) /\ Owns(replies, replies[n].edge, n)
    BY <2>1, <2>3 DEF OutboundInv, LineHolds, Owns
  <2> QED BY <2>1, <2>4 DEF Truthful, Got
<1> QED BY <1>1, <1>2 DEF Cha!OutboundTruthful

-----------------------------------------------------------------------------
ChannelInv == InboundInv /\ OutboundInv

\* However often the provider repeats its calls and Redis forgets its keys,
\* whichever calls fail and whenever an edge dies, a message is routed once,
\* "accepted" tells whether the brain knows of it, only a call that got an error
\* or no answer loses a message, the replies through an edge reach the provider
\* in their order, and a reply's row tells what became of it.
THEOREM ChannelsAreKept == WorkSpec => []ChannelsHold
<1>1. WorkInit => ChannelInv
  BY ChannelAssumption, RequestsStart, RepliesStart DEF WorkInit, ChannelInv
<1>2. ChannelInv /\ [WorkNext]_allVars => ChannelInv'
  <2> SUFFICES ASSUME ChannelInv, [WorkNext]_allVars PROVE ChannelInv' OBVIOUS
  <2>1. CASE Cha!Next BY <2>1, ChannelAssumption, RequestsStep, RepliesStep DEF ChannelInv
  <2>2. CASE UNCHANGED chaVars
    <3>1. InboundInv'
      <4>0. InboundInv /\ InboundTypes BY DEF ChannelInv, InboundInv
      <4>1. UNCHANGED <<account, allow, keys, rows, events, told, origin, runs, req>> BY <2>2 DEF chaVars
      <4> QED BY <4>0, <4>1, RequestsLost DEF InboundTypes
    <3>2. OutboundInv' BY <2>2, RepliesStay DEF chaVars, ChannelInv, Cha!outbound
    <3> QED BY <3>1, <3>2 DEF ChannelInv
  <2> QED BY <2>1, <2>2 DEF WorkNext, allVars
<1>3. ChannelInv => ChannelsHold
  BY RequestsHold, RepliesHold DEF ChannelInv, ChannelsHold
<1> QED BY <1>1, <1>2, <1>3, PTL DEF WorkSpec
=============================================================================
