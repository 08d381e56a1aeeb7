------------------------------ MODULE GraphRun ------------------------------
(***************************************************************************)
(* A run of a v3 workflow: a graph of nodes and edges that the API and the *)
(* worker check (validateV3GraphConstraints), and that the worker then     *)
(* executes node by node (the v3 branch of processWorkflowRunJob), stops   *)
(* at a node whose call goes to the gateway, and takes up again with the   *)
(* result.  What WorkflowRun has of jobs, approvals, polls and timeouts is *)
(* left out.  Node ids are numbers, which order them as localeCompare does.*)
(***************************************************************************)
EXTENDS Integers, Sequences, FiniteSets, SequencesExt

CONSTANTS
    MaxAttempts, None,
    Graphs,             \* what may have been written: [type, edges, outcome]
    MaxCrashes          \* bound on deaths of the worker

VARIABLES
    graph,              \* type[n], edges [from, to, kind], outcome[n] of output.result
    row,                \* of the run: status, attempt, steps, block, pending, queued (its job)
    worker,             \* at, and its copies of steps and pending
    crashes

vars == <<graph, row, worker, crashes>>

Nodes == DOMAIN graph.type
Into(n) == {e \in graph.edges : e.to = n}
From(n) == {e \in graph.edges : e.from = n}

-----------------------------------------------------------------------------
(* validateV3GraphConstraints                                              *)

IsRemote(n) == graph.type[n] = "remote"

EdgesConnect == \A e \in graph.edges : e.from \in Nodes /\ e.to \in Nodes

ConditionEdges ==
    \A n \in Nodes : graph.type[n] = "condition" =>
        /\ Cardinality(From(n)) = 2
        /\ {e.kind : e \in From(n)} = {"cond_true", "cond_false"}

\* Mutant: a node leaves the queue's count with its first edge.
Peels_Early(peeled) == {n \in Nodes : Into(n) = {} \/ \E e \in Into(n) : e.from \in peeled}

\* Nodes whose in-degree is zero once those peeled are gone.
Peels(peeled) == {n \in Nodes : \A e \in Into(n) : e.from \in peeled}
Visited ==
    LET after[k \in 0 .. Cardinality(Nodes)] == IF k = 0 THEN {} ELSE Peels(after[k - 1])
    IN after[Cardinality(Nodes)]

Closed(seen, Step(_)) ==
    LET after[k \in 0 .. Cardinality(Nodes)] ==
            IF k = 0 THEN seen ELSE after[k - 1] \cup UNION {Step(n) : n \in after[k - 1]}
    IN after[Cardinality(Nodes)]
Parents(n) == {e.from : e \in Into(n)}
Children(n) == {e.to : e \in From(n)}
CanReach(target) == Closed(Parents(target), Parents)
ReachableFrom(start) == Closed({start}, Children)

Joins == {n \in Nodes : graph.type[n] = "parallel.join"}
AlwaysEdges(n) == {e \in From(n) : e.kind = "always"}
RemoteInRegion ==
    \E join \in Joins : \E root \in CanReach(join) :
        /\ Cardinality(AlwaysEdges(root)) >= 2
        /\ \E e \in AlwaysEdges(root) : \E n \in (ReachableFrom(e.to) \cap CanReach(join)) \ {join} :
             IsRemote(n)

Code ==
    IF Nodes = {} THEN "GRAPH_NODE_MISSING"
    ELSE IF ~EdgesConnect THEN "GRAPH_EDGE_INVALID"
    ELSE IF ~ConditionEdges THEN "CONDITION_EDGE_CONSTRAINTS"
    ELSE IF Visited # Nodes THEN "GRAPH_CYCLE_DETECTED"
    ELSE IF RemoteInRegion THEN "PARALLEL_REMOTE_NOT_SUPPORTED"
    ELSE "OK"

-----------------------------------------------------------------------------
(* The worker.                                                             *)

Idle == [at |-> "idle", steps |-> << >>, pending |-> None]

InitOf(g) ==
    /\ graph = g
    /\ row = [status |-> "queued", attempt |-> 0, steps |-> << >>, block |-> None, pending |-> None,
              queued |-> TRUE]
    /\ worker = Idle /\ crashes = 0

Init == \E g \in Graphs : InitOf(g)

Succeeded(n) == n \in ToSet(worker.steps)

\* Mutant: a condition's edge is looked at before the condition is.
edgeStatus_Unfinished(e) ==
    \/ e.kind = "always"
    \/ e.kind = "cond_true" /\ graph.outcome[e.from] = TRUE
    \/ e.kind = "cond_false" /\ graph.outcome[e.from] = FALSE

edgeStatus(e) ==
    /\ Succeeded(e.from)
    /\ \/ e.kind = "always"
       \/ e.kind = "cond_true" /\ graph.outcome[e.from] = TRUE
       \/ e.kind = "cond_false" /\ graph.outcome[e.from] = FALSE

\* Mutant: one edge that is satisfied is enough.
nodeReady_AnyEdge(n) == ~Succeeded(n) /\ (Into(n) = {} \/ \E e \in Into(n) : edgeStatus(e))

nodeReady(n) == ~Succeeded(n) /\ \A e \in Into(n) : edgeStatus(e)

Ready == {n \in Nodes : nodeReady(n)}

\* Mutant: the first that the map lists.
First_Unsorted == Ready

First == {n \in Ready : \A m \in Ready : n <= m}

\* A new attempt starts with no steps, a job of a running run goes on.
Starts ==
    /\ worker.at = "idle" /\ row.queued /\ row.status = "queued"
    /\ row' = [row EXCEPT !.status = "running", !.attempt = @ + 1, !.steps = << >>, !.pending = None]
    /\ worker' = [at |-> "check", steps |-> << >>, pending |-> None]
    /\ UNCHANGED <<graph, crashes>>

Resumes ==
    /\ worker.at = "idle" /\ row.queued /\ row.status = "running" /\ row.block = None
    /\ worker' = [at |-> "check", steps |-> row.steps, pending |-> row.pending]
    /\ UNCHANGED <<graph, row, crashes>>

Retried(r) ==
    IF r.attempt < MaxAttempts
    THEN [r EXCEPT !.status = "queued", !.block = None, !.queued = TRUE]
    ELSE [r EXCEPT !.status = "failed", !.block = None, !.queued = FALSE]

\* The graph is checked by every job.
ChecksGraph ==
    /\ worker.at = "check"
    /\ \/ Code = "OK" /\ worker' = [worker EXCEPT !.at = "loop"] /\ UNCHANGED row
       \/ Code # "OK" /\ row' = Retried(row) /\ worker' = Idle
    /\ UNCHANGED <<graph, crashes>>

\* A job that finds its run blocked or over has nothing to do.
Returns ==
    /\ worker.at = "idle" /\ row.queued
    /\ row.status \in {"succeeded", "failed"} \/ row.block # None
    /\ row' = [row EXCEPT !.queued = FALSE] /\ UNCHANGED <<graph, worker, crashes>>

Pushes(n, pending) == worker' = [at |-> "save", steps |-> Append(worker.steps, n), pending |-> pending]

\* Conditions, joins and tasks that run in the worker.
RunsHere ==
    /\ worker.at = "loop"
    /\ \E n \in First : ~IsRemote(n) /\ Pushes(n, worker.pending)
    /\ UNCHANGED <<graph, row, crashes>>

\* An executor does not ask whose result is pending.
ConsumesResult ==
    /\ worker.at = "loop" /\ worker.pending # None
    /\ \E n \in First : IsRemote(n) /\ Pushes(n, None)
    /\ UNCHANGED <<graph, row, crashes>>

Blocks ==
    /\ worker.at = "loop" /\ worker.pending = None
    /\ \E n \in First :
         /\ IsRemote(n)
         /\ row' = [row EXCEPT !.block = n, !.steps = worker.steps, !.pending = None, !.queued = FALSE]
    /\ worker' = Idle /\ UNCHANGED <<graph, crashes>>

\* Mutant: the result that was used stays in the row.
checkpointProgress_KeepsPending ==
    /\ worker.at = "save" /\ worker' = [worker EXCEPT !.at = "loop"]
    /\ row' = [row EXCEPT !.steps = worker.steps]
    /\ UNCHANGED <<graph, crashes>>

checkpointProgress ==
    /\ worker.at = "save" /\ worker' = [worker EXCEPT !.at = "loop"]
    /\ row' = [row EXCEPT !.steps = worker.steps, !.pending = worker.pending]
    /\ UNCHANGED <<graph, crashes>>

Finishes ==
    /\ worker.at = "loop" /\ First = {}
    /\ row' = [row EXCEPT !.status = "succeeded", !.steps = worker.steps, !.queued = FALSE]
    /\ worker' = Idle /\ UNCHANGED <<graph, crashes>>

\* A node fails.
Throws ==
    /\ worker.at = "loop"
    /\ \E n \in First : graph.type[n] \in {"task", "remote"}
    /\ row' = Retried(row) /\ worker' = Idle /\ UNCHANGED <<graph, crashes>>

\* The continuation worker.
ResultArrives ==
    /\ row.status = "running" /\ row.block # None
    /\ row' = [row EXCEPT !.pending = row.block, !.block = None, !.queued = TRUE]
    /\ UNCHANGED <<graph, worker, crashes>>

RemoteFails ==
    /\ row.status = "running" /\ row.block # None
    /\ row' = Retried(row) /\ UNCHANGED <<graph, worker, crashes>>

\* The job of a worker that died is taken again.
Dies ==
    /\ worker.at # "idle" /\ crashes < MaxCrashes /\ crashes' = crashes + 1
    /\ worker' = Idle /\ UNCHANGED <<graph, row>>

Next ==
    \/ Starts \/ Resumes \/ ChecksGraph \/ Returns \/ RunsHere \/ ConsumesResult \/ Blocks \/ checkpointProgress
    \/ Finishes \/ Throws \/ ResultArrives \/ RemoteFails \/ Dies

Spec == Init /\ [][Next]_vars

-----------------------------------------------------------------------------
\* Which nodes a graph runs is fixed by its conditions, whatever order, block
\* or death: those whose every edge comes from one of them and is met.
Met(e) ==
    \/ e.kind = "always"
    \/ e.kind = "cond_true" /\ graph.outcome[e.from] = TRUE
    \/ e.kind = "cond_false" /\ graph.outcome[e.from] = FALSE
ConditionsAllow ==
    CHOOSE ran \in SUBSET Nodes : \A n \in Nodes : n \in ran <=> \A e \in Into(n) : e.from \in ran /\ Met(e)

\* A succeeded run has executed exactly the nodes that its conditions allow,
\* each once and after all that it depends on.
RunsWhatConditionsAllow ==
    row.status = "succeeded" =>
        /\ ToSet(row.steps) = ConditionsAllow
        /\ Len(row.steps) = Cardinality(ConditionsAllow)
        /\ \A i \in DOMAIN row.steps : \A e \in Into(row.steps[i]) :
              \E j \in 1 .. i - 1 : row.steps[j] = e.from

\* The steps that a run keeps are never ahead of a node they depend on, and
\* no node is in them twice.
StepsAreOrdered ==
    LET ordered(steps) ==
            \A i \in DOMAIN steps : /\ \A e \in Into(steps[i]) : \E j \in 1 .. i - 1 : steps[j] = e.from
                                    /\ \A j \in 1 .. i - 1 : steps[j] # steps[i]
    IN ordered(row.steps) /\ ordered(worker.steps)

\* Whichever node consumes a result is the one that was sent for it, though
\* no executor compares them: the node that blocked is ready first again.
ResultGoesToItsNode ==
    worker.at = "loop" /\ worker.pending # None => First = {worker.pending}

\* The check that peels a graph finds every cycle, and no cycle where there
\* is none.
CyclesAreFound ==
    worker.at = "check" /\ EdgesConnect /\ ConditionEdges /\ Nodes # {} =>
        (Code = "GRAPH_CYCLE_DETECTED" <=> \E n \in Nodes : n \in CanReach(n))

\* A node that waits for the gateway has no unfinished node beside it in a
\* parallel region: neither needs the other and both lead to one join.
RemoteIsNotParallel ==
    row.block # None =>
        ~\E join \in Joins, n \in Nodes \ (ToSet(row.steps) \cup {row.block}) :
            /\ {row.block, n} \subseteq CanReach(join)
            /\ n \notin CanReach(row.block) /\ row.block \notin CanReach(n)
=============================================================================
