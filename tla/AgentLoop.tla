----------------------------- MODULE AgentLoop -----------------------------
(***************************************************************************)
(* The agent loop of @vespid/agent-runtime: a model is asked for one       *)
(* envelope per turn, a tool it names runs in the loop or, in "executor"   *)
(* mode, is dispatched while the run waits, and the run's runtime keeps    *)
(* the calls and results so that a later job of the attempt can go on: one *)
(* that is delivered again, or one that brings the remote result.  The job *)
(* may die at any step; what is left is the last checkpoint.  A node that  *)
(* fails ends the attempt, and the next one begins with nothing.  team.map *)
(* runs its tasks in the loop, several at a time.                          *)
(*                                                                         *)
(* A message is what the history says of it: the model's view is rebuilt   *)
(* from the history when a job starts.  maxRuntimeChars is a number of     *)
(* history entries (MaxHistory).                                           *)
(***************************************************************************)
EXTENDS Naturals, Sequences, FiniteSets, Functions

CONSTANTS
    Allow,          \* config.tools.allow: tools among "connector", "shell", "team.map"
    Team,           \* a teammate's id to the tools its own configuration allows
    Tasks,          \* the tasks one team.map is given: a sequence of teammates
    MaxParallel,    \* how many of them run at once
    MaxTurns, MaxToolCalls, MaxHistory,
    MaxAttempts,    \* of the run
    MaxDeaths,      \* jobs that die: a bound
    None

VARIABLES
    mode,           \* config.tools.execution
    run,            \* "queued" (for an attempt), "running", "blocked", "succeeded", "failed",
                    \* or "resumable": running in the row, and a job is to go on with it
    attempts, deaths,
    saved,          \* runtime as stored: the loop's state, and pendingRemoteResult
    loop,           \* the state in the memory of the job
    pc,             \* where the job is
    call,           \* the tool call being made
    team,           \* the team.map being run
    ran,            \* how often the tool of a call ran in the loop, in this attempt
    asked,          \* the call the run is blocked on
    used,           \* which teammate used which tool
    orphans         \* tasks of a team.map that was given up, and the job they belong to

vars == <<mode, run, attempts, deaths, saved, loop, pc, call, team, ran, asked, used, orphans>>

TeamTools == {"team.delegate", "team.map"}
ToolNames == {"connector", "shell", "memory", "team.map", "team.delegate"}

CallNumbers == 1..MaxToolCalls

(* A call, an entry of the history, and what a job or the store knows of the loop. *)
Call == [tool : ToolNames, index : CallNumbers]
Entry == [kind : {"tool_call", "tool_result"}, tool : ToolNames, callIndex : CallNumbers, of : CallNumbers]
State == [toolCalls : 0..MaxToolCalls, turns : Nat, history : Seq(Entry),
          results : UNION {[known -> [tool : ToolNames, of : CallNumbers]] : known \in SUBSET CallNumbers},
          pending : Call \cup {None}]

Fresh == [toolCalls |-> 0, turns |-> 0, history |-> <<>>, results |-> <<>>, pending |-> None]

Called(c)      == [kind |-> "tool_call", tool |-> c.tool, callIndex |-> c.index, of |-> c.index]
Answered(c, i) == [kind |-> "tool_result", tool |-> c.tool, callIndex |-> c.index, of |-> i]

-----------------------------------------------------------------------------
(* The oldest entries go first, and with them the results no entry names. *)
trimAgentState(s) ==
    IF Len(s.history) <= MaxHistory THEN s
    ELSE LET kept == SubSeq(s.history, Len(s.history) - MaxHistory + 1, Len(s.history))
             keep == {kept[i].callIndex : i \in DOMAIN kept}
                       \cup IF s.pending = None THEN {} ELSE {s.pending.index}
         IN  [s EXCEPT !.history = kept, !.results = Restrict(s.results, DOMAIN s.results \cap keep)]

(* persistState: trimmed in memory; with a checkpoint it is stored as well. *)
persistState(s) == loop' = trimAgentState(s) /\ UNCHANGED saved

checkpointRuntime(s) ==
    /\ loop' = trimAgentState(s)
    /\ saved' = [state |-> trimAgentState(s), remote |-> None]

(* A result is pushed on the history and kept under its call's index. *)
storeResult(s, c, i) ==
    [s EXCEPT !.history = Append(s.history, Answered(c, i)),
              !.results = [k \in DOMAIN s.results \cup {c.index} |->
                              IF k = c.index THEN [tool |-> c.tool, of |-> i] ELSE s.results[k]]]

jobEnds == pc' = "idle" /\ loop' = None /\ call' = None /\ team' = None

(* A node that fails: another attempt, or none.  The row keeps its output *)
(* until that attempt begins.                                             *)
Retried == IF attempts < MaxAttempts THEN "queued" ELSE "failed"

failed == run' = Retried /\ jobEnds /\ UNCHANGED saved

-----------------------------------------------------------------------------
Init ==
    /\ mode \in {"cloud", "executor"}
    /\ run = "queued" /\ attempts = 0 /\ deaths = 0
    /\ saved = [state |-> None, remote |-> None]
    /\ loop = None /\ pc = "idle" /\ call = None /\ team = None
    /\ ran = [i \in CallNumbers |-> 0]
    /\ asked = None
    /\ used = {} /\ orphans = {}

(* markWorkflowRunRunning: an attempt begins, and forgets the one before. *)
attemptBegins ==
    /\ run = "queued"
    /\ run' = "running" /\ attempts' = attempts + 1
    /\ saved' = [state |-> None, remote |-> None]
    /\ loop' = Fresh /\ pc' = "turn"
    /\ ran' = [i \in CallNumbers |-> 0]
    /\ UNCHANGED <<mode, deaths, call, team, asked, used, orphans>>

runAgentLoop_Afresh ==
    /\ run = "resumable"
    /\ run' = "running"
    /\ loop' = IF saved.remote = None THEN Fresh ELSE saved.state
    /\ pc' = IF saved.remote = None THEN "turn" ELSE "resume"
    /\ UNCHANGED <<mode, attempts, deaths, saved, call, team, ran, asked, used, orphans>>

(* runAgentLoop, in a later job of the attempt: the state of an earlier job, *)
(* or a fresh one.                                                           *)
runAgentLoop ==
    /\ run = "resumable"
    /\ run' = "running"
    /\ loop' = IF saved.state = None THEN Fresh ELSE saved.state
    /\ pc' = IF saved.remote = None THEN "turn" ELSE "resume"
    /\ UNCHANGED <<mode, attempts, deaths, saved, call, team, ran, asked, used, orphans>>

resumeRemote_KeepsRemote ==
    /\ pc = "resume"
    /\ LET s == trimAgentState([storeResult(loop, loop.pending, saved.remote.of) EXCEPT !.pending = None])
       IN  loop' = s /\ saved' = [saved EXCEPT !.state = s]
    /\ pc' = "turn"
    /\ UNCHANGED <<mode, run, attempts, deaths, call, team, ran, asked, used, orphans>>

(* The remote result becomes the result of the call that waits for one. *)
resumeRemote ==
    /\ pc = "resume"
    /\ IF loop.pending = None
       THEN failed
       ELSE /\ checkpointRuntime([storeResult(loop, loop.pending, saved.remote.of) EXCEPT !.pending = None])
            /\ pc' = "turn"
            /\ UNCHANGED <<run, call, team>>
    /\ UNCHANGED <<mode, attempts, deaths, ran, asked, used, orphans>>

(* The checks before a turn: the deadline of this job, and the turns used. *)
stopBeforeTurn ==
    /\ pc = "turn"
    /\ failed
    /\ UNCHANGED <<mode, attempts, deaths, ran, asked, used, orphans>>

MayAsk == pc = "turn" /\ loop.turns < MaxTurns

Turned == [loop EXCEPT !.turns = @ + 1]

(* No credits, no answer, or an answer that is no envelope. *)
turnFails ==
    /\ MayAsk
    /\ failed
    /\ UNCHANGED <<mode, attempts, deaths, ran, asked, used, orphans>>

final ==
    /\ MayAsk
    /\ run' = "succeeded" /\ pc' = "idle"
    /\ saved' = [state |-> None, remote |-> None]
    /\ loop' = None
    /\ UNCHANGED <<mode, attempts, deaths, call, team, ran, asked, used, orphans>>

MayCall(tool) == tool \in Allow /\ loop.toolCalls < MaxToolCalls

toolCall_FromHistory(tool) ==
    /\ MayAsk
    /\ LET made == Cardinality({i \in DOMAIN loop.history : loop.history[i].kind = "tool_call"})
           c    == [tool |-> tool, index |-> made + 1]
       IN  /\ tool \in Allow /\ made < MaxToolCalls
           /\ call' = c
           /\ persistState([Turned EXCEPT !.toolCalls = c.index, !.history = Append(@, Called(c))])
    /\ pc' = "tool"
    /\ UNCHANGED <<mode, run, attempts, deaths, team, ran, asked, used, orphans>>

(* The model names a tool: the call gets the next index and is recorded.  A  *)
(* result kept under that index would be reused; an index is stored with its *)
(* result, so none is.                                                       *)
toolCall(tool) ==
    /\ MayAsk /\ MayCall(tool)
    /\ LET c == [tool |-> tool, index |-> loop.toolCalls + 1]
       IN  /\ call' = c
           /\ persistState([Turned EXCEPT !.toolCalls = c.index, !.history = Append(@, Called(c))])
    /\ pc' = "tool"
    /\ UNCHANGED <<mode, run, attempts, deaths, team, ran, asked, used, orphans>>

(* A tool outside the list, or one call too many. *)
refuseCall(tool) ==
    /\ MayAsk /\ ~MayCall(tool)
    /\ failed
    /\ UNCHANGED <<mode, attempts, deaths, ran, asked, used, orphans>>

(* shell.run is denied by the organization's settings. *)
denyShell ==
    /\ pc = "tool" /\ call.tool = "shell"
    /\ failed
    /\ UNCHANGED <<mode, attempts, deaths, ran, asked, used, orphans>>

Blocks(tool) == mode = "executor" /\ tool \in {"connector", "shell"}

(* The tool has run in the loop, and nothing says so yet. *)
executeTool ==
    /\ pc = "tool" /\ ~Blocks(call.tool) /\ call.tool # "team.map"
    /\ ran' = [ran EXCEPT ![call.index] = @ + 1]
    /\ pc' = "result"
    /\ UNCHANGED <<mode, run, attempts, deaths, saved, loop, call, team, asked, used, orphans>>

toolResult ==
    /\ pc = "result"
    /\ checkpointRuntime(storeResult(loop, call, call.index))
    /\ call' = None /\ pc' = "turn"
    /\ UNCHANGED <<mode, run, attempts, deaths, team, ran, asked, used, orphans>>

toolBlocks_KeepsOlder ==
    /\ pc = "tool" /\ Blocks(call.tool)
    /\ checkpointRuntime([loop EXCEPT !.pending = IF @ = None THEN call ELSE @])
    /\ pc' = "dispatch"
    /\ UNCHANGED <<mode, run, attempts, deaths, call, team, ran, asked, used, orphans>>

(* The tool is to run elsewhere: the call is stored as the pending one. *)
toolBlocks ==
    /\ pc = "tool" /\ Blocks(call.tool)
    /\ checkpointRuntime([loop EXCEPT !.pending = call])
    /\ pc' = "dispatch"
    /\ UNCHANGED <<mode, run, attempts, deaths, call, team, ran, asked, used, orphans>>

(* The worker has sent the request under the call's own node id, and blocks the run on it. *)
runBlocked ==
    /\ pc = "dispatch"
    /\ run' = "blocked" /\ asked' = call.index
    /\ pc' = "idle" /\ loop' = None /\ call' = None
    /\ UNCHANGED <<mode, attempts, deaths, saved, team, ran, used, orphans>>

(* No executor takes the request. *)
dispatchFails ==
    /\ pc = "dispatch"
    /\ failed
    /\ UNCHANGED <<mode, attempts, deaths, ran, asked, used, orphans>>

(* The result of the request the run is blocked on is stored, and a job is *)
(* to go on.                                                               *)
remoteResult ==
    /\ run = "blocked"
    /\ run' = "resumable"
    /\ saved' = [saved EXCEPT !.remote = [of |-> asked]]
    /\ asked' = None
    /\ UNCHANGED <<mode, attempts, deaths, loop, pc, call, team, ran, used, orphans>>

(* applyRemoteFailure: a failed result, or the deadline, fails the node. *)
remoteFails ==
    /\ run = "blocked"
    /\ run' = Retried
    /\ asked' = None
    /\ UNCHANGED <<mode, attempts, deaths, saved, loop, pc, call, team, ran, used, orphans>>

(* The process of the job dies, and its teammates' tasks with it. *)
crash ==
    /\ run = "running" /\ deaths < MaxDeaths
    /\ run' = "resumable" /\ jobEnds
    /\ deaths' = deaths + 1
    /\ orphans' = {}
    /\ UNCHANGED <<mode, attempts, saved, ran, asked, used>>

intersectAllowlist_Own(mate) == Team[mate] \ TeamTools

-----------------------------------------------------------------------------
(* team.map: the tools of a teammate are its own, within the node's policy. *)
intersectAllowlist(mate) == (Team[mate] \cap Allow) \ TeamTools

Workers == IF MaxParallel < Len(Tasks) THEN MaxParallel ELSE Len(Tasks)

mapStarts ==
    /\ pc = "tool" /\ call.tool = "team.map"
    /\ team' = [next |-> 1, doing |-> {}, outputs |-> [i \in DOMAIN Tasks |-> None]]
    /\ pc' = "team"
    /\ UNCHANGED <<mode, run, attempts, deaths, saved, loop, call, ran, asked, used, orphans>>

takeTask_All ==
    /\ pc = "team" /\ team.next <= Len(Tasks)
    /\ team' = [team EXCEPT !.next = @ + 1, !.doing = @ \cup {team.next}]
    /\ UNCHANGED <<mode, run, attempts, deaths, saved, loop, pc, call, ran, asked, used, orphans>>

(* runWithConcurrency: a worker that is free takes the next task. *)
takeTask ==
    /\ pc = "team"
    /\ Cardinality(team.doing) < Workers /\ team.next <= Len(Tasks)
    /\ team' = [team EXCEPT !.next = @ + 1, !.doing = @ \cup {team.next}]
    /\ UNCHANGED <<mode, run, attempts, deaths, saved, loop, pc, call, ran, asked, used, orphans>>

(* A delegate's loop calls a tool its list holds. *)
delegateCalls(i, tool) ==
    /\ pc = "team" /\ i \in team.doing
    /\ tool \in intersectAllowlist(Tasks[i])
    /\ used' = used \cup {<<Tasks[i], tool>>}
    /\ UNCHANGED <<mode, run, attempts, deaths, saved, loop, pc, call, team, ran, asked, orphans>>

(* runDelegate: the output of the task, at the task's place. *)
runDelegate(i, status) ==
    /\ pc = "team" /\ i \in team.doing
    /\ team' = [team EXCEPT !.doing = @ \ {i}, !.outputs[i] = [mate |-> Tasks[i], status |-> status]]
    /\ UNCHANGED <<mode, run, attempts, deaths, saved, loop, pc, call, ran, asked, used, orphans>>

(* A delegate that throws fails the node, and stops no other: the tasks in  *)
(* work and the ones not yet taken are done all the same.                   *)
delegateThrows(i) ==
    /\ pc = "team" /\ i \in team.doing
    /\ orphans' = orphans \cup {<<attempts, j>> : j \in (team.doing \cup team.next..Len(Tasks)) \ {i}}
    /\ failed
    /\ UNCHANGED <<mode, attempts, deaths, ran, asked, used>>

orphanEnds(o) ==
    /\ o \in orphans
    /\ orphans' = orphans \ {o}
    /\ used' = used \cup {<<Tasks[o[2]], tool>> : tool \in intersectAllowlist(Tasks[o[2]])}
    /\ UNCHANGED <<mode, run, attempts, deaths, saved, loop, pc, call, team, ran, asked>>

mapEnds ==
    /\ pc = "team" /\ team.doing = {} /\ team.next > Len(Tasks)
    /\ ran' = [ran EXCEPT ![call.index] = @ + 1]
    /\ team' = None /\ pc' = "result"
    /\ UNCHANGED <<mode, run, attempts, deaths, saved, loop, call, asked, used, orphans>>

-----------------------------------------------------------------------------
Next ==
    \/ attemptBegins \/ runAgentLoop \/ resumeRemote \/ stopBeforeTurn \/ turnFails \/ final
    \/ \E tool \in ToolNames : toolCall(tool) \/ refuseCall(tool)
    \/ denyShell \/ executeTool \/ toolResult
    \/ toolBlocks \/ runBlocked \/ dispatchFails \/ remoteResult \/ remoteFails
    \/ mapStarts \/ takeTask \/ mapEnds
    \/ \E i \in DOMAIN Tasks :
          \/ \E tool \in ToolNames : delegateCalls(i, tool)
          \/ \E status \in {"succeeded", "failed"} : runDelegate(i, status)
          \/ delegateThrows(i)
    \/ \E o \in orphans : orphanEnds(o)
    \/ crash

Spec == Init /\ [][Next]_vars

-----------------------------------------------------------------------------
(* What a job or the store knows of the loop. *)
States == {s \in {saved.state, loop} : s # None}

(* Every result the loop keeps, in its history or under a call's index, is   *)
(* the result of that call and of its tool, whichever job it came from: the  *)
(* remote result is given to the pending call without comparing requests     *)
(* (agent-loop.ts:497-556).                                                  *)
ResultsBelong ==
    \A s \in States :
        /\ \A i \in DOMAIN s.history : s.history[i].of = s.history[i].callIndex
        /\ \A k \in DOMAIN s.results : s.results[k].of = k
        /\ \A i, j \in DOMAIN s.history :
              s.history[i].callIndex = s.history[j].callIndex => s.history[i].tool = s.history[j].tool

(* The history the model is shown tells each call once, in the order they    *)
(* were made, and a result right after its call; only the first entry may    *)
(* have lost its call to the trimming, and a call its result to a crash      *)
(* (trimAgentState, agent-loop.ts:238-285).                                  *)
HistoryTellsTheCalls ==
    \A s \in States : \A i \in 2..Len(s.history) :
        LET before == s.history[i - 1]
            entry  == s.history[i]
        IN  IF entry.kind = "tool_call" THEN before.callIndex < entry.callIndex
            ELSE before.kind = "tool_call" /\ before.callIndex = entry.callIndex

(* A job that starts with a remote result finds the call it answers: a      *)
(* crash between the dispatch and the blocking of the run leaves no result   *)
(* without its call, so REMOTE_RESULT_UNEXPECTED is never raised.            *)
RemoteIsExpected ==
    saved.remote # None => /\ saved.state # None
                           /\ saved.state.pending # None

KnownStays == \A i \in CallNumbers : ran'[i] > ran[i] => saved.state = None \/ saved.state.toolCalls < i

(* However often the jobs of an attempt die and start again, a call never    *)
(* runs again in the loop once a checkpoint of the attempt knows of it,      *)
(* whatever the trimming forgot.                                             *)
KnownCallsStay == [][KnownStays]_vars

(* The tasks of a team.map end before it does, at most MaxParallel of them   *)
(* run at once, and each output stands at the place of its own task.         *)
MapIsOrdered ==
    team # None =>
        /\ Cardinality(team.doing) <= MaxParallel
        /\ pc = "team"
        /\ \A i \in DOMAIN Tasks : team.outputs[i] # None => team.outputs[i].mate = Tasks[i]

(* Nothing of a node still runs when its run has ended.                      *)
NothingRunsOn == run \in {"succeeded", "failed"} => orphans = {}

(* Delegating never widens what the node's policy allows, and a delegate     *)
(* does not delegate (intersectAllowlist, team-tools.ts:86-91).              *)
PolicyBoundsTheTeam ==
    \A u \in used : u[2] \in Team[u[1]] \cap Allow /\ u[2] \notin TeamTools
=============================================================================
