---------------------------- MODULE SessionTurn -----------------------------
(***************************************************************************)
(* The messages of ONE interactive session: the edge that puts them on the *)
(* brains' stream (apps/gateway/src/edge/server.ts), the brains that run a *)
(* turn for each (handleSessionSend and the loop around it in              *)
(* apps/gateway/src/brain/runtime.ts), and the executors that open the     *)
(* session and run the turns (apps/node-agent/src/runtime.ts).             *)
(*                                                                         *)
(* A brain handles one record of the stream at a time and awaits it.  What *)
(* an executor says, and whether it has room (module Capacity), is left    *)
(* open; the events sent to clients while a turn runs are left out.        *)
(***************************************************************************)
EXTENDS Integers, SequencesExt

CONSTANTS
    Brains, NoBrain,
    Executors, NoExecutor,
    Managed,        \* the operator's executors; the others are an organization's
    Selectors,      \* pools a session may ask for ("byon" if it asks for none)
    Refusals,       \* the engine, capacity, quota or OAuth may be refused
    MaxTurns,       \* limits.maxTurns of the session
    MaxMsgs,        \* bound: messages sent
    MaxExtras,      \* bound: messages sent again with their idempotency key,
                    \* resets and cancels asked for
    MaxCrashes,     \* bound: brains that die, and locks that run out under a
                    \* brain at work
    MaxDrops,       \* bound: executors that disconnect or restart
    MaxTogether     \* bound: extras, crashes and drops in all

Msgs == 1..MaxMsgs

ASSUME SessionAssumption ==
    /\ NoBrain \notin Brains /\ NoExecutor \notin Executors
    /\ Managed \subseteq Executors
    /\ Selectors \subseteq {"byon", "managed"}
    /\ Refusals \in BOOLEAN
    /\ MaxTurns \in Nat \ {0}
    /\ MaxMsgs \in Nat /\ MaxExtras \in Nat
    /\ MaxCrashes \in Nat /\ MaxDrops \in Nat /\ MaxTogether \in Nat

VARIABLES
    \* gateway:bus:to_brain: the records no brain has read yet.
    stream,
    \* session:brain:<id> in Redis; of the session's row the pinned executor,
    \* and the pool of its selector, which never changes.
    lock, pin, selector,
    \* The brains: control point, the records read and not finished, and the
    \* executor that was pinned and the one selected.
    pc, batch, prior, exec,
    \* What the edges still have to hand to each executor; who is connected.
    toExec, online,
    \* The executors: the session's context, and the turns that are running.
    ctx, running,
    \* gateway:bus:reply:<requestId>:open and :<requestId>.
    openReply, turnReply,
    \* For each message: how often it was put on the stream, how often it was
    \* answered, and whether with an agent_final; what executors completed.
    posted, answers, final, completed,
    \* The brains at work whose lock ran out under them, or was deleted by one
    \* whose own had.
    overran,
    \* What the other bounds count.
    controls, crashes, drops

busVars    == <<stream, posted, controls>>
brainVars  == <<pc, batch, prior, exec>>
sharedVars == <<lock, overran, pin, selector>>
answerVars == <<answers, final>>
execVars   == <<toExec, online, ctx, running, openReply, turnReply, completed>>
faultVars  == <<crashes, drops>>
vars == <<busVars, brainVars, sharedVars, answerVars, execVars, faultVars>>

Record == [type : {"send", "reset", "cancel"}, no : Nat]
ToExecMsg == [type : {"open", "turn"}, no : Nat]
Send(m) == [type |-> "send", no |-> m]

Pcs == {"idle", "load", "pinned", "select", "pin", "open", "opening",
        "turn", "waiting", "finally"}

\* A session context of an executor: which opening it stems from (0: none),
\* its active turn (0: none), and how many user messages its history has.
Context == [gen : Nat, active : Nat, users : Nat]
NoContext == [gen |-> 0, active |-> 0, users |-> 0]

RunningTurn == [no : Nat, gen : Nat, live : BOOLEAN]

Init ==
    /\ stream = << >> /\ posted = [m \in Msgs |-> 0] /\ controls = 0
    /\ lock = NoBrain /\ overran = {} /\ pin = NoExecutor /\ selector \in Selectors
    /\ pc = [b \in Brains |-> "idle"] /\ batch = [b \in Brains |-> << >>]
    /\ prior = [b \in Brains |-> NoExecutor] /\ exec = [b \in Brains |-> NoExecutor]
    /\ toExec = [e \in Executors |-> << >>] /\ online = Executors
    /\ ctx = [e \in Executors |-> NoContext] /\ running = [e \in Executors |-> {}]
    /\ openReply = [m \in Msgs |-> "none"] /\ turnReply = [m \in Msgs |-> "none"]
    /\ answers = [m \in Msgs |-> 0] /\ final = [m \in Msgs |-> FALSE]
    /\ completed = {} /\ crashes = 0 /\ drops = 0

-----------------------------------------------------------------------------
(* The edge: the user's event is stored under its idempotency key, and its *)
(* number names the request.  A repeated message finds the stored event    *)
(* and is put on the stream again.                                         *)

\* What the bounds MaxExtras and MaxTogether still allow.
Repeats == {m \in Msgs : posted[m] > 1}
Extras == Cardinality(Repeats) + controls
OneMore == Extras + crashes + drops < MaxTogether

Post(m) ==
    /\ posted[m] = 0 \/ (posted[m] = 1 /\ Extras < MaxExtras /\ OneMore)
    /\ \A k \in Msgs : k < m => posted[k] > 0
    /\ posted' = [posted EXCEPT ![m] = @ + 1]
    /\ stream' = Append(stream, Send(m))
    /\ UNCHANGED <<controls, brainVars, sharedVars, answerVars, execVars, faultVars>>

\* session_reset_agent and session_cancel of the client socket.
PostControl(t) ==
    /\ Extras < MaxExtras /\ OneMore /\ controls' = controls + 1
    /\ stream' = Append(stream, [type |-> t, no |-> 0])
    /\ UNCHANGED <<posted, brainVars, sharedVars, answerVars, execVars, faultVars>>

-----------------------------------------------------------------------------
(* The brain's loop.                                                       *)

\* Mutant: the records read stay readable for other brains.
xreadGroupJson_Redelivers(b) ==
    /\ pc[b] = "idle" /\ batch[b] = << >> /\ stream # << >>
    /\ batch' = [batch EXCEPT ![b] = stream]
    /\ UNCHANGED <<stream, posted, controls, pc, prior, exec>>
    /\ UNCHANGED <<sharedVars, answerVars, execVars, faultVars>>

\* All records that are there (COUNT 25), for this consumer only.
xreadGroupJson(b) ==
    /\ pc[b] = "idle" /\ batch[b] = << >> /\ stream # << >>
    /\ batch' = [batch EXCEPT ![b] = stream] /\ stream' = << >>
    /\ UNCHANGED <<posted, controls, pc, prior, exec>>
    /\ UNCHANGED <<sharedVars, answerVars, execVars, faultVars>>

\* b is at a record of type t.
At(b, t) == pc[b] = "idle" /\ batch[b] # << >> /\ Head(batch[b]).type = t

NextRecord(b) == batch' = [batch EXCEPT ![b] = Tail(@)]

\* The number of the message b works on.
Current(b) == Head(batch[b]).no

GoTo(b, p) == pc' = [pc EXCEPT ![b] = p]

\* setAgentSessionPinnedAgent to null; the session lock is not taken.
handleSessionReset(b) ==
    /\ At(b, "reset") /\ NextRecord(b)
    /\ pin' = NoExecutor
    /\ UNCHANGED <<busVars, pc, prior, exec, lock, overran, selector, answerVars, execVars, faultVars>>

\* activeTurnsBySessionId of this brain is empty here: the loop has awaited
\* every handleSessionSend, whose finally block removes its entry.  So the
\* handler returns at its first check.
handleSessionCancel(b) ==
    /\ At(b, "cancel") /\ NextRecord(b)
    /\ UNCHANGED <<busVars, pc, prior, exec, sharedVars, answerVars, execVars, faultVars>>

-----------------------------------------------------------------------------
(* handleSessionSend.                                                      *)

\* SET session:brain:<id> NX failed: the message is dropped.
SendDropped(b) ==
    /\ At(b, "send") /\ lock # NoBrain /\ NextRecord(b)
    /\ UNCHANGED <<busVars, pc, prior, exec, sharedVars, answerVars, execVars, faultVars>>

\* Mutant: the lock is taken without NX.
LockSession_Always(b) ==
    /\ At(b, "send")
    /\ lock' = b /\ GoTo(b, "load")
    /\ UNCHANGED <<busVars, batch, prior, exec, overran, pin, selector, answerVars, execVars, faultVars>>

LockSession(b) ==
    /\ At(b, "send") /\ lock = NoBrain
    /\ lock' = b /\ GoTo(b, "load")
    /\ UNCHANGED <<busVars, batch, prior, exec, overran, pin, selector, answerVars, execVars, faultVars>>

\* The answer to b's message is stored and broadcast, and the handler leaves
\* its try block.
Answer(b, isFinal) ==
    /\ answers' = [answers EXCEPT ![Current(b)] = @ + 1]
    /\ final' = [final EXCEPT ![Current(b)] = @ \/ isFinal]
    /\ GoTo(b, "finally")

failSession(b) == Answer(b, FALSE)

\* The session is read; its engine may not be supported.
getAgentSessionById(b) ==
    /\ pc[b] = "load"
    /\ prior' = [prior EXCEPT ![b] = pin]
    /\ \/ /\ GoTo(b, IF pin = NoExecutor THEN "select" ELSE "pinned")
          /\ UNCHANGED answerVars
       \/ Refusals /\ failSession(b)
    /\ UNCHANGED <<busVars, batch, exec, sharedVars, execVars, faultVars>>

\* selectExecutorForTool of the pinned executor.
SelectPinned(b) ==
    /\ pc[b] = "pinned"
    /\ \/ /\ prior[b] \in online
          /\ exec' = [exec EXCEPT ![b] = prior[b]] /\ GoTo(b, "pin")
          /\ UNCHANGED answerVars
       \/ /\ prior[b] \notin online \/ Refusals
          /\ GoTo(b, "select") /\ UNCHANGED <<exec, answerVars>>
       \/ Refusals /\ failSession(b) /\ UNCHANGED exec
    /\ UNCHANGED <<busVars, batch, prior, sharedVars, execVars, faultVars>>

\* executor.pool of the route an executor has.
Pool(e) == IF e \in Managed THEN "managed" ELSE "byon"

\* The executors that resolveSessionPoolOrder leaves.
Candidates == {e \in online : Pool(e) = selector}

selectSessionExecutor(b) ==
    /\ pc[b] = "select"
    /\ \/ /\ \E e \in Candidates : exec' = [exec EXCEPT ![b] = e]
          /\ GoTo(b, "pin") /\ UNCHANGED answerVars
       \/ /\ Candidates = {} \/ Refusals
          /\ failSession(b) /\ UNCHANGED exec
    /\ UNCHANGED <<busVars, batch, prior, sharedVars, execVars, faultVars>>

\* The pin is written only if it differs from the one that was read.  Then
\* "Sessions are BYON-only in this release."
setAgentSessionPinnedAgent(b) ==
    /\ pc[b] = "pin"
    /\ pin' = IF exec[b] = prior[b] THEN pin ELSE exec[b]
    /\ IF Pool(exec[b]) = "byon" THEN GoTo(b, "open") /\ UNCHANGED answerVars
                                 ELSE failSession(b)
    /\ UNCHANGED <<busVars, batch, prior, exec, lock, overran, selector, execVars, faultVars>>

\* Put a session message for b's turn on the stream of the executor's edge.
ToExecutor(b, t) ==
    toExec' = [toExec EXCEPT ![exec[b]] = Append(@, [type |-> t, no |-> Current(b)])]

SendOpen(b) ==
    /\ pc[b] = "open" /\ GoTo(b, "opening") /\ ToExecutor(b, "open")
    /\ UNCHANGED <<busVars, batch, prior, exec, sharedVars, answerVars, faultVars>>
    /\ UNCHANGED <<online, ctx, running, openReply, turnReply, completed>>

\* waitForJsonReply of the opening, which may time out.
AwaitOpened(b) ==
    /\ pc[b] = "opening"
    /\ \/ openReply[Current(b)] = "ok" /\ GoTo(b, "turn") /\ UNCHANGED answerVars
       \/ openReply[Current(b)] # "ok" /\ failSession(b)
    /\ UNCHANGED <<busVars, batch, prior, exec, sharedVars, execVars, faultVars>>

SendTurn(b) ==
    /\ pc[b] = "turn" /\ GoTo(b, "waiting") /\ ToExecutor(b, "turn")
    /\ UNCHANGED <<busVars, batch, prior, exec, sharedVars, answerVars, faultVars>>
    /\ UNCHANGED <<online, ctx, running, openReply, turnReply, completed>>

\* Mutant: the opening and the turn share one reply key.
AwaitTurn_SharedKey(b) ==
    /\ pc[b] = "waiting"
    /\ Answer(b, turnReply[Current(b)] = "succeeded" \/ openReply[Current(b)] = "ok")
    /\ UNCHANGED <<busVars, batch, prior, exec, sharedVars, execVars, faultVars>>

\* waitForJsonReply of the turn: agent_final, or the error or timeout.
AwaitTurn(b) ==
    /\ pc[b] = "waiting"
    /\ Answer(b, turnReply[Current(b)] = "succeeded")
    /\ UNCHANGED <<busVars, batch, prior, exec, sharedVars, execVars, faultVars>>

\* The handler is over.
Leave(b) ==
    /\ GoTo(b, "idle")
    /\ prior' = [prior EXCEPT ![b] = NoExecutor] /\ exec' = [exec EXCEPT ![b] = NoExecutor]

\* Mutant: the lock is left to expire.
FinallySend_KeepsLock(b) ==
    /\ pc[b] = "finally" /\ Leave(b) /\ NextRecord(b)
    /\ UNCHANGED <<busVars, sharedVars, answerVars, execVars, faultVars>>

\* The lock is deleted, whoever holds it by now.
DeleteLock(b) ==
    /\ lock' = NoBrain
    /\ overran' = (overran \ {b}) \union (IF b \in overran THEN {lock} \ {b, NoBrain} ELSE {})

FinallySend(b) ==
    /\ pc[b] = "finally" /\ Leave(b) /\ NextRecord(b)
    /\ DeleteLock(b)
    /\ UNCHANGED <<busVars, pin, selector, answerVars, execVars, faultVars>>

\* The brain dies.  What it has read stays with its consumer name, which no
\* other process uses; the lock stays until it expires.
BrainDies(b) ==
    /\ pc[b] # "idle" \/ batch[b] # << >>
    /\ crashes < MaxCrashes /\ OneMore /\ crashes' = crashes + 1
    /\ Leave(b) /\ batch' = [batch EXCEPT ![b] = << >>]
    /\ overran' = overran \ {b}
    /\ UNCHANGED <<busVars, lock, pin, selector, answerVars, execVars, drops>>

\* A call of the handler throws: the finally block runs, and the exception
\* ends the loop, and the process with it.
SendThrows(b) ==
    /\ pc[b] # "idle"
    /\ crashes < MaxCrashes /\ OneMore /\ crashes' = crashes + 1
    /\ Leave(b) /\ batch' = [batch EXCEPT ![b] = << >>]
    /\ DeleteLock(b)
    /\ UNCHANGED <<busVars, pin, selector, answerVars, execVars, drops>>

\* Mutant: the lock is set without EX.
LockExpires_Never ==
    /\ lock # NoBrain /\ lock \notin Brains
    /\ lock' = NoBrain
    /\ UNCHANGED <<busVars, brainVars, overran, pin, selector, answerVars, execVars, faultVars>>

\* The lock's 30 seconds pass, whether or not its brain is still at work:
\* nothing renews it, and an opening and a turn are awaited longer.
LockExpires ==
    /\ lock # NoBrain /\ lock' = NoBrain
    /\ \/ pc[lock] = "idle" /\ UNCHANGED <<overran, crashes>>
       \/ /\ pc[lock] # "idle" /\ overran' = overran \union {lock}
          /\ crashes < MaxCrashes /\ OneMore /\ crashes' = crashes + 1
    /\ UNCHANGED <<busVars, brainVars, pin, selector, answerVars, execVars, drops>>

-----------------------------------------------------------------------------
(* The executor's edge and socket, and the executor's session runtime.     *)

\* The i-th message on its way to e is taken.  Messages are handled in the
\* order they come, but an opening has a directory to make first, and later
\* messages may pass it.
Taken(e, i) ==
    /\ i \in 1..Len(toExec[e])
    /\ \A j \in 1..(i - 1) : toExec[e][j].type = "open"
    /\ toExec' = [toExec EXCEPT ![e] = RemoveAt(@, i)]

\* The edge (on turn_final, turn_error, session_opened, or by itself) sets
\* the reply key of a message's opening or turn.
ReplyOpen(m, r) == openReply' = [openReply EXCEPT ![m] = r]
ReplyTurn(m, r) == turnReply' = [turnReply EXCEPT ![m] = r]

brainSide == <<busVars, brainVars, sharedVars, answerVars>>

\* The executor has no socket: the edge answers PINNED_AGENT_OFFLINE, or the
\* message went down with the old socket and nobody answers.
Undelivered(e) ==
    /\ e \notin online /\ Taken(e, 1)
    /\ LET msg == Head(toExec[e]) IN
       \/ msg.type = "open" /\ ReplyOpen(msg.no, "failed") /\ UNCHANGED turnReply
       \/ msg.type = "turn" /\ ReplyTurn(msg.no, "failed") /\ UNCHANGED openReply
       \/ UNCHANGED <<openReply, turnReply>>
    /\ UNCHANGED <<brainSide, online, ctx, running, completed, faultVars>>

\* A new context replaces the one there was, an active turn's included.
openSession(e, i) ==
    /\ e \in online /\ Taken(e, i) /\ toExec[e][i].type = "open"
    /\ ctx' = [ctx EXCEPT ![e] = [gen |-> @.gen + 1, active |-> 0, users |-> 0]]
    /\ ReplyOpen(toExec[e][i].no, "ok")
    /\ UNCHANGED <<brainSide, online, running, turnReply, completed, faultVars>>

\* The directory cannot be made: SESSION_OPEN_FAILED.
openSessionFails(e, i) ==
    /\ Refusals /\ e \in online /\ Taken(e, i) /\ toExec[e][i].type = "open"
    /\ ReplyOpen(toExec[e][i].no, "failed")
    /\ UNCHANGED <<brainSide, online, ctx, running, turnReply, completed, faultVars>>

\* SESSION_NOT_OPEN, TURN_IN_PROGRESS or SESSION_LIMIT_REACHED.
TurnRefused(e) ==
    ctx[e].gen = 0 \/ ctx[e].active # 0 \/ ctx[e].users >= MaxTurns

runTurnRefused(e, i) ==
    /\ e \in online /\ Taken(e, i) /\ toExec[e][i].type = "turn"
    /\ TurnRefused(e) /\ ReplyTurn(toExec[e][i].no, "failed")
    /\ UNCHANGED <<brainSide, online, ctx, running, openReply, completed, faultVars>>

\* A running turn holds the context and the socket it was started with.
runTurn(e, i) ==
    /\ e \in online /\ Taken(e, i) /\ toExec[e][i].type = "turn"
    /\ ~TurnRefused(e)
    /\ ctx' = [ctx EXCEPT ![e] =
           [gen |-> @.gen, active |-> toExec[e][i].no, users |-> @.users + 1]]
    /\ running' = [running EXCEPT ![e] =
           @ \union {[no |-> toExec[e][i].no, gen |-> ctx[e].gen, live |-> TRUE]}]
    /\ UNCHANGED <<brainSide, online, openReply, turnReply, completed, faultVars>>

\* The engine's command returns.  The active turn of the context it started
\* in is cleared, and the result goes to the socket it came from.
runTurnEnds(e, t, ok) ==
    /\ t \in running[e]
    /\ running' = [running EXCEPT ![e] = @ \ {t}]
    /\ ctx' = [ctx EXCEPT ![e].active = IF ctx[e].gen = t.gen THEN 0 ELSE @]
    /\ completed' = IF ok THEN completed \union {t.no} ELSE completed
    /\ IF t.live THEN ReplyTurn(t.no, IF ok THEN "succeeded" ELSE "failed")
                 ELSE UNCHANGED turnReply
    /\ UNCHANGED <<brainSide, toExec, online, openReply, faultVars>>

\* The socket closes; running turns go on, with nobody to tell.
Disconnect(e) ==
    /\ e \in online /\ drops < MaxDrops /\ OneMore /\ drops' = drops + 1
    /\ online' = online \ {e}
    /\ running' = [running EXCEPT ![e] = {[t EXCEPT !.live = FALSE] : t \in @}]
    /\ UNCHANGED <<brainSide, toExec, ctx, openReply, turnReply, completed, crashes>>

\* The executor process restarts; its sessions are in memory only.
Restart(e) ==
    /\ e \in online /\ drops < MaxDrops /\ OneMore /\ drops' = drops + 1
    /\ online' = online \ {e}
    /\ ctx' = [ctx EXCEPT ![e] = NoContext] /\ running' = [running EXCEPT ![e] = {}]
    /\ UNCHANGED <<brainSide, toExec, openReply, turnReply, completed, crashes>>

Connect(e) ==
    /\ e \notin online /\ online' = online \union {e}
    /\ UNCHANGED <<brainSide, toExec, ctx, running, openReply, turnReply>>
    /\ UNCHANGED <<completed, faultVars>>

-----------------------------------------------------------------------------
Edge == (\E m \in Msgs : Post(m)) \/ (\E t \in {"reset", "cancel"} : PostControl(t))

Brain(b) ==
    \/ xreadGroupJson(b) \/ handleSessionReset(b) \/ handleSessionCancel(b)
    \/ SendDropped(b) \/ LockSession(b) \/ getAgentSessionById(b)
    \/ SelectPinned(b) \/ selectSessionExecutor(b) \/ setAgentSessionPinnedAgent(b)
    \/ SendOpen(b) \/ AwaitOpened(b) \/ SendTurn(b) \/ AwaitTurn(b) \/ FinallySend(b)

Executor(e) ==
    \/ Undelivered(e)
    \/ \E i \in 1..Len(toExec[e]) :
           \/ openSession(e, i) \/ openSessionFails(e, i)
           \/ runTurn(e, i) \/ runTurnRefused(e, i)
    \/ \E t \in running[e] : \E ok \in BOOLEAN : runTurnEnds(e, t, ok)
    \/ Disconnect(e) \/ Restart(e) \/ Connect(e)

Next ==
    \/ Edge
    \/ \E b \in Brains : Brain(b) \/ BrainDies(b) \/ SendThrows(b)
    \/ LockExpires
    \/ \E e \in Executors : Executor(e)

Spec == Init /\ [][Next]_vars

\* A brain that can take a step takes one: every wait of it has a timeout.  A
\* key with a time to live expires.  Nothing is assumed of executors.
FairSpec ==
    /\ Spec
    /\ \A b \in Brains : WF_vars(Brain(b))
    /\ WF_vars(LockExpires)

-----------------------------------------------------------------------------
(* Properties.                                                             *)

Replies == {"none", "ok", "succeeded", "failed"}

\* Every variable keeps its type.
TypeOK ==
    /\ stream \in Seq(Record) /\ posted \in [Msgs -> Nat] /\ controls \in Nat
    /\ lock \in Brains \union {NoBrain} /\ overran \subseteq Brains
    /\ pin \in Executors \union {NoExecutor}
    /\ selector \in {"byon", "managed"}
    /\ pc \in [Brains -> Pcs] /\ batch \in [Brains -> Seq(Record)]
    /\ prior \in [Brains -> Executors \union {NoExecutor}]
    /\ exec \in [Brains -> Executors \union {NoExecutor}]
    /\ toExec \in [Executors -> Seq(ToExecMsg)]
    /\ online \subseteq Executors
    /\ ctx \in [Executors -> Context]
    /\ running \in [Executors -> SUBSET RunningTurn]
    /\ openReply \in [Msgs -> Replies] /\ turnReply \in [Msgs -> Replies]
    /\ answers \in [Msgs -> Nat] /\ final \in [Msgs -> BOOLEAN]
    /\ completed \subseteq Nat /\ crashes \in Nat /\ drops \in Nat

\* Two brains work on the session at the same time only if one of them lost the
\* lock to its 30 seconds while it worked, or to the finally block of a brain
\* that had; brains that die with the lock or throw never bring it about
\* (session:brain:<id>, SET NX in handleSessionSend).
OneTurnAtATime ==
    \A a, b \in Brains : pc[a] # "idle" /\ pc[b] # "idle" => a = b \/ overran \intersect {a, b} # {}

\* The client is told agent_final for a message only if some executor really
\* completed a turn for it, whatever replies are late, stale or repeated.
FinalIsGenuine == \A m \in Msgs : final[m] => m \in completed

\* A record of the stream is answered once: a message has no more answers
\* than times it was posted, brains that die and messages repeated included.
AnswersBounded == \A m \in Msgs : answers[m] <= posted[m]

\* The session never stays locked for good, not even after a brain died with
\* the lock (EX lockTtlSec in handleSessionSend).
SessionUnlocks == []<>(lock = NoBrain)

\* Every message the edge accepts gets an answer, agent_final or an error:
\* a handler that ends always leaves the session free for the next message.
\* It needs a single brain that does not die.
Answered == \A m \in Msgs : posted[m] > 0 ~> answers[m] > 0

\* An executor runs one turn of the session at a time (TURN_IN_PROGRESS,
\* "A turn is already running for this session.").
OneTurnPerExecutor == \A e \in Executors : Cardinality(running[e]) <= 1

\* A session runs at most limits.maxTurns turns (SESSION_LIMIT_REACHED,
\* "Session maxTurns reached.").
MaxTurnsKept == Cardinality(completed) <= MaxTurns

\* A message is refused for want of an executor only if none of either pool
\* is connected (the runbook's failover to managed, NO_AGENT_AVAILABLE).
RefusedOnlyIfAllOffline ==
    [][\A b \in Brains :
          pc[b] \in {"select", "pin"} /\ pc'[b] = "finally" => online = {}]_vars
=============================================================================
