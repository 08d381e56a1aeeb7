------------------------- MODULE SessionTurnProofs --------------------------
(***************************************************************************)
(* For every set of brains and executors and every number of messages,     *)
(* crashes and dropped connections: a brain that works on the session owns *)
(* its lock until the 30 seconds run out or a brain whose own did deletes  *)
(* it, and nothing else lets two brains work on the session at once; the   *)
(* client hears agent_final only of turns that were completed.             *)
(***************************************************************************)
EXTENDS SessionTurn, SequenceTheorems, FiniteSetTheorems, TLAPS

\* A brain inside handleSessionSend holds session:brain:<id>, or has lost it
\* while it worked.  The converse is false: a brain that died leaves its lock
\* behind.
LockInv ==
    /\ pc \in [Brains -> Pcs]
    /\ \A b \in Brains : pc[b] # "idle" /\ b \notin overran => lock = b

\* A reply key holds a success only if the turn was completed.
ReplyInv ==
    /\ turnReply \in [Msgs -> Replies] /\ final \in [Msgs -> BOOLEAN]
    /\ \A m \in Msgs : turnReply[m] = "succeeded" => m \in completed
    /\ \A m \in Msgs : final[m] => m \in completed

-----------------------------------------------------------------------------
\* A brain that leaves and deletes the lock keeps LockInv.  If the lock was its
\* own, every other brain at work had lost it; if not, it takes it from its
\* holder, which counts as overrun from then on.
LEMMA DeleteKeepsLock ==
    ASSUME LockInv, NEW b \in Brains, pc[b] # "idle", Leave(b), DeleteLock(b)
    PROVE  LockInv'
<1> USE SessionAssumption
<1>1. pc' = [pc EXCEPT ![b] = "idle"] /\ pc' \in [Brains -> Pcs]
  BY DEF Leave, GoTo, LockInv, Pcs
<1>2. ASSUME NEW c \in Brains, pc'[c] # "idle" PROVE c \in overran'
  <2>1. c # b /\ pc[c] # "idle"
    BY <1>1, <1>2 DEF LockInv
  <2>2. CASE c \in overran
    BY <2>1, <2>2 DEF DeleteLock
  <2>3. CASE c \notin overran
    <3>1. lock = c /\ lock # NoBrain
      BY <2>1, <2>3 DEF LockInv
    <3>2. b \in overran
      BY <2>1, <3>1 DEF LockInv
    <3> QED BY <2>1, <3>1, <3>2 DEF DeleteLock
  <2> QED BY <2>2, <2>3
<1> QED BY <1>1, <1>2 DEF LockInv

\* A step of a brain keeps LockInv: it takes the lock only when it is free
\* and gives it back only when it leaves the handler.
LEMMA BrainLock ==
    ASSUME LockInv, NEW b \in Brains, Brain(b) PROVE LockInv'
<1> USE SessionAssumption
<1> USE DEF LockInv, Pcs, GoTo
<1>1. CASE xreadGroupJson(b)
  BY <1>1 DEF xreadGroupJson, sharedVars
<1>2. CASE handleSessionReset(b)
  BY <1>2 DEF handleSessionReset
<1>3. CASE handleSessionCancel(b)
  BY <1>3 DEF handleSessionCancel, sharedVars
<1>4. CASE SendDropped(b)
  BY <1>4 DEF SendDropped, sharedVars
<1>5. CASE LockSession(b)
  BY <1>5 DEF LockSession
<1>6. CASE getAgentSessionById(b)
  BY <1>6 DEF getAgentSessionById, failSession, Answer, sharedVars
<1>7. CASE SelectPinned(b)
  BY <1>7 DEF SelectPinned, failSession, Answer, sharedVars
<1>8. CASE selectSessionExecutor(b)
  BY <1>8 DEF selectSessionExecutor, failSession, Answer, sharedVars
<1>9. CASE setAgentSessionPinnedAgent(b)
  BY <1>9 DEF setAgentSessionPinnedAgent, failSession, Answer
<1>10. CASE SendOpen(b)
  BY <1>10 DEF SendOpen, sharedVars
<1>11. CASE AwaitOpened(b)
  BY <1>11 DEF AwaitOpened, failSession, Answer, sharedVars
<1>12. CASE SendTurn(b)
  BY <1>12 DEF SendTurn, sharedVars
<1>13. CASE AwaitTurn(b)
  BY <1>13 DEF AwaitTurn, Answer, sharedVars
<1>14. CASE FinallySend(b)
  BY <1>14, DeleteKeepsLock DEF FinallySend
<1> QED
  BY <1>1, <1>2, <1>3, <1>4, <1>5, <1>6, <1>7, <1>8, <1>9, <1>10, <1>11,
     <1>12, <1>13, <1>14 DEF Brain

\* The edge and the executors touch neither the lock nor a brain.
LEMMA EdgeLeavesBrains == ASSUME Edge PROVE UNCHANGED <<pc, lock, overran, final>>
BY DEF Edge, Post, PostControl, brainVars, sharedVars, answerVars

LEMMA ExecutorLeavesBrains ==
    ASSUME NEW e \in Executors, Executor(e) PROVE UNCHANGED <<pc, lock, overran, final>>
BY DEF Executor, Undelivered, openSession, openSessionFails, runTurn,
       runTurnRefused, runTurnEnds, Disconnect, Restart, Connect,
       brainSide, brainVars, sharedVars, answerVars

\* A brain that works on the session holds its lock, or has lost it.
LEMMA LockInvariant == Spec => []LockInv
<1> USE SessionAssumption
<1>1. Init => LockInv
  BY DEF Init, LockInv, Pcs
<1>2. LockInv /\ [Next]_vars => LockInv'
  <2> SUFFICES ASSUME LockInv, [Next]_vars PROVE LockInv'
    OBVIOUS
  <2>1. CASE Edge
    BY <2>1, EdgeLeavesBrains DEF LockInv
  <2>2. ASSUME NEW b \in Brains, Brain(b) PROVE LockInv'
    BY <2>2, BrainLock
  <2>3. ASSUME NEW b \in Brains, BrainDies(b) PROVE LockInv'
    BY <2>3 DEF LockInv, BrainDies, Leave, GoTo, Pcs, sharedVars
  <2>4. ASSUME NEW b \in Brains, SendThrows(b) PROVE LockInv'
    BY <2>4, DeleteKeepsLock DEF SendThrows
  <2>5. CASE LockExpires
    <3>1. UNCHANGED pc /\ overran \subseteq overran'
      BY <2>5 DEF LockExpires, brainVars
    <3>2. ASSUME NEW b \in Brains, pc[b] # "idle", b \notin overran PROVE b \in overran'
      BY <2>5, <3>2 DEF LockInv, LockExpires
    <3> QED BY <3>1, <3>2 DEF LockInv
  <2>6. ASSUME NEW e \in Executors, Executor(e) PROVE LockInv'
    BY <2>6, ExecutorLeavesBrains DEF LockInv
  <2>7. CASE UNCHANGED vars
    BY <2>7 DEF LockInv, vars, brainVars, sharedVars
  <2> QED BY <2>1, <2>2, <2>3, <2>4, <2>5, <2>6, <2>7 DEF Next
<1> QED BY <1>1, <1>2, PTL DEF Spec

\* Two brains work on the session at the same time only if one of them lost
\* the lock while it worked: SET NX of session:brain:<id> in handleSessionSend
\* excludes all others, whatever dies, throws or disconnects, and however long
\* a turn takes.
THEOREM TurnExclusion == Spec => []OneTurnAtATime
<1>1. LockInv => OneTurnAtATime
  BY DEF LockInv, OneTurnAtATime
<1> QED BY <1>1, LockInvariant, PTL

-----------------------------------------------------------------------------
\* An answer is final only if the reply key of the turn holds a success.
LEMMA AnswerFinal ==
    ASSUME ReplyInv, NEW b \in Brains, NEW f \in BOOLEAN, Answer(b, f),
           f => turnReply[Current(b)] = "succeeded",
           UNCHANGED <<turnReply, completed>>
    PROVE  ReplyInv'
<1> DEFINE c == Current(b)
<1> HIDE DEF c
<1>1. final' = [final EXCEPT ![c] = @ \/ f]
  BY DEF Answer, c
<1>2. f => turnReply[c] = "succeeded"
  BY DEF c
<1>3. final' \in [Msgs -> BOOLEAN]
  BY <1>1 DEF ReplyInv
<1>4. ASSUME NEW m \in Msgs, final'[m] PROVE m \in completed
  <2>1. CASE m = c
    <3>1. final[m] \/ f
      BY <1>1, <1>4, <2>1 DEF ReplyInv
    <3> QED BY <3>1, <1>2, <2>1 DEF ReplyInv
  <2>2. CASE m # c
    BY <1>1, <1>4, <2>2 DEF ReplyInv
  <2> QED BY <2>1, <2>2
<1> QED BY <1>3, <1>4 DEF ReplyInv

\* A step of a brain keeps ReplyInv.
LEMMA BrainFinal ==
    ASSUME ReplyInv, NEW b \in Brains, Brain(b) PROVE ReplyInv'
<1>1. UNCHANGED <<turnReply, completed>>
  BY DEF Brain, xreadGroupJson, handleSessionReset, handleSessionCancel,
         SendDropped, LockSession, getAgentSessionById, SelectPinned,
         selectSessionExecutor, setAgentSessionPinnedAgent, SendOpen,
         AwaitOpened, SendTurn, AwaitTurn, FinallySend, execVars
<1>2. CASE UNCHANGED final
  BY <1>1, <1>2 DEF ReplyInv
<1>3. CASE failSession(b)
  BY <1>1, <1>3, AnswerFinal DEF failSession
<1>4. CASE AwaitTurn(b)
  BY <1>1, <1>4, AnswerFinal DEF AwaitTurn
<1>5. UNCHANGED final \/ failSession(b) \/ AwaitTurn(b)
  BY DEF Brain, xreadGroupJson, handleSessionReset, handleSessionCancel,
         SendDropped, LockSession, getAgentSessionById, SelectPinned,
         selectSessionExecutor, setAgentSessionPinnedAgent, SendOpen,
         AwaitOpened, SendTurn, FinallySend, answerVars
<1> QED BY <1>2, <1>3, <1>4, <1>5

\* The edge sets a reply key to "succeeded" only when a turn has completed.
LEMMA ExecutorFinal ==
    ASSUME ReplyInv, NEW e \in Executors, Executor(e) PROVE ReplyInv'
<1>1. UNCHANGED final
  BY ExecutorLeavesBrains
<1>2. ASSUME NEW m, NEW r \in Replies, ReplyTurn(m, r), completed \subseteq completed',
             r = "succeeded" => m \in completed'
      PROVE  ReplyInv'
  BY <1>1, <1>2 DEF ReplyInv, ReplyTurn
<1>3. CASE UNCHANGED <<turnReply, completed>>
  BY <1>1, <1>3 DEF ReplyInv
<1>4. CASE Undelivered(e)
  <2>1. UNCHANGED completed
    BY <1>4 DEF Undelivered
  <2>2. CASE UNCHANGED turnReply
    BY <2>1, <2>2, <1>3
  <2>3. CASE ReplyTurn(Head(toExec[e]).no, "failed")
    BY <2>1, <2>3, <1>2 DEF Replies
  <2> QED BY <1>4, <2>2, <2>3 DEF Undelivered
<1>5. ASSUME NEW i \in 1..Len(toExec[e]), runTurnRefused(e, i) PROVE ReplyInv'
  BY <1>5, <1>2 DEF runTurnRefused, Replies
<1>6. ASSUME NEW t \in running[e], NEW ok \in BOOLEAN, runTurnEnds(e, t, ok)
      PROVE  ReplyInv'
  <2>1. completed \subseteq completed' /\ (ok => t.no \in completed')
    BY <1>6 DEF runTurnEnds
  <2>2. CASE t.live
    <3> DEFINE r == IF ok THEN "succeeded" ELSE "failed"
    <3>1. ReplyTurn(t.no, r)
      BY <1>6, <2>2 DEF runTurnEnds
    <3>2. r \in Replies /\ (r = "succeeded" => ok)
      BY DEF Replies
    <3> QED BY <3>1, <3>2, <2>1, <1>2
  <2>3. CASE ~t.live
    <3>1. UNCHANGED turnReply
      BY <1>6, <2>3 DEF runTurnEnds
    <3> QED BY <3>1, <2>1, <1>1 DEF ReplyInv
  <2> QED BY <2>2, <2>3
<1>7. \/ UNCHANGED <<turnReply, completed>> \/ Undelivered(e)
      \/ \E i \in 1..Len(toExec[e]) : runTurnRefused(e, i)
      \/ \E t \in running[e] : \E ok \in BOOLEAN : runTurnEnds(e, t, ok)
  BY DEF Executor, openSession, openSessionFails, runTurn, Disconnect, Restart, Connect
<1> QED BY <1>3, <1>4, <1>5, <1>6, <1>7

\* The client hears agent_final for a message only if an executor completed
\* a turn for it, however late, stale or repeated the replies are.
THEOREM FinalGenuine == Spec => []FinalIsGenuine
<1>1. Init => ReplyInv
  BY DEF Init, ReplyInv, Replies
<1>2. ReplyInv /\ [Next]_vars => ReplyInv'
  <2> SUFFICES ASSUME ReplyInv, [Next]_vars PROVE ReplyInv'
    OBVIOUS
  <2>1. CASE UNCHANGED <<turnReply, completed, final>>
    BY <2>1 DEF ReplyInv
  <2>2. ASSUME NEW b \in Brains, Brain(b) PROVE ReplyInv'
    BY <2>2, BrainFinal
  <2>3. ASSUME NEW e \in Executors, Executor(e) PROVE ReplyInv'
    BY <2>3, ExecutorFinal
  <2>4. \/ UNCHANGED <<turnReply, completed, final>>
        \/ \E b \in Brains : Brain(b)
        \/ \E e \in Executors : Executor(e)
    BY DEF Next, Edge, Post, PostControl, BrainDies, SendThrows, LockExpires,
           vars, execVars, answerVars
  <2> QED BY <2>1, <2>2, <2>3, <2>4
<1>3. ReplyInv => FinalIsGenuine
  BY DEF ReplyInv, FinalIsGenuine
<1> QED BY <1>1, <1>2, <1>3, PTL DEF Spec

-----------------------------------------------------------------------------
\* Removing an entry leaves a sequence of the same kind.
LEMMA RemoveAtType ==
    ASSUME NEW S, NEW s \in Seq(S), NEW i \in 1..Len(s)
    PROVE  RemoveAt(s, i) \in Seq(S)
<1>1. SubSeq(s, 1, i - 1) \in Seq(S) /\ SubSeq(s, i + 1, Len(s)) \in Seq(S)
  OBVIOUS
<1> QED BY <1>1 DEF RemoveAt

\* A brain inside handleSessionSend still has the record it works on.
BatchInv == \A b \in Brains : pc[b] # "idle" => batch[b] # << >>

\* The types of what the executors and their edges write.
ExecTypes ==
    /\ toExec \in [Executors -> Seq(ToExecMsg)] /\ online \subseteq Executors
    /\ ctx \in [Executors -> Context] /\ running \in [Executors -> SUBSET RunningTurn]
    /\ openReply \in [Msgs -> Replies] /\ turnReply \in [Msgs -> Replies]
    /\ completed \subseteq Nat

\* An answer keeps the types.
LEMMA AnswerType ==
    ASSUME TypeOK, NEW b \in Brains, NEW f \in BOOLEAN, Answer(b, f)
    PROVE  /\ answers' \in [Msgs -> Nat] /\ final' \in [Msgs -> BOOLEAN]
           /\ pc' = [pc EXCEPT ![b] = "finally"]
<1> DEFINE c == Current(b)
<1> HIDE DEF c
<1>1. final' = [final EXCEPT ![c] = @ \/ f]
  BY DEF Answer, c
<1>2. answers' \in [Msgs -> Nat]
  <2>1. answers' = [answers EXCEPT ![c] = @ + 1] /\ answers \in [Msgs -> Nat]
    BY DEF Answer, c, TypeOK
  <2>2. CASE c \in Msgs
    BY <2>1, <2>2
  <2>3. CASE c \notin Msgs
    BY <2>1, <2>3
  <2> QED BY <2>2, <2>3
<1>3. final' \in [Msgs -> BOOLEAN]
  <2>1. ASSUME NEW m \in Msgs PROVE (final[m] \/ f) \in BOOLEAN
    OBVIOUS
  <2> QED BY <1>1, <2>1, Zenon DEF TypeOK
<1>4. pc' = [pc EXCEPT ![b] = "finally"]
  BY DEF Answer, GoTo
<1> QED BY <1>2, <1>3, <1>4

\* So does a step that answers and writes nothing else but the brain's own
\* executors and the pin.
LEMMA AnswerStepType ==
    ASSUME TypeOK, BatchInv, NEW b \in Brains, NEW f \in BOOLEAN, Answer(b, f),
           pc[b] # "idle",
           UNCHANGED <<stream, posted, controls, lock, overran, selector, batch, execVars, faultVars>>,
           prior' \in [Brains -> Executors \union {NoExecutor}],
           exec' \in [Brains -> Executors \union {NoExecutor}],
           pin' \in Executors \union {NoExecutor}
    PROVE  TypeOK' /\ BatchInv'
<1>1. /\ answers' \in [Msgs -> Nat] /\ final' \in [Msgs -> BOOLEAN]
      /\ pc' = [pc EXCEPT ![b] = "finally"]
  BY AnswerType
<1>2. pc' \in [Brains -> Pcs]
  BY <1>1 DEF TypeOK, Pcs
<1>3. BatchInv'
  BY <1>1 DEF BatchInv, TypeOK
<1> QED BY <1>1, <1>2, <1>3 DEF TypeOK, execVars, faultVars

\* A brain's step keeps the types.
LEMMA BrainType ==
    ASSUME TypeOK, BatchInv, NEW b \in Brains, Brain(b) PROVE TypeOK' /\ BatchInv'
<1> USE SessionAssumption
<1> USE DEF TypeOK, BatchInv, Pcs, GoTo, At, NextRecord, busVars, brainVars,
            sharedVars, answerVars, execVars, faultVars
<1>1. CASE xreadGroupJson(b)
  BY <1>1 DEF xreadGroupJson
<1>2. CASE handleSessionReset(b)
  BY <1>2 DEF handleSessionReset
<1>3. CASE handleSessionCancel(b)
  BY <1>3 DEF handleSessionCancel
<1>4. CASE SendDropped(b)
  BY <1>4 DEF SendDropped
<1>5. CASE LockSession(b)
  BY <1>5 DEF LockSession
<1>6. CASE getAgentSessionById(b)
  <2>1. CASE failSession(b)
    BY <1>6, <2>1, AnswerStepType DEF getAgentSessionById, failSession
  <2>2. CASE ~failSession(b)
    BY <1>6, <2>2 DEF getAgentSessionById
  <2> QED BY <2>1, <2>2
<1>7. CASE SelectPinned(b)
  <2>1. CASE failSession(b) /\ UNCHANGED exec
    BY <1>7, <2>1, AnswerStepType DEF SelectPinned, failSession
  <2>2. CASE ~failSession(b)
    BY <1>7, <2>2 DEF SelectPinned
  <2>3. CASE GoTo(b, "pin") \/ GoTo(b, "select")
    BY <1>7, <2>3 DEF SelectPinned, failSession, Answer
  <2> QED BY <1>7, <2>1, <2>2, <2>3 DEF SelectPinned
<1>8. CASE selectSessionExecutor(b)
  <2>1. CASE failSession(b) /\ UNCHANGED exec
    BY <1>8, <2>1, AnswerStepType DEF selectSessionExecutor, failSession
  <2>2. CASE GoTo(b, "pin") /\ UNCHANGED answerVars /\ \E x \in Candidates : exec' = [exec EXCEPT ![b] = x]
    BY <1>8, <2>2 DEF selectSessionExecutor, Candidates
  <2> QED BY <1>8, <2>1, <2>2 DEF selectSessionExecutor
<1>9. CASE setAgentSessionPinnedAgent(b)
  <2>1. CASE failSession(b)
    BY <1>9, <2>1, AnswerStepType DEF setAgentSessionPinnedAgent, failSession
  <2>2. CASE GoTo(b, "open") /\ UNCHANGED answerVars
    BY <1>9, <2>2 DEF setAgentSessionPinnedAgent
  <2> QED BY <1>9, <2>1, <2>2 DEF setAgentSessionPinnedAgent
<1>10. ASSUME pc[b] # "idle", NEW t \in {"open", "turn"}, ToExecutor(b, t)
       PROVE  toExec' \in [Executors -> Seq(ToExecMsg)]
  <2>1. Head(batch[b]) \in Record
    BY <1>10
  <2>2. [type |-> t, no |-> Current(b)] \in ToExecMsg
    BY <2>1 DEF Record, Current, ToExecMsg
  <2>3. ASSUME NEW e \in Executors
        PROVE  Append(toExec[e], [type |-> t, no |-> Current(b)]) \in Seq(ToExecMsg)
    BY <2>2
  <2> HIDE DEF ToExecMsg
  <2> QED BY <1>10, <2>3 DEF ToExecutor
<1>11. CASE SendOpen(b)
  BY <1>10, <1>11 DEF SendOpen
<1>12. CASE AwaitOpened(b)
  <2>1. CASE failSession(b)
    BY <1>12, <2>1, AnswerStepType DEF AwaitOpened, failSession
  <2>2. CASE GoTo(b, "turn") /\ UNCHANGED answerVars
    BY <1>12, <2>2 DEF AwaitOpened
  <2> QED BY <1>12, <2>1, <2>2 DEF AwaitOpened
<1>13. CASE SendTurn(b)
  BY <1>10, <1>13 DEF SendTurn
<1>14. CASE AwaitTurn(b)
  BY <1>14, AnswerStepType DEF AwaitTurn
<1>15. CASE FinallySend(b)
  BY <1>15 DEF FinallySend, Leave, DeleteLock
<1> QED
  BY <1>1, <1>2, <1>3, <1>4, <1>5, <1>6, <1>7, <1>8, <1>9, <1>11,
     <1>12, <1>13, <1>14, <1>15 DEF Brain

\* A step of an edge or executor towards the brains keeps the types.
LEMMA ExecutorType ==
    ASSUME TypeOK, NEW e \in Executors, Executor(e) PROVE ExecTypes'
<1> USE DEF TypeOK, ExecTypes, faultVars
<1>1. ASSUME NEW i, Taken(e, i)
      PROVE  toExec' \in [Executors -> Seq(ToExecMsg)] /\ toExec[e][i] \in ToExecMsg
  BY <1>1, RemoveAtType DEF Taken
<1>2. ASSUME NEW m, NEW r \in Replies, ReplyOpen(m, r) PROVE openReply' \in [Msgs -> Replies]
  BY <1>2 DEF ReplyOpen
<1>3. ASSUME NEW m, NEW r \in Replies, ReplyTurn(m, r) PROVE turnReply' \in [Msgs -> Replies]
  BY <1>3 DEF ReplyTurn
<1>r. {"ok", "succeeded", "failed"} \subseteq Replies
  BY DEF Replies
<1>4. CASE Undelivered(e)
  BY <1>1, <1>2, <1>3, <1>r, <1>4 DEF Undelivered
<1>5. ASSUME NEW i, openSession(e, i) PROVE ExecTypes'
  <2>1. [gen |-> ctx[e].gen + 1, active |-> 0, users |-> 0] \in Context
    BY DEF Context
  <2> QED BY <1>1, <1>2, <1>r, <1>5, <2>1 DEF openSession
<1>6. ASSUME NEW i, openSessionFails(e, i) PROVE ExecTypes'
  BY <1>1, <1>2, <1>r, <1>6 DEF openSessionFails
<1>7. ASSUME NEW i, runTurn(e, i) PROVE ExecTypes'
  <2>1. toExec[e][i] \in ToExecMsg /\ toExec' \in [Executors -> Seq(ToExecMsg)]
    BY <1>1, <1>7 DEF runTurn
  <2>2. ctx' \in [Executors -> Context]
    <3> DEFINE new == [gen |-> ctx[e].gen, active |-> toExec[e][i].no, users |-> ctx[e].users + 1]
    <3>1. new \in Context
      BY SMTT(30), <2>1 DEF Context, ToExecMsg
    <3>2. ctx' = [ctx EXCEPT ![e] = new]
      BY <1>7 DEF runTurn
    <3> QED BY <3>1, <3>2
  <2>3. [no |-> toExec[e][i].no, gen |-> ctx[e].gen, live |-> TRUE] \in RunningTurn
    BY <2>1 DEF RunningTurn, Context, ToExecMsg
  <2> QED BY <1>7, <2>1, <2>2, <2>3 DEF runTurn
<1>8. ASSUME NEW i, runTurnRefused(e, i) PROVE ExecTypes'
  BY <1>1, <1>3, <1>r, <1>8 DEF runTurnRefused
<1>9. ASSUME NEW t \in running[e], NEW ok \in BOOLEAN, runTurnEnds(e, t, ok)
      PROVE  ExecTypes'
  <2>1. t.no \in Nat
    BY DEF RunningTurn
  <2>2. ctx' \in [Executors -> Context]
    <3> DEFINE n == IF ctx[e].gen = t.gen THEN 0 ELSE ctx[e].active
               new == [ctx[e] EXCEPT !.active = n]
    <3>1. new \in Context
      BY ZenonT(40) DEF Context
    <3>2. ctx' = [ctx EXCEPT ![e] = new]
      BY <1>9 DEF runTurnEnds
    <3> QED BY <3>1, <3>2
  <2>3. turnReply' \in [Msgs -> Replies]
    BY <1>3, <1>r, <1>9 DEF runTurnEnds
  <2> QED BY <1>9, <2>1, <2>2, <2>3 DEF runTurnEnds
<1>10. CASE Disconnect(e)
  <2>1. ASSUME NEW t \in running[e] PROVE [t EXCEPT !.live = FALSE] \in RunningTurn
    <3>1. t \in RunningTurn
      OBVIOUS
    <3> QED BY <3>1 DEF RunningTurn
  <2> QED BY <1>10, <2>1 DEF Disconnect
<1>11. CASE Restart(e)
  BY <1>11 DEF Restart, NoContext, Context
<1>12. CASE Connect(e)
  BY <1>12 DEF Connect
<1> QED
  BY <1>4, <1>5, <1>6, <1>7, <1>8, <1>9, <1>10, <1>11, <1>12 DEF Executor

\* What an executor's step leaves alone, and what it counts.
LEMMA ExecutorFrame ==
    ASSUME TypeOK, NEW e \in Executors, Executor(e)
    PROVE  /\ UNCHANGED <<busVars, brainVars, sharedVars, answerVars>>
           /\ crashes' \in Nat /\ drops' \in Nat
<1>1. UNCHANGED brainSide
  BY DEF Executor, Undelivered, openSession, openSessionFails, runTurn,
         runTurnRefused, runTurnEnds, Disconnect, Restart, Connect
<1>2. UNCHANGED crashes /\ (UNCHANGED drops \/ drops' = drops + 1)
  BY DEF Executor, Undelivered, openSession, openSessionFails, runTurn,
         runTurnRefused, runTurnEnds, Disconnect, Restart, Connect, faultVars
<1> QED BY <1>1, <1>2 DEF brainSide, TypeOK

\* Every variable of the session's messages keeps its type.
THEOREM SessionTypeCorrect == Spec => []TypeOK
<1> USE SessionAssumption
<1>1. Init => TypeOK /\ BatchInv
  BY DEF Init, TypeOK, BatchInv, Pcs, NoContext, Context, Replies, Msgs
<1>2. TypeOK /\ BatchInv /\ [Next]_vars => TypeOK' /\ BatchInv'
  <2> SUFFICES ASSUME TypeOK, BatchInv, [Next]_vars PROVE TypeOK' /\ BatchInv'
    OBVIOUS
  <2> USE DEF busVars, brainVars, sharedVars, answerVars, execVars, faultVars
  <2>1. ASSUME NEW m \in Msgs, Post(m) PROVE TypeOK' /\ BatchInv'
    <3>1. Send(m) \in Record
      BY DEF Send, Record, Msgs
    <3> QED BY <2>1, <3>1 DEF Post, TypeOK, BatchInv
  <2>2. ASSUME NEW t \in {"reset", "cancel"}, PostControl(t) PROVE TypeOK' /\ BatchInv'
    <3>1. [type |-> t, no |-> 0] \in Record
      BY DEF Record
    <3> QED BY <2>2, <3>1 DEF PostControl, TypeOK, BatchInv
  <2>3. ASSUME NEW b \in Brains, Brain(b) PROVE TypeOK' /\ BatchInv'
    BY <2>3, BrainType
  <2>4. ASSUME NEW b \in Brains, BrainDies(b) PROVE TypeOK' /\ BatchInv'
    BY <2>4 DEF BrainDies, Leave, GoTo, TypeOK, BatchInv, Pcs
  <2>5. ASSUME NEW b \in Brains, SendThrows(b) PROVE TypeOK' /\ BatchInv'
    BY <2>5 DEF SendThrows, Leave, DeleteLock, GoTo, TypeOK, BatchInv, Pcs
  <2>6. CASE LockExpires
    BY <2>6 DEF LockExpires, TypeOK, BatchInv
  <2>7. ASSUME NEW e \in Executors, Executor(e) PROVE TypeOK' /\ BatchInv'
    BY <2>7, ExecutorType, ExecutorFrame DEF TypeOK, BatchInv, ExecTypes
  <2>8. CASE UNCHANGED vars
    BY <2>8 DEF vars, TypeOK, BatchInv
  <2> QED BY <2>1, <2>2, <2>3, <2>4, <2>5, <2>6, <2>7, <2>8 DEF Next, Edge
<1> QED BY <1>1, <1>2, PTL DEF Spec

-----------------------------------------------------------------------------
(* How often a message is answered.  The places where a record of it still *)
(* waits for an answer are counted: on the stream, or in the batch of a    *)
(* brain.                                                                  *)

\* A brain inside handleSessionSend is at a record of a message.
HeadInv == \A b \in Brains : pc[b] # "idle" => batch[b] # << >> /\ Head(batch[b]).type = "send"

Queue(b) == IF b = NoBrain THEN stream ELSE batch[b]

\* The first record of b's batch has its answer, and is removed in the end.
Done(b, i) == b # NoBrain /\ i = 1 /\ pc[b] = "finally"

Places == (Brains \cup {NoBrain}) \X Nat

Outstanding(m) ==
    {x \in Places : /\ x[2] \in 1..Len(Queue(x[1])) /\ Queue(x[1])[x[2]] = Send(m)
                    /\ ~Done(x[1], x[2])}

AnswerInv ==
    \A m \in Msgs : /\ IsFiniteSet(Outstanding(m))
                    /\ Cardinality(Outstanding(m)) + answers[m] <= posted[m]

\* Records that move, one place to another, or are dropped, are no more.
LEMMA NoMoreOutstanding ==
    ASSUME TypeOK, AnswerInv, UNCHANGED <<posted, answers>>,
           \A m \in Msgs : Injection(Outstanding(m)', Outstanding(m)) # {}
    PROVE  AnswerInv'
<1> SUFFICES ASSUME NEW m \in Msgs
             PROVE  /\ IsFiniteSet(Outstanding(m)')
                    /\ Cardinality(Outstanding(m)') + answers'[m] <= posted'[m]
  BY DEF AnswerInv
<1>1. PICK f : f \in Injection(Outstanding(m)', Outstanding(m))
  OBVIOUS
<1>2. /\ IsFiniteSet(Outstanding(m)) /\ IsFiniteSet(Outstanding(m)')
      /\ Cardinality(Outstanding(m)') <= Cardinality(Outstanding(m))
  BY <1>1, FS_Injection DEF AnswerInv
<1> QED BY <1>2, FS_CardinalityType DEF AnswerInv, TypeOK

\* In particular when no place gets a record that waits.
LEMMA SubsetInjects ==
    ASSUME NEW S, NEW T, S \subseteq T PROVE Injection(S, T) # {}
<1> DEFINE f == [x \in S |-> x]
<1>1. f \in Injection(S, T)
  BY DEF Injection, IsInjective
<1> QED BY <1>1

\* The record at the head of a batch is taken off it.
LEMMA HeadRemoved ==
    ASSUME TypeOK, AnswerInv, NEW b \in Brains, batch[b] # << >>, NextRecord(b),
           UNCHANGED <<stream, posted, answers>>,
           \A c \in Brains : c # b => pc'[c] = pc[c], pc'[b] = "idle"
    PROVE  AnswerInv'
<1> USE SessionAssumption
<1>1. SUFFICES ASSUME NEW m \in Msgs
               PROVE  Injection(Outstanding(m)', Outstanding(m)) # {}
  BY NoMoreOutstanding
<1> DEFINE f == [x \in Outstanding(m)' |-> IF x[1] = b THEN <<b, x[2] + 1>> ELSE x]
<1>2. ASSUME NEW x \in Outstanding(m)' PROVE f[x] \in Outstanding(m)
  <2>1. x \in Places /\ x[2] \in 1..Len(Queue(x[1])') /\ Queue(x[1])'[x[2]] = Send(m)
        /\ ~Done(x[1], x[2])' /\ x[1] \in Brains \cup {NoBrain} /\ x[2] \in Nat /\ x = <<x[1], x[2]>>
    BY DEF Outstanding, Places
  <2>2. CASE x[1] = b
    <3>1. batch'[b] = Tail(batch[b]) /\ batch[b] \in Seq(Record)
      BY DEF NextRecord, TypeOK
    <3>2. x[2] + 1 \in 1..Len(batch[b]) /\ batch[b][x[2] + 1] = Send(m)
      BY <2>1, <2>2, <3>1 DEF Queue
    <3>3. <<b, x[2] + 1>> \in Places /\ ~Done(b, x[2] + 1)
      BY <2>1 DEF Places, Done
    <3> QED BY <2>2, <3>2, <3>3 DEF Outstanding, Queue
  <2>3. CASE x[1] # b
    <3>1. Queue(x[1])' = Queue(x[1])
      BY <2>1, <2>3 DEF Queue, NextRecord, TypeOK
    <3>2. ~Done(x[1], x[2])
      BY <2>1, <2>3 DEF Done
    <3> QED BY <2>1, <2>3, <3>1, <3>2 DEF Outstanding
  <2> QED BY <2>2, <2>3
<1>3. ASSUME NEW x \in Outstanding(m)', NEW y \in Outstanding(m)', f[x] = f[y] PROVE x = y
  <2>1. x = <<x[1], x[2]>> /\ y = <<y[1], y[2]>> /\ x[2] \in Nat /\ y[2] \in Nat
    BY DEF Outstanding, Places
  <2> QED BY <1>3, <2>1
<1>4. f \in Injection(Outstanding(m)', Outstanding(m))
  BY <1>2, <1>3 DEF Injection, IsInjective
<1> QED BY <1>4

\* A brain reads what is on the stream.
LEMMA StreamRead ==
    ASSUME TypeOK, AnswerInv, NEW b \in Brains, xreadGroupJson(b)
    PROVE  AnswerInv'
<1> USE SessionAssumption
<1>0. /\ pc' = pc /\ stream' = << >> /\ batch' = [batch EXCEPT ![b] = stream]
      /\ UNCHANGED <<posted, answers>> /\ pc[b] = "idle"
  BY DEF xreadGroupJson, answerVars
<1>1. SUFFICES ASSUME NEW m \in Msgs
               PROVE  Injection(Outstanding(m)', Outstanding(m)) # {}
  BY <1>0, NoMoreOutstanding
<1> DEFINE f == [x \in Outstanding(m)' |-> IF x[1] = b THEN <<NoBrain, x[2]>> ELSE x]
<1>2. ASSUME NEW x \in Outstanding(m)'
      PROVE  /\ f[x] \in Outstanding(m) /\ x = <<x[1], x[2]>> /\ x[1] \in Brains
  <2>1. x \in Places /\ x[2] \in 1..Len(Queue(x[1])') /\ Queue(x[1])'[x[2]] = Send(m)
        /\ ~Done(x[1], x[2])' /\ x[1] \in Brains \cup {NoBrain} /\ x[2] \in Nat /\ x = <<x[1], x[2]>>
    BY DEF Outstanding, Places
  <2>2. x[1] # NoBrain
    BY <1>0, <2>1 DEF Queue
  <2>3. CASE x[1] = b
    <3>1. Queue(b)' = stream /\ Queue(NoBrain) = stream
      BY <1>0 DEF Queue, TypeOK
    <3>2. <<NoBrain, x[2]>> \in Places /\ ~Done(NoBrain, x[2])
      BY <2>1 DEF Places, Done
    <3> QED BY <2>1, <2>2, <2>3, <3>1, <3>2 DEF Outstanding
  <2>4. CASE x[1] # b
    <3>1. Queue(x[1])' = Queue(x[1]) /\ ~Done(x[1], x[2])
      BY <1>0, <2>1, <2>2, <2>4 DEF Queue, Done, TypeOK
    <3> QED BY <2>1, <2>2, <2>4, <3>1 DEF Outstanding
  <2> QED BY <2>3, <2>4
<1>3. ASSUME NEW x \in Outstanding(m)', NEW y \in Outstanding(m)', f[x] = f[y] PROVE x = y
  BY <1>2, <1>3
<1>4. f \in Injection(Outstanding(m)', Outstanding(m))
  BY <1>2, <1>3 DEF Injection, IsInjective
<1> QED BY <1>4

\* No record comes, and no record that has its answer waits again.
LEMMA NothingNew ==
    ASSUME TypeOK, AnswerInv, UNCHANGED <<stream, posted, answers>>,
           \A b \in Brains : batch'[b] \in {batch[b], << >>},
           \A b \in Brains : batch'[b] # << >> /\ pc[b] = "finally" => pc'[b] = "finally"
    PROVE  AnswerInv'
<1> USE SessionAssumption
<1>1. SUFFICES ASSUME NEW m \in Msgs PROVE Outstanding(m)' \subseteq Outstanding(m)
  BY NoMoreOutstanding, SubsetInjects
<1>2. ASSUME NEW x \in Outstanding(m)' PROVE x \in Outstanding(m)
  <2>1. x \in Places /\ x[2] \in 1..Len(Queue(x[1])') /\ Queue(x[1])'[x[2]] = Send(m)
        /\ ~Done(x[1], x[2])' /\ x[1] \in Brains \cup {NoBrain}
    BY DEF Outstanding, Places
  <2>2. Queue(x[1])' = Queue(x[1])
    BY <2>1 DEF Queue
  <2>3. ~Done(x[1], x[2])
    BY <2>1, <2>2 DEF Done, Queue
  <2> QED BY <2>1, <2>2, <2>3 DEF Outstanding
<1> QED BY <1>2

\* One more record waits, and its message was posted once more.
LEMMA PostedOnceMore ==
    ASSUME TypeOK, AnswerInv, NEW m \in Msgs, Post(m) PROVE AnswerInv'
<1> USE SessionAssumption
<1>0. /\ stream' = Append(stream, Send(m)) /\ posted' = [posted EXCEPT ![m] = posted[m] + 1]
      /\ UNCHANGED <<pc, batch, answers>> /\ stream \in Seq(Record)
  BY DEF Post, brainVars, answerVars, TypeOK
<1> DEFINE new == <<NoBrain, Len(stream) + 1>>
<1>1. ASSUME NEW k \in Msgs, NEW x \in Outstanding(k)'
      PROVE  x \in Outstanding(k) \/ (k = m /\ x = new)
  <2>1. x \in Places /\ x[2] \in 1..Len(Queue(x[1])') /\ Queue(x[1])'[x[2]] = Send(k)
        /\ ~Done(x[1], x[2])' /\ x[1] \in Brains \cup {NoBrain} /\ x = <<x[1], x[2]>> /\ x[2] \in Nat
    BY DEF Outstanding, Places
  <2>2. ~Done(x[1], x[2])
    BY <1>0, <2>1 DEF Done
  <2>3. CASE x[1] # NoBrain \/ x[2] # Len(stream) + 1
    <3>1. x[2] \in 1..Len(Queue(x[1])) /\ Queue(x[1])[x[2]] = Send(k)
      BY <1>0, <2>1, <2>3 DEF Queue
    <3> QED BY <2>1, <2>2, <3>1 DEF Outstanding
  <2>4. CASE x[1] = NoBrain /\ x[2] = Len(stream) + 1
    <3>1. Send(k) = Send(m)
      BY <1>0, <2>1, <2>4 DEF Queue
    <3> QED BY <2>1, <2>4, <3>1 DEF Send
  <2> QED BY <2>3, <2>4
<1>2. ASSUME NEW k \in Msgs
      PROVE  /\ IsFiniteSet(Outstanding(k)')
             /\ Cardinality(Outstanding(k)') + answers'[k] <= posted'[k]
  <2>0. /\ IsFiniteSet(Outstanding(k)) /\ Cardinality(Outstanding(k)) \in Nat
        /\ Cardinality(Outstanding(k)) + answers[k] <= posted[k]
        /\ answers[k] \in Nat /\ posted[k] \in Nat
    BY FS_CardinalityType DEF AnswerInv, TypeOK
  <2>1. CASE k = m
    <3>1. /\ IsFiniteSet(Outstanding(k) \cup {new})
          /\ Cardinality(Outstanding(k) \cup {new}) <= Cardinality(Outstanding(k)) + 1
      <4> HIDE DEF new
      <4>1. CASE new \in Outstanding(k)
        <5>1. Outstanding(k) \cup {new} = Outstanding(k)
          BY <4>1
        <5>2. Cardinality(Outstanding(k)) <= Cardinality(Outstanding(k)) + 1
          BY <2>0
        <5> QED BY <2>0, <5>1, <5>2, Zenon
      <4>2. CASE new \notin Outstanding(k)
        <5>1. /\ IsFiniteSet(Outstanding(k) \cup {new})
              /\ Cardinality(Outstanding(k) \cup {new}) =
                     IF new \in Outstanding(k) THEN Cardinality(Outstanding(k))
                                               ELSE Cardinality(Outstanding(k)) + 1
          <6> HIDE DEF Outstanding
          <6> QED BY <2>0, FS_AddElement, Zenon
        <5>2. Cardinality(Outstanding(k) \cup {new}) = Cardinality(Outstanding(k)) + 1
          BY <4>2, <5>1, Zenon
        <5> QED BY <2>0, <5>1, <5>2
      <4> QED BY <4>1, <4>2
    <3>2. Outstanding(k)' \subseteq Outstanding(k) \cup {new}
      BY <1>1
    <3>3. /\ IsFiniteSet(Outstanding(k)')
          /\ Cardinality(Outstanding(k)') <= Cardinality(Outstanding(k) \cup {new})
      BY <3>1, <3>2, FS_Subset
    <3>4. Cardinality(Outstanding(k)') \in Nat /\ Cardinality(Outstanding(k) \cup {new}) \in Nat
      BY <3>1, <3>3, FS_CardinalityType
    <3>5. answers'[k] = answers[k] /\ posted'[k] = posted[k] + 1
      BY <1>0, <2>1 DEF TypeOK
    <3> HIDE DEF new
    <3> QED BY <2>0, <3>1, <3>3, <3>4, <3>5
  <2>2. CASE k # m
    <3>1. Outstanding(k)' \subseteq Outstanding(k)
      BY <1>1, <2>2
    <3>2. /\ IsFiniteSet(Outstanding(k)')
          /\ Cardinality(Outstanding(k)') <= Cardinality(Outstanding(k))
      BY <2>0, <3>1, FS_Subset
    <3>3. Cardinality(Outstanding(k)') \in Nat
      BY <3>2, FS_CardinalityType
    <3>4. answers'[k] = answers[k] /\ posted'[k] = posted[k]
      BY <1>0, <2>2 DEF TypeOK
    <3> QED BY <2>0, <3>2, <3>3, <3>4
  <2> QED BY <2>1, <2>2
<1> QED BY <1>2 DEF AnswerInv

\* The record that gets its answer waits no longer.
LEMMA AnsweredOnce ==
    ASSUME TypeOK, HeadInv, AnswerInv, NEW b \in Brains, NEW f \in BOOLEAN, Answer(b, f),
           pc[b] \notin {"idle", "finally"}, UNCHANGED <<stream, batch, posted>>
    PROVE  AnswerInv'
<1> USE SessionAssumption
<1> DEFINE c == Current(b)
           mine == <<b, 1>>
<1>0. /\ batch[b] \in Seq(Record) /\ batch[b] # << >> /\ batch[b][1].type = "send"
      /\ answers' = [answers EXCEPT ![c] = answers[c] + 1] /\ pc' = [pc EXCEPT ![b] = "finally"]
  BY DEF TypeOK, HeadInv, Answer, GoTo
<1>1. batch[b][1] = Send(c)
  <2>1. batch[b][1] \in Record /\ c = batch[b][1].no
    BY <1>0 DEF Current
  <2> QED BY <1>0, <2>1 DEF Record, Send
<1>2. ASSUME NEW m \in Msgs, NEW x \in Outstanding(m)'
      PROVE  x \in Outstanding(m) /\ x # mine
  <2>1. x \in Places /\ x[2] \in 1..Len(Queue(x[1])) /\ Queue(x[1])[x[2]] = Send(m)
        /\ ~Done(x[1], x[2])' /\ x[1] \in Brains \cup {NoBrain} /\ x = <<x[1], x[2]>>
    BY DEF Outstanding, Places, Queue
  <2>2. ~Done(x[1], x[2]) /\ ~(x[1] = b /\ x[2] = 1)
    BY <1>0, <2>1 DEF Done, TypeOK
  <2> QED BY <2>1, <2>2 DEF Outstanding
<1>3. ASSUME NEW m \in Msgs
      PROVE  /\ IsFiniteSet(Outstanding(m)')
             /\ Cardinality(Outstanding(m)') + answers'[m] <= posted'[m]
  <2>0. /\ IsFiniteSet(Outstanding(m)) /\ Cardinality(Outstanding(m)) \in Nat
        /\ Cardinality(Outstanding(m)) + answers[m] <= posted[m]
        /\ answers[m] \in Nat /\ posted[m] \in Nat /\ posted'[m] = posted[m]
    BY FS_CardinalityType DEF AnswerInv, TypeOK
  <2>1. CASE m = c
    <3>1. mine \in Outstanding(m)
      <4>1. mine \in Places /\ 1 \in 1..Len(Queue(b)) /\ Queue(b)[1] = Send(m) /\ ~Done(b, 1)
        BY <1>0, <1>1, <2>1 DEF Places, Queue, Done
      <4> QED BY <4>1 DEF Outstanding
    <3> HIDE DEF mine, c
    <3>2. /\ IsFiniteSet(Outstanding(m) \ {mine})
          /\ Cardinality(Outstanding(m) \ {mine}) = Cardinality(Outstanding(m)) - 1
      BY <2>0, <3>1, FS_RemoveElement
    <3>3. Outstanding(m)' \subseteq Outstanding(m) \ {mine}
      BY <1>2
    <3>4. /\ IsFiniteSet(Outstanding(m)')
          /\ Cardinality(Outstanding(m)') <= Cardinality(Outstanding(m)) - 1
      BY <3>2, <3>3, FS_Subset
    <3>5. Cardinality(Outstanding(m)') \in Nat /\ answers'[m] = answers[m] + 1
      BY <1>0, <2>1, <3>4, FS_CardinalityType DEF TypeOK
    <3> QED BY <2>0, <3>4, <3>5
  <2>2. CASE m # c
    <3>1. Outstanding(m)' \subseteq Outstanding(m)
      BY <1>2
    <3>2. IsFiniteSet(Outstanding(m)') /\ Cardinality(Outstanding(m)') <= Cardinality(Outstanding(m))
      BY <2>0, <3>1, FS_Subset
    <3>3. Cardinality(Outstanding(m)') \in Nat /\ answers'[m] = answers[m]
      BY <1>0, <2>2, <3>2, FS_CardinalityType DEF TypeOK
    <3> QED BY <2>0, <3>2, <3>3
  <2> QED BY <2>1, <2>2
<1> QED BY <1>3 DEF AnswerInv

\* A brain's step keeps both.
LEMMA BrainAnswers ==
    ASSUME TypeOK, HeadInv, AnswerInv, NEW b \in Brains, Brain(b)
    PROVE  HeadInv' /\ AnswerInv'
<1> USE SessionAssumption
<1> USE DEF busVars, brainVars, sharedVars, answerVars, execVars, faultVars, At, GoTo, failSession
<1>1. CASE xreadGroupJson(b)
  BY <1>1, StreamRead DEF xreadGroupJson, HeadInv, TypeOK
<1>2. CASE handleSessionReset(b) \/ handleSessionCancel(b) \/ SendDropped(b)
  <2>1. /\ pc' = pc /\ pc[b] = "idle" /\ batch[b] # << >> /\ NextRecord(b)
        /\ UNCHANGED <<stream, posted, answers>>
    BY <1>2 DEF handleSessionReset, handleSessionCancel, SendDropped
  <2> QED BY <2>1, HeadRemoved DEF HeadInv, NextRecord, TypeOK
<1>3. CASE FinallySend(b)
  <2>1. /\ pc' = [pc EXCEPT ![b] = "idle"] /\ batch[b] # << >> /\ NextRecord(b)
        /\ UNCHANGED <<stream, posted, answers>>
    BY <1>3 DEF FinallySend, Leave, HeadInv
  <2>2. pc'[b] = "idle" /\ \A c \in Brains : c # b => pc'[c] = pc[c]
    BY <2>1 DEF TypeOK
  <2> QED BY <2>1, <2>2, HeadRemoved DEF HeadInv, NextRecord, TypeOK
<1>4. ASSUME NEW p, p # "finally", pc[b] \notin {"idle", "finally"} \/ At(b, "send"), GoTo(b, p),
             UNCHANGED <<stream, batch, posted, answers>>
      PROVE  HeadInv' /\ AnswerInv'
  <2>1. \A c \in Brains : pc[c] = "finally" => pc'[c] = "finally"
    BY <1>4 DEF TypeOK
  <2> QED BY <1>4, <2>1, NothingNew DEF HeadInv, TypeOK
<1>5. ASSUME NEW f \in BOOLEAN, Answer(b, f), pc[b] \notin {"idle", "finally"},
             UNCHANGED <<stream, batch, posted>>
      PROVE  HeadInv' /\ AnswerInv'
  BY <1>5, AnsweredOnce DEF HeadInv, Answer, TypeOK
<1>6. CASE LockSession(b)
  BY <1>4, <1>6 DEF LockSession
<1>7. CASE getAgentSessionById(b)
  <2>1. CASE failSession(b)
    BY <1>5, <1>7, <2>1 DEF getAgentSessionById
  <2>2. CASE GoTo(b, IF pin = NoExecutor THEN "select" ELSE "pinned") /\ UNCHANGED answerVars
    BY <1>4, <1>7, <2>2 DEF getAgentSessionById
  <2> QED BY <1>7, <2>1, <2>2 DEF getAgentSessionById
<1>8. CASE SelectPinned(b)
  <2>1. CASE failSession(b)
    BY <1>5, <1>8, <2>1 DEF SelectPinned
  <2>2. CASE (GoTo(b, "pin") \/ GoTo(b, "select")) /\ UNCHANGED answerVars
    BY <1>4, <1>8, <2>2 DEF SelectPinned
  <2> QED BY <1>8, <2>1, <2>2 DEF SelectPinned
<1>9. CASE selectSessionExecutor(b)
  <2>1. CASE failSession(b)
    BY <1>5, <1>9, <2>1 DEF selectSessionExecutor
  <2>2. CASE GoTo(b, "pin") /\ UNCHANGED answerVars
    BY <1>4, <1>9, <2>2 DEF selectSessionExecutor
  <2> QED BY <1>9, <2>1, <2>2 DEF selectSessionExecutor
<1>10. CASE setAgentSessionPinnedAgent(b)
  <2>1. CASE failSession(b)
    BY <1>5, <1>10, <2>1 DEF setAgentSessionPinnedAgent
  <2>2. CASE GoTo(b, "open") /\ UNCHANGED answerVars
    BY <1>4, <1>10, <2>2 DEF setAgentSessionPinnedAgent
  <2> QED BY <1>10, <2>1, <2>2 DEF setAgentSessionPinnedAgent
<1>11. CASE SendOpen(b) \/ SendTurn(b)
  <2>1. GoTo(b, "opening") \/ GoTo(b, "waiting")
    BY <1>11 DEF SendOpen, SendTurn
  <2>2. pc[b] \in {"open", "turn"} /\ UNCHANGED <<stream, batch, posted, answers>>
    BY <1>11 DEF SendOpen, SendTurn
  <2> QED BY <1>4, <2>1, <2>2
<1>12. CASE AwaitOpened(b)
  <2>1. CASE failSession(b)
    BY <1>5, <1>12, <2>1 DEF AwaitOpened
  <2>2. CASE GoTo(b, "turn") /\ UNCHANGED answerVars
    BY <1>4, <1>12, <2>2 DEF AwaitOpened
  <2> QED BY <1>12, <2>1, <2>2 DEF AwaitOpened
<1>13. CASE AwaitTurn(b)
  <2>1. Answer(b, turnReply[Current(b)] = "succeeded") /\ pc[b] = "waiting"
        /\ UNCHANGED <<stream, batch, posted>>
    BY <1>13 DEF AwaitTurn
  <2>2. (turnReply[Current(b)] = "succeeded") \in BOOLEAN
    OBVIOUS
  <2> QED BY <1>5, <2>1, <2>2
<1> QED
  BY <1>1, <1>2, <1>3, <1>6, <1>7, <1>8, <1>9, <1>10, <1>11, <1>12, <1>13 DEF Brain

\* A message is answered at most as often as it was put on the stream, for
\* any number of brains and of brains that die: each record that one of them
\* read gets one answer, or is lost with it.
THEOREM AnswersAreBounded == Spec => []AnswersBounded
<1> USE SessionAssumption
<1>1. Init => HeadInv /\ AnswerInv
  <2> SUFFICES ASSUME Init PROVE HeadInv /\ AnswerInv
    OBVIOUS
  <2>1. \A m \in Msgs : Outstanding(m) = {}
    BY DEF Init, Outstanding, Places, Queue
  <2>2. HeadInv
    BY DEF Init, HeadInv
  <2>3. posted = [m \in Msgs |-> 0] /\ answers = [m \in Msgs |-> 0]
    BY DEF Init
  <2>4. IsFiniteSet({}) /\ Cardinality({}) = 0
    BY FS_EmptySet
  <2>5. \A m \in Msgs : IsFiniteSet(Outstanding(m)) /\ Cardinality(Outstanding(m)) = 0
    BY <2>1, <2>4
  <2>6. AnswerInv
    BY <2>3, <2>5 DEF AnswerInv
  <2> QED BY <2>2, <2>6
<1>2. TypeOK /\ HeadInv /\ AnswerInv /\ [Next]_vars => HeadInv' /\ AnswerInv'
  <2> SUFFICES ASSUME TypeOK, HeadInv, AnswerInv, [Next]_vars PROVE HeadInv' /\ AnswerInv'
    OBVIOUS
  <2> USE DEF busVars, brainVars, sharedVars, answerVars, execVars, faultVars
  <2>1. ASSUME NEW m \in Msgs, Post(m) PROVE HeadInv' /\ AnswerInv'
    BY <2>1, PostedOnceMore DEF Post, HeadInv
  <2>2. ASSUME NEW t \in {"reset", "cancel"}, PostControl(t) PROVE HeadInv' /\ AnswerInv'
    <3>0. /\ stream' = Append(stream, [type |-> t, no |-> 0]) /\ stream \in Seq(Record)
          /\ UNCHANGED <<pc, batch, posted, answers>>
      BY <2>2 DEF PostControl, TypeOK
    <3>1. ASSUME NEW m \in Msgs, NEW x \in Outstanding(m)' PROVE x \in Outstanding(m)
      <4>1. x \in Places /\ x[2] \in 1..Len(Queue(x[1])') /\ Queue(x[1])'[x[2]] = Send(m)
            /\ ~Done(x[1], x[2])' /\ x[1] \in Brains \cup {NoBrain}
        BY DEF Outstanding, Places
      <4>2. ~Done(x[1], x[2])
        BY <3>0, <4>1 DEF Done
      <4>3. CASE x[1] # NoBrain \/ x[2] # Len(stream) + 1
        <5>1. x[2] \in 1..Len(Queue(x[1])) /\ Queue(x[1])[x[2]] = Send(m)
          BY <3>0, <4>1, <4>3 DEF Queue
        <5> QED BY <4>1, <4>2, <5>1 DEF Outstanding
      <4>4. CASE x[1] = NoBrain /\ x[2] = Len(stream) + 1
        <5>1. Queue(x[1])' = Append(stream, [type |-> t, no |-> 0])
          BY <3>0, <4>4 DEF Queue
        <5>2. Append(stream, [type |-> t, no |-> 0])[Len(stream) + 1] = [type |-> t, no |-> 0]
          <6>1. [type |-> t, no |-> 0] \in Record
            BY <2>2 DEF Record
          <6> QED BY <3>0, <6>1
        <5>3. Send(m) = [type |-> t, no |-> 0]
          BY <4>1, <4>4, <5>1, <5>2
        <5>4. Send(m).type = "send" /\ [type |-> t, no |-> 0].type = t /\ t # "send"
          BY <2>2 DEF Send
        <5> QED BY <5>3, <5>4
      <4> QED BY <4>3, <4>4
    <3>2. AnswerInv'
      BY <3>0, <3>1, SubsetInjects, NoMoreOutstanding
    <3> QED BY <3>0, <3>2 DEF HeadInv
  <2>3. ASSUME NEW b \in Brains, Brain(b) PROVE HeadInv' /\ AnswerInv'
    BY <2>3, BrainAnswers
  <2>4. ASSUME NEW b \in Brains, BrainDies(b) \/ SendThrows(b) PROVE HeadInv' /\ AnswerInv'
    <3>1. /\ pc' = [pc EXCEPT ![b] = "idle"] /\ batch' = [batch EXCEPT ![b] = << >>]
          /\ UNCHANGED <<stream, posted, answers>>
      BY <2>4 DEF BrainDies, SendThrows, Leave, GoTo
    <3> QED BY <3>1, NothingNew DEF HeadInv, TypeOK
  <2>5. CASE UNCHANGED <<stream, posted, pc, batch, answers>>
    BY <2>5, NothingNew DEF HeadInv
  <2>6. ASSUME NEW e \in Executors, Executor(e) PROVE HeadInv' /\ AnswerInv'
    BY <2>5, <2>6, ExecutorFrame
  <2>7. CASE LockExpires \/ UNCHANGED vars
    BY <2>5, <2>7 DEF LockExpires, vars
  <2> QED BY <2>1, <2>2, <2>3, <2>4, <2>6, <2>7 DEF Next, Edge
<1>3. TypeOK /\ AnswerInv => AnswersBounded
  <2> SUFFICES ASSUME TypeOK, AnswerInv, NEW m \in Msgs PROVE answers[m] <= posted[m]
    BY DEF AnswersBounded
  <2>1. Cardinality(Outstanding(m)) \in Nat /\ answers[m] \in Nat /\ posted[m] \in Nat
    BY FS_CardinalityType DEF AnswerInv, TypeOK
  <2> QED BY <2>1 DEF AnswerInv
<1> QED BY <1>1, <1>2, <1>3, SessionTypeCorrect, PTL DEF Spec
=============================================================================
