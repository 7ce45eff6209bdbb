------------------------ MODULE TaskExecutionProofs ------------------------
(***************************************************************************)
(* Proofs about TaskExecution, for every set of tasks and executions and   *)
(* every value of the limits.                                              *)
(***************************************************************************)
EXTENDS TaskExecution, FiniteSetTheorems, TLAPS

-----------------------------------------------------------------------------
(* The helpers never leave their ranges.                                   *)

LEMMA LeaseGrantInRange ==
    ASSUME TypeOK, NEW t \in Tasks
    PROVE  /\ LeaseGrant(t) \in 0..LeaseTime
           /\ LeaseGrant(t) <= deadlineLeft[t]
  BY ExecutionParameters DEF LeaseGrant, TypeOK

LEMMA RetryDelaysInRange ==
    ASSUME NEW n, NEW d \in RetryDelays(n)
    PROVE  d \in 0..MaxBackoff
  BY DEF RetryDelays

LEMMA EarlierInRange ==
    ASSUME NEW bound \in Nat, NEW f \in [Tasks -> 0..bound]
    PROVE  Earlier(f) \in [Tasks -> 0..bound]
  BY DEF Earlier

LEMMA AddedInRange ==
    ASSUME NEW f \in [Tasks -> SUBSET Execs], NEW t, NEW e \in Execs
    PROVE  [f EXCEPT ![t] = @ \cup {e}] \in [Tasks -> SUBSET Execs]
  OBVIOUS

LEMMA RaisedInRange ==
    ASSUME NEW f \in [Tasks -> BOOLEAN], NEW t
    PROVE  [f EXCEPT ![t] = TRUE] \in [Tasks -> BOOLEAN]
  OBVIOUS

-----------------------------------------------------------------------------

\* The state of every row, worker and history variable stays within its type:
\* in particular no timer runs below zero and no lease is ever granted for
\* longer than agent_task_lease_seconds.
THEOREM TypeCorrect == Spec => []TypeOK
<1>1. Init => TypeOK
  BY ExecutionParameters DEF Init, TypeOK, Statuses, Places
<1>2. TypeOK /\ [Next]_vars => TypeOK'
  <2> SUFFICES ASSUME TypeOK, [Next]_vars PROVE TypeOK'
    OBVIOUS
  <2> USE ExecutionParameters
  <2> USE DEF TypeOK, Statuses, Terminal, Places, Alive, InStream, Failing
  <2>1. ASSUME NEW t \in Tasks, Create(t) PROVE TypeOK'
    BY <2>1 DEF Create, worker, history
  <2>2. ASSUME NEW t \in Tasks, CancelTask(t) PROVE TypeOK'
    BY <2>2 DEF CancelTask, CloseRow, worker, history
  <2>3. ASSUME NEW t \in Tasks, Recover(t) PROVE TypeOK'
    BY <2>3 DEF Recover, Requeue, CloseRow, worker, history
  <2>4. ASSUME NEW t \in Tasks, RefuseClaim(t) PROVE TypeOK'
    BY <2>4 DEF RefuseClaim, CloseRow, worker, history
  <2>5. ASSUME NEW t \in Tasks, NEW e \in Execs, Claim(t, e) PROVE TypeOK'
    BY <2>5, LeaseGrantInRange DEF Claim, history
  <2>6. ASSUME NEW e \in Execs, Heartbeat(e) PROVE TypeOK'
    BY <2>6, LeaseGrantInRange DEF Heartbeat, OwnsLive, Owns, worker, history
  <2>7. ASSUME NEW e \in Execs, SaveUserMessage(e) PROVE TypeOK'
    BY <2>7 DEF SaveUserMessage, Goto, row
  <2>8. ASSUME NEW e \in Execs, CommitBarrier(e) PROVE TypeOK'
    BY <2>8 DEF CommitBarrier, Goto
  <2>9. ASSUME NEW e \in Execs, Dispatch(e) PROVE TypeOK'
    <3>1. dispatched' \in [Tasks -> SUBSET Execs]
      BY <2>9, AddedInRange DEF Dispatch
    <3>2. QED
      BY <2>9, <3>1 DEF Dispatch, Goto, row
  <2>10. ASSUME NEW e \in Execs, ToolReturns(e) PROVE TypeOK'
    BY <2>10 DEF ToolReturns, Goto, row, history
  <2>11. ASSUME NEW e \in Execs, SaveAnswer(e) PROVE TypeOK'
    <3>1. CASE AlreadySaved(job[e], "assistant")
      BY <2>11, <3>1 DEF SaveAnswer, Goto
    <3>2. CASE ~AlreadySaved(job[e], "assistant")
      <4>1. /\ answers' = [answers EXCEPT ![job[e]] = @ \cup {e}]
            /\ barriers' = [barriers EXCEPT ![job[e]] = @ \cup {e}]
            /\ blocked' = [blocked EXCEPT ![job[e]] = TRUE]
        BY <2>11, <3>2 DEF SaveAnswer
      <4>2. answers' \in [Tasks -> SUBSET Execs]
        BY <4>1, AddedInRange
      <4>3. barriers' \in [Tasks -> SUBSET Execs]
        BY <4>1, AddedInRange
      <4>4. blocked' \in [Tasks -> BOOLEAN]
        BY <4>1, RaisedInRange
      <4>5. QED
        BY <2>11, <4>2, <4>3, <4>4 DEF SaveAnswer, Goto
    <3>3. QED
      BY <3>1, <3>2
  <2>12. ASSUME NEW e \in Execs, LoseLease(e) PROVE TypeOK'
    BY <2>12 DEF LoseLease, Goto, row, history
  <2>13. ASSUME NEW e \in Execs, Succeed(e) PROVE TypeOK'
    BY <2>13 DEF Succeed, OwnsLive, Owns, CloseRow, Goto, history
  <2>14. ASSUME NEW e \in Execs, Fail(e) PROVE TypeOK'
    BY <2>14 DEF Fail, Goto, row, history
  <2>15. ASSUME NEW e \in Execs, Interrupt(e) PROVE TypeOK'
    BY <2>15 DEF Interrupt, Goto, row, history
  <2>16. ASSUME NEW e \in Execs, FinishOrRetry(e) PROVE TypeOK'
    <3>1. PICK delay \in RetryDelays(attempts[job[e]]) :
             \/ Requeue(job[e], delay)
             \/ CloseRow(job[e], "failed")
      BY <2>16 DEF FinishOrRetry
    <3>2. delay \in 0..MaxBackoff
      BY RetryDelaysInRange
    <3>3. UNCHANGED history /\ Goto(e, "gone") /\ job[e] \in Tasks
      BY <2>16 DEF FinishOrRetry, Owns
    <3>4. CASE Requeue(job[e], delay)
      BY <3>2, <3>3, <3>4 DEF Requeue, Goto, history
    <3>5. CASE CloseRow(job[e], "failed")
      BY <3>3, <3>5 DEF CloseRow, Goto, history
    <3>6. QED
      BY <3>1, <3>4, <3>5
  <2>17. ASSUME NEW e \in Execs, Leave(e) PROVE TypeOK'
    BY <2>17 DEF Leave, Goto, row, history
  <2>18. ASSUME NEW e \in Execs, Crash(e) PROVE TypeOK'
    BY <2>18 DEF Crash, Goto, row, history
  <2>19. CASE Tick
    <3>1. /\ Earlier(nextLeft) \in [Tasks -> 0..MaxBackoff]
          /\ Earlier(leaseLeft) \in [Tasks -> 0..LeaseTime]
          /\ Earlier(deadlineLeft) \in [Tasks -> 0..DeadlineTime]
      BY EarlierInRange
    <3>2. QED
      BY <2>19, <3>1 DEF Tick, worker, history
  <2>20. CASE UNCHANGED vars
    BY <2>20 DEF vars, row, worker, history
  <2>21. QED
    BY <2>1, <2>2, <2>3, <2>4, <2>5, <2>6, <2>7, <2>8, <2>9, <2>10, <2>11,
       <2>12, <2>13, <2>14, <2>15, <2>16, <2>17, <2>18, <2>19, <2>20
       DEF Next, TaskStep, ExecStep, Dequeue
<1>3. QED
  BY <1>1, <1>2, PTL DEF Spec

-----------------------------------------------------------------------------

LEMMA InvInit == Init => ExecutionInv
  BY ExecutionParameters
     DEF Init, ExecutionInv, HeldTokens, BarriersPinTheRow, ToolsHaveBarriers,
         EffectsHaveBarriers, OneBarrierOwner, MessagesInOrder

\* An execution that owns its row is the only one that can have committed a
\* barrier for it.
LEMMA OwnerSealedAlone ==
    ASSUME TypeOK, ExecutionInv, NEW e \in Execs, Owns(e)
    PROVE  /\ job[e] \in Tasks /\ token[job[e]] = e
           /\ barriers[job[e]] \subseteq {e}
<1>1. job[e] \in Tasks /\ token[job[e]] = e
  BY DEF Owns
<1>2. ASSUME NEW other \in barriers[job[e]] PROVE other = e
  BY <1>1, <1>2, ExecutionParameters DEF ExecutionInv, BarriersPinTheRow, TypeOK
<1>3. QED
  BY <1>1, <1>2

\* Committing a barrier, alone or with an answer, keeps the barriers in order.
LEMMA SealKeepsBarriers ==
    ASSUME TypeOK, ExecutionInv, NEW e \in Execs, OwnsLive(e), pc[e] = "streaming",
           NEW place \in Places \ {"new"}, Goto(e, place), UNCHANGED token,
           blocked' = [blocked EXCEPT ![job[e]] = TRUE],
           barriers' = [barriers EXCEPT ![job[e]] = @ \cup {e}]
    PROVE  /\ BarriersPinTheRow' /\ OneBarrierOwner'
           /\ e \in barriers'[job[e]]
           /\ \A t \in Tasks : barriers[t] \subseteq barriers'[t]
<1>1. /\ job[e] \in Tasks /\ token[job[e]] = e
      /\ barriers[job[e]] \subseteq {e}
  BY OwnerSealedAlone DEF OwnsLive
<1>2. /\ barriers'[job[e]] = {e}
      /\ \A t \in Tasks \ {job[e]} : barriers'[t] = barriers[t]
  BY <1>1 DEF TypeOK
<1>3. OneBarrierOwner'
  BY <1>1, <1>2 DEF OneBarrierOwner, ExecutionInv
<1>4. ASSUME NEW t \in Tasks, NEW other \in barriers'[t]
      PROVE  (blocked[t] /\ job[other] = t /\ pc[other] # "new"
                /\ token[t] \in {other, NoExec})'
  <2>1. CASE t = job[e]
    <3>1. other = e
      BY <1>2, <1>4, <2>1
    <3>2. blocked'[t] /\ pc'[other] # "new" /\ UNCHANGED <<job, token>>
      BY <3>1, <1>1, <2>1 DEF TypeOK, Goto
    <3>3. QED
      BY <3>1, <3>2, <1>1, <2>1
  <2>2. CASE t # job[e]
    <3>1. other \in barriers[t] /\ other \in Execs
      BY <1>2, <2>2, <1>4 DEF TypeOK
    <3>2. blocked[t] /\ job[other] = t /\ pc[other] # "new" /\ token[t] \in {other, NoExec}
      BY <3>1 DEF ExecutionInv, BarriersPinTheRow
    <3>3. blocked'[t] = blocked[t] /\ pc'[other] # "new" /\ UNCHANGED <<job, token>>
      BY <1>1, <2>2, <3>1, <3>2 DEF TypeOK, Goto
    <3>4. QED
      BY <3>2, <3>3
  <2>3. QED
    BY <2>1, <2>2
<1>5. QED
  BY <1>2, <1>3, <1>4 DEF BarriersPinTheRow

LEMMA CommitBarrierKeepsInv ==
    ASSUME TypeOK, ExecutionInv, NEW e \in Execs, CommitBarrier(e)
    PROVE  ExecutionInv'
<1>1. /\ OwnsLive(e) /\ pc[e] = "streaming" /\ Goto(e, "barrier")
      /\ blocked' = [blocked EXCEPT ![job[e]] = TRUE]
      /\ barriers' = [barriers EXCEPT ![job[e]] = @ \cup {e}]
      /\ UNCHANGED <<status, token, job, userSaves, answers, dispatched>>
  BY DEF CommitBarrier, Goto
<1>2. job[e] \in Tasks
  BY <1>1 DEF OwnsLive, Owns
<1>3. "barrier" \in Places \ {"new"}
  BY DEF Places, Alive, InStream
<1>4. /\ BarriersPinTheRow' /\ OneBarrierOwner' /\ e \in barriers'[job[e]]
      /\ \A t \in Tasks : barriers[t] \subseteq barriers'[t]
  BY <1>1, <1>3, SealKeepsBarriers
<1>5. HeldTokens'
  BY <1>1 DEF ExecutionInv, HeldTokens, TypeOK, Goto
<1>6. MessagesInOrder'
  BY <1>1 DEF ExecutionInv, MessagesInOrder, TypeOK, Goto
<1>7. ToolsHaveBarriers'
  BY <1>1, <1>2, <1>4 DEF ExecutionInv, ToolsHaveBarriers, TypeOK, Goto
<1>8. EffectsHaveBarriers'
  BY <1>1, <1>4 DEF ExecutionInv, EffectsHaveBarriers, TypeOK
<1>9. QED
  BY <1>4, <1>5, <1>6, <1>7, <1>8 DEF ExecutionInv

LEMMA SaveAnswerKeepsInv ==
    ASSUME TypeOK, ExecutionInv, NEW e \in Execs, SaveAnswer(e)
    PROVE  ExecutionInv'
<1>1. /\ OwnsLive(e) /\ pc[e] = "streaming" /\ Goto(e, "answered")
      /\ UNCHANGED <<status, token, job, userSaves, dispatched>>
  BY DEF SaveAnswer, Goto
<1>2. job[e] \in Tasks
  BY <1>1 DEF OwnsLive, Owns
<1>3. HeldTokens'
  BY <1>1 DEF ExecutionInv, HeldTokens, TypeOK, Goto
<1>4. CASE AlreadySaved(job[e], "assistant")
  <2>1. UNCHANGED <<answers, barriers, blocked>> /\ answers[job[e]] # {}
    BY <1>4 DEF SaveAnswer, AlreadySaved
  <2>2. BarriersPinTheRow' /\ ToolsHaveBarriers' /\ EffectsHaveBarriers' /\ OneBarrierOwner'
    BY <1>1, <2>1 DEF ExecutionInv, BarriersPinTheRow, ToolsHaveBarriers,
                      EffectsHaveBarriers, OneBarrierOwner, TypeOK, Goto
  <2>3. MessagesInOrder'
    BY <1>1, <2>1 DEF ExecutionInv, MessagesInOrder, TypeOK, Goto
  <2>4. QED
    BY <1>3, <2>2, <2>3 DEF ExecutionInv
<1>5. CASE ~AlreadySaved(job[e], "assistant")
  <2>1. /\ answers' = [answers EXCEPT ![job[e]] = @ \cup {e}]
        /\ barriers' = [barriers EXCEPT ![job[e]] = @ \cup {e}]
        /\ blocked' = [blocked EXCEPT ![job[e]] = TRUE]
    BY <1>5 DEF SaveAnswer
  <2>2. "answered" \in Places \ {"new"}
    BY DEF Places, Alive, InStream
  <2>3. /\ BarriersPinTheRow' /\ OneBarrierOwner' /\ e \in barriers'[job[e]]
        /\ \A t \in Tasks : barriers[t] \subseteq barriers'[t]
    BY <1>1, <2>1, <2>2, SealKeepsBarriers
  <2>4. ToolsHaveBarriers'
    BY <1>1, <2>3 DEF ExecutionInv, ToolsHaveBarriers, TypeOK, Goto
  <2>5. EffectsHaveBarriers'
    BY <1>1, <1>2, <2>1, <2>3 DEF ExecutionInv, EffectsHaveBarriers, TypeOK
  <2>6. MessagesInOrder'
    BY <1>1, <1>2, <2>1 DEF ExecutionInv, MessagesInOrder, TypeOK, Goto
  <2>7. QED
    BY <1>3, <2>3, <2>4, <2>5, <2>6 DEF ExecutionInv
<1>6. QED
  BY <1>4, <1>5

LEMMA InvNext == TypeOK /\ ExecutionInv /\ [Next]_vars => ExecutionInv'
<1> SUFFICES ASSUME TypeOK, ExecutionInv, [Next]_vars PROVE ExecutionInv'
  OBVIOUS
<1> USE ExecutionParameters
<1> USE DEF TypeOK, ExecutionInv, HeldTokens, BarriersPinTheRow, ToolsHaveBarriers,
            EffectsHaveBarriers, OneBarrierOwner, MessagesInOrder
<1>1. ASSUME NEW t \in Tasks, Create(t) PROVE ExecutionInv'
  BY <1>1 DEF Create, worker, history
<1>2. ASSUME NEW t \in Tasks, CancelTask(t) PROVE ExecutionInv'
  BY <1>2 DEF CancelTask, CloseRow, worker, history
<1>3. ASSUME NEW t \in Tasks, Recover(t) PROVE ExecutionInv'
  BY <1>3 DEF Recover, Requeue, CloseRow, worker, history
<1>4. ASSUME NEW t \in Tasks, RefuseClaim(t) PROVE ExecutionInv'
  BY <1>4 DEF RefuseClaim, CloseRow, worker, history
<1>5. ASSUME NEW t \in Tasks, NEW e \in Execs, Claim(t, e) PROVE ExecutionInv'
  BY <1>5 DEF Claim, ClaimError, history
<1>6. ASSUME NEW e \in Execs, Heartbeat(e) PROVE ExecutionInv'
  BY <1>6 DEF Heartbeat, worker, history
<1>7. ASSUME NEW e \in Execs, SaveUserMessage(e) PROVE ExecutionInv'
  <2>1. job[e] \in Tasks /\ Goto(e, "streaming") /\ pc[e] = "started"
    BY <1>7 DEF SaveUserMessage, OwnsLive, Owns
  <2>2. /\ userSaves'[job[e]] # {}
        /\ \A t \in Tasks : userSaves[t] # {} => userSaves'[t] # {}
    BY <1>7, <2>1 DEF SaveUserMessage, AlreadySaved
  <2>3. UNCHANGED <<status, token, blocked, answers, barriers, dispatched>>
    BY <1>7 DEF SaveUserMessage, row
  <2>4. HeldTokens' /\ BarriersPinTheRow' /\ ToolsHaveBarriers'
    BY <2>1, <2>3 DEF Goto
  <2>5. EffectsHaveBarriers' /\ OneBarrierOwner'
    BY <2>3
  <2>6. MessagesInOrder'
    BY <2>1, <2>2, <2>3 DEF Goto
  <2>7. QED
    BY <2>4, <2>5, <2>6
<1>8. ASSUME NEW e \in Execs, CommitBarrier(e) PROVE ExecutionInv'
  BY <1>8, CommitBarrierKeepsInv
<1>9. ASSUME NEW e \in Execs, Dispatch(e) PROVE ExecutionInv'
  BY <1>9 DEF Dispatch, Goto, row
<1>10. ASSUME NEW e \in Execs, ToolReturns(e) PROVE ExecutionInv'
  BY <1>10 DEF ToolReturns, Goto, row, history
<1>11. ASSUME NEW e \in Execs, SaveAnswer(e) PROVE ExecutionInv'
  BY <1>11, SaveAnswerKeepsInv
<1>12. ASSUME NEW e \in Execs, LoseLease(e) PROVE ExecutionInv'
  BY <1>12 DEF LoseLease, Goto, row, history
<1>13. ASSUME NEW e \in Execs, Succeed(e) PROVE ExecutionInv'
  BY <1>13 DEF Succeed, OwnsLive, Owns, CloseRow, Goto, history
<1>14. ASSUME NEW e \in Execs, Fail(e) PROVE ExecutionInv'
  BY <1>14 DEF Fail, Goto, row, history, InStream, Failing
<1>15. ASSUME NEW e \in Execs, Interrupt(e) PROVE ExecutionInv'
  BY <1>15 DEF Interrupt, Goto, row, history, InStream, Failing
<1>16. ASSUME NEW e \in Execs, FinishOrRetry(e) PROVE ExecutionInv'
  BY <1>16 DEF FinishOrRetry, Owns, Requeue, CloseRow, Goto, history, Failing
<1>17. ASSUME NEW e \in Execs, Leave(e) PROVE ExecutionInv'
  BY <1>17 DEF Leave, Goto, row, history, Failing
<1>18. ASSUME NEW e \in Execs, Crash(e) PROVE ExecutionInv'
  BY <1>18 DEF Crash, Goto, row, history, Alive, InStream, Failing
<1>19. CASE Tick
  BY <1>19 DEF Tick, worker, history
<1>20. CASE UNCHANGED vars
  BY <1>20 DEF vars, row, worker, history
<1>21. QED
  BY <1>1, <1>2, <1>3, <1>4, <1>5, <1>6, <1>7, <1>8, <1>9, <1>10, <1>11,
     <1>12, <1>13, <1>14, <1>15, <1>16, <1>17, <1>18, <1>19, <1>20
     DEF Next, TaskStep, ExecStep, Dequeue

-----------------------------------------------------------------------------

\* The type invariant and the inductive invariant hold together: a row's token
\* always names the worker that claimed it, and a row whose replay is barred
\* belongs to the execution that barred it for good.
THEOREM ExecutionInvariant == Spec => [](TypeOK /\ ExecutionInv)
<1>1. Init => ExecutionInv
  BY InvInit
<1>2. TypeOK /\ TypeOK' /\ ExecutionInv /\ [Next]_vars => ExecutionInv'
  BY InvNext
<1>3. QED
  BY <1>1, <1>2, TypeCorrect, PTL DEF Spec

\* All tool calls and answers of a task come from one execution: the promise of
\* the replay barrier that ToolExecutor.run and _save_message commit.
THEOREM OneExecutionActs == Spec => []EffectsOfOneExecution
<1>1. ExecutionInv => EffectsOfOneExecution
  BY DEF ExecutionInv, EffectsHaveBarriers, OneBarrierOwner, EffectsOfOneExecution
<1>2. QED
  BY <1>1, ExecutionInvariant, PTL

\* Whatever got out of a task, its row was already barred from replay.
THEOREM EffectsAreBarred == Spec => []EffectsBehindBarrier
<1>1. ExecutionInv => EffectsBehindBarrier
  BY DEF ExecutionInv, EffectsHaveBarriers, BarriersPinTheRow, EffectsBehindBarrier
<1>2. QED
  BY <1>1, ExecutionInvariant, PTL

\* A task that is reported as succeeded has one saved answer and its prompt in
\* the conversation.
THEOREM SuccessIsAnswered == Spec => []SuccessHasItsAnswer
<1>1. TypeOK /\ ExecutionInv => SuccessHasItsAnswer
  <2> SUFFICES ASSUME TypeOK, ExecutionInv, NEW t \in Tasks, status[t] = "succeeded"
               PROVE  Cardinality(answers[t]) = 1 /\ userSaves[t] # {}
    BY DEF SuccessHasItsAnswer
  <2>1. userSaves[t] # {} /\ answers[t] # {}
    BY DEF ExecutionInv, MessagesInOrder
  <2>2. PICK e \in answers[t] : TRUE
    BY <2>1
  <2>3. answers[t] = {e}
    BY <2>2 DEF ExecutionInv, EffectsHaveBarriers, OneBarrierOwner
  <2>4. QED
    BY <2>1, <2>3, FS_Singleton
<1>2. QED
  BY <1>1, ExecutionInvariant, PTL

\* Only _save_message with role user adds a prompt, and it looks first.
THEOREM PromptsAreShownOnce == Spec => []PromptShownOnce
<1>1. Init => PromptShownOnce
  BY DEF Init, PromptShownOnce
<1>2. TypeOK /\ PromptShownOnce /\ [Next]_vars => PromptShownOnce'
  <2> SUFFICES ASSUME TypeOK, PromptShownOnce, [Next]_vars PROVE PromptShownOnce'
    OBVIOUS
  <2>1. ASSUME NEW e \in Execs, SaveUserMessage(e) PROVE PromptShownOnce'
    <3>1. CASE AlreadySaved(job[e], "user")
      BY <2>1, <3>1 DEF SaveUserMessage, PromptShownOnce
    <3>2. CASE ~AlreadySaved(job[e], "user")
      <4>1. job[e] \in Tasks /\ userSaves[job[e]] = {}
        BY <2>1, <3>2 DEF SaveUserMessage, OwnsLive, Owns, AlreadySaved
      <4>2. userSaves' = [userSaves EXCEPT ![job[e]] = {e}]
        BY <2>1, <3>2, <4>1 DEF SaveUserMessage, TypeOK
      <4>3. QED
        BY <4>1, <4>2 DEF PromptShownOnce, TypeOK
    <3>3. QED
      BY <3>1, <3>2
  <2>2. CASE UNCHANGED userSaves
    BY <2>2 DEF PromptShownOnce
  <2>3. QED
    BY <2>1, <2>2
       DEF Next, TaskStep, ExecStep, Dequeue, Create, CancelTask, Recover, RefuseClaim,
           Claim, Heartbeat, CommitBarrier, Dispatch, ToolReturns, SaveAnswer, LoseLease,
           Succeed, Fail, Interrupt, FinishOrRetry, Leave, Crash, Tick, vars, history
<1>3. QED
  BY <1>1, <1>2, TypeCorrect, PTL DEF Spec

-----------------------------------------------------------------------------
(* The limits: attempts, leases, retry times.                              *)

LEMMA TimersNext == TypeOK /\ ExecutionInv /\ TimersInOrder /\ [Next]_vars => TimersInOrder'
<1> SUFFICES ASSUME TypeOK, ExecutionInv, TimersInOrder, [Next]_vars PROVE TimersInOrder'
  OBVIOUS
<1> USE ExecutionParameters
<1> USE DEF TypeOK, TimersInOrder, AttemptBudget, RetryComesBeforeDeadline,
            LeaseEndsByDeadline
<1>1. ASSUME NEW t \in Tasks, Create(t) PROVE TimersInOrder'
  <2>1. token[t] \notin Execs
    BY <1>1 DEF Create, ExecutionInv, HeldTokens
  <2>2. QED
    BY <1>1, <2>1 DEF Create, worker, history
<1>2. ASSUME NEW t \in Tasks, CancelTask(t) PROVE TimersInOrder'
  BY <1>2 DEF CancelTask, CloseRow, worker, history
<1>3. ASSUME NEW t \in Tasks, Recover(t) PROVE TimersInOrder'
  BY <1>3 DEF Recover, MayReplay, Requeue, CloseRow, worker, history
<1>4. ASSUME NEW t \in Tasks, RefuseClaim(t) PROVE TimersInOrder'
  BY <1>4 DEF RefuseClaim, CloseRow, worker, history
<1>5. ASSUME NEW t \in Tasks, NEW e \in Execs, Claim(t, e) PROVE TimersInOrder'
  BY <1>5, LeaseGrantInRange DEF Claim, ClaimError, history
<1>6. ASSUME NEW e \in Execs, Heartbeat(e) PROVE TimersInOrder'
  BY <1>6, LeaseGrantInRange DEF Heartbeat, OwnsLive, Owns, worker, history
<1>7. ASSUME NEW e \in Execs, SaveUserMessage(e) PROVE TimersInOrder'
  BY <1>7 DEF SaveUserMessage, Goto, row
<1>8. ASSUME NEW e \in Execs, CommitBarrier(e) PROVE TimersInOrder'
  BY <1>8 DEF CommitBarrier, Goto
<1>9. ASSUME NEW e \in Execs, Dispatch(e) PROVE TimersInOrder'
  BY <1>9 DEF Dispatch, Goto, row
<1>10. ASSUME NEW e \in Execs, ToolReturns(e) PROVE TimersInOrder'
  BY <1>10 DEF ToolReturns, Goto, row, history
<1>11. ASSUME NEW e \in Execs, SaveAnswer(e) PROVE TimersInOrder'
  BY <1>11 DEF SaveAnswer, Goto
<1>12. ASSUME NEW e \in Execs, LoseLease(e) PROVE TimersInOrder'
  BY <1>12 DEF LoseLease, Goto, row, history
<1>13. ASSUME NEW e \in Execs, Succeed(e) PROVE TimersInOrder'
  BY <1>13 DEF Succeed, OwnsLive, Owns, CloseRow, Goto, history
<1>14. ASSUME NEW e \in Execs, Fail(e) PROVE TimersInOrder'
  BY <1>14 DEF Fail, Goto, row, history
<1>15. ASSUME NEW e \in Execs, Interrupt(e) PROVE TimersInOrder'
  BY <1>15 DEF Interrupt, Goto, row, history
<1>16. ASSUME NEW e \in Execs, FinishOrRetry(e) PROVE TimersInOrder'
  <2>1. job[e] \in Tasks /\ Goto(e, "gone")
    BY <1>16 DEF FinishOrRetry, Owns
  <2>2. PICK delay \in RetryDelays(attempts[job[e]]) :
           \/ MayRetry(job[e], e, delay) /\ Requeue(job[e], delay)
           \/ CloseRow(job[e], "failed")
    BY <1>16 DEF FinishOrRetry
  <2>3. delay \in 0..MaxBackoff
    BY RetryDelaysInRange
  <2>4. CASE MayRetry(job[e], e, delay) /\ Requeue(job[e], delay)
    BY <2>1, <2>3, <2>4 DEF MayRetry, Requeue
  <2>5. CASE CloseRow(job[e], "failed")
    BY <2>1, <2>5 DEF CloseRow
  <2>6. QED
    BY <2>2, <2>4, <2>5
<1>17. ASSUME NEW e \in Execs, Leave(e) PROVE TimersInOrder'
  BY <1>17 DEF Leave, Goto, row, history
<1>18. ASSUME NEW e \in Execs, Crash(e) PROVE TimersInOrder'
  BY <1>18 DEF Crash, Goto, row, history
<1>19. CASE Tick
  BY <1>19 DEF Tick, Earlier, Pending, worker, history
<1>20. CASE UNCHANGED vars
  BY <1>20 DEF vars, row, worker, history
<1>21. QED
  BY <1>1, <1>2, <1>3, <1>4, <1>5, <1>6, <1>7, <1>8, <1>9, <1>10, <1>11,
     <1>12, <1>13, <1>14, <1>15, <1>16, <1>17, <1>18, <1>19, <1>20
     DEF Next, TaskStep, ExecStep, Dequeue

\* The limits hold together: attempts, retry times and leases of a row only
\* stay in bounds because each step keeps all of them.
THEOREM TimersInvariant == Spec => []TimersInOrder
<1>1. Init => TimersInOrder
  BY ExecutionParameters
     DEF Init, LegacyRow, TimersInOrder, AttemptBudget, RetryComesBeforeDeadline,
         LeaseEndsByDeadline
<1>2. QED
  BY <1>1, TimersNext, ExecutionInvariant, PTL DEF Spec

\* No row is tried more often than max_attempts, however often it is recovered,
\* retried or restarted, and none waits for an attempt it does not have.
THEOREM BudgetHolds == Spec => []AttemptBudget
<1>1. TimersInOrder => AttemptBudget
  BY DEF TimersInOrder
<1>2. QED
  BY <1>1, TimersInvariant, PTL

\* _finish_or_retry and recovery put a row back only with time left to run.
THEOREM RetriesAreInTime == Spec => []RetryComesBeforeDeadline
<1>1. TimersInOrder => RetryComesBeforeDeadline
  BY DEF TimersInOrder
<1>2. QED
  BY <1>1, TimersInvariant, PTL

\* Neither claim nor heartbeat leases a row beyond its deadline.
THEOREM LeasesAreInTime == Spec => []LeaseEndsByDeadline
<1>1. TimersInOrder => LeaseEndsByDeadline
  BY DEF TimersInOrder
<1>2. QED
  BY <1>1, TimersInvariant, PTL

-----------------------------------------------------------------------------
(* What a step may never do.                                               *)

\* No step takes an attempt back.
THEOREM NoRefund == Spec => BudgetNeverRefunded
<1>1. TypeOK /\ [Next]_vars => [\A t \in Tasks : attempts'[t] >= attempts[t]]_vars
  <2> SUFFICES ASSUME TypeOK, Next, NEW t \in Tasks PROVE attempts'[t] >= attempts[t]
    OBVIOUS
  <2>1. \/ UNCHANGED attempts
        \/ \E s \in Tasks : attempts' = [attempts EXCEPT ![s] = @ + 1]
    BY DEF Next, TaskStep, ExecStep, Dequeue, Create, CancelTask, Recover, RefuseClaim,
           Claim, Heartbeat, SaveUserMessage, CommitBarrier, Dispatch, ToolReturns,
           SaveAnswer, LoseLease, Succeed, Fail, Interrupt, FinishOrRetry, Leave, Crash,
           Tick, Requeue, CloseRow, row
  <2>2. QED
    BY <2>1 DEF TypeOK
<1>2. QED
  BY <1>1, TypeCorrect, PTL DEF Spec, BudgetNeverRefunded

\* A row that is over, and the messages of its task, never change again: every
\* later write finds the status, and so the ownership, gone.
THEOREM EndIsFinal == Spec => EndedTasksStayEnded
<1> DEFINE Frozen(t) ==
      /\ status'[t] = status[t] /\ token'[t] = token[t]
      /\ attempts'[t] = attempts[t] /\ blocked'[t] = blocked[t]
      /\ userSaves'[t] = userSaves[t] /\ answers'[t] = answers[t]
<1>1. TypeOK /\ [Next]_vars => [\A t \in Tasks : status[t] \in Terminal => Frozen(t)]_vars
  <2> SUFFICES ASSUME TypeOK, Next, NEW t \in Tasks, status[t] \in Terminal
               PROVE  Frozen(t)
    OBVIOUS
  <2>1. ASSUME NEW s \in Tasks, TaskStep(s) PROVE Frozen(t)
    BY <2>1 DEF TaskStep, Dequeue, Create, CancelTask, Recover, RefuseClaim, Claim,
                Requeue, CloseRow, history, Terminal, TypeOK
  <2>2. ASSUME NEW e \in Execs, ExecStep(e), Owns(e) PROVE Frozen(t)
    <3>1. job[e] \in Tasks /\ job[e] # t
      BY <2>2 DEF Owns, Terminal
    <3>2. QED
      BY <2>2, <3>1
         DEF ExecStep, Heartbeat, SaveUserMessage, CommitBarrier, Dispatch, ToolReturns,
             SaveAnswer, LoseLease, Succeed, Fail, Interrupt, FinishOrRetry, Leave, Crash,
             Requeue, CloseRow, row, history, TypeOK
  <2>3. ASSUME NEW e \in Execs, ExecStep(e), ~Owns(e) PROVE Frozen(t)
    BY <2>3 DEF ExecStep, OwnsLive, Heartbeat, SaveUserMessage, CommitBarrier, Dispatch,
                ToolReturns, SaveAnswer, LoseLease, Succeed, Fail, Interrupt,
                FinishOrRetry, Leave, Crash, row, history
  <2>4. CASE Tick
    BY <2>4 DEF Tick, history
  <2>5. QED
    BY <2>1, <2>2, <2>3, <2>4 DEF Next
<1>2. QED
  BY <1>1, TypeCorrect, PTL DEF Spec, EndedTasksStayEnded

\* A live attempt is taken from its worker by nobody but the user.
THEOREM LiveAttemptsAreKept == Spec => LiveAttemptEndsItself
<1> DEFINE Kept(t) == \/ token'[t] = token[t]
                      \/ pc'[token[t]] # pc[token[t]]
                      \/ status'[t] = "cancelled"
<1>1. TypeOK /\ [Next]_vars =>
        [\A t \in Tasks : status[t] = "running" /\ token[t] \in Execs /\ leaseLeft[t] > 0
            => Kept(t)]_vars
  <2> SUFFICES ASSUME TypeOK, Next, NEW t \in Tasks, status[t] = "running",
                      token[t] \in Execs, leaseLeft[t] > 0
               PROVE  Kept(t)
    OBVIOUS
  <2>1. ASSUME NEW s \in Tasks, TaskStep(s) PROVE Kept(t)
    BY <2>1 DEF TaskStep, Dequeue, Create, CancelTask, Recover, RefuseClaim, Claim,
                Requeue, CloseRow, TypeOK
  <2>2. ASSUME NEW e \in Execs, Succeed(e) PROVE Kept(t)
    BY <2>2 DEF Succeed, OwnsLive, Owns, CloseRow, Goto, TypeOK
  <2>3. ASSUME NEW e \in Execs, FinishOrRetry(e) PROVE Kept(t)
    BY <2>3 DEF FinishOrRetry, Owns, Requeue, CloseRow, Goto, Failing, TypeOK
  <2>4. ASSUME NEW e \in Execs, ExecStep(e), ~Succeed(e), ~FinishOrRetry(e) PROVE Kept(t)
    BY <2>4 DEF ExecStep, Heartbeat, SaveUserMessage, CommitBarrier, Dispatch,
                ToolReturns, SaveAnswer, LoseLease, Fail, Interrupt, Leave, Crash, row
  <2>5. CASE Tick
    BY <2>5 DEF Tick
  <2>6. QED
    BY <2>1, <2>2, <2>3, <2>4, <2>5 DEF Next
<1>2. QED
  BY <1>1, TypeCorrect, PTL DEF Spec, LiveAttemptEndsItself

-----------------------------------------------------------------------------
(* Rows and workers implement the promise of the queue.                    *)

LEMMA LifecycleInit == Init => Lifecycle!Init
<1> SUFFICES ASSUME Init PROVE Lifecycle!Init
  OBVIOUS
<1>1. [t \in Tasks |-> Phase(status[t])] \in [Tasks -> {"absent", "waiting", "trying"}]
  BY DEF Init, Phase
<1>2. attempts \in [Tasks -> 0..MaxAttempts]
  BY ExecutionParameters DEF Init
<1>3. [t \in Tasks |-> dispatched[t] \cup answers[t]] = [t \in Tasks |-> {}]
  BY DEF Init
<1>4. QED
  BY <1>1, <1>2, <1>3 DEF Lifecycle!Init, Init

\* The effects of the abstract queue are the calls handed over and the answers.
LEMMA EffectsGrow ==
    ASSUME TypeOK, NEW t \in Tasks, NEW e \in Execs,
           \/ /\ dispatched' = [dispatched EXCEPT ![t] = @ \cup {e}]
              /\ answers' = answers
           \/ /\ answers' = [answers EXCEPT ![t] = @ \cup {e}]
              /\ dispatched' = dispatched
    PROVE  [s \in Tasks |-> dispatched'[s] \cup answers'[s]]
             = [[s \in Tasks |-> dispatched[s] \cup answers[s]] EXCEPT ![t] = @ \cup {e}]
  BY DEF TypeOK

\* Steps that touch neither rows nor effects are stuttering steps.
LEMMA LifecycleStutters ==
    ASSUME UNCHANGED <<status, attempts, blocked, barriers, dispatched, answers>>
    PROVE  UNCHANGED Lifecycle!vars
  BY DEF Lifecycle!vars, Phase

LEMMA LifecycleClose ==
    ASSUME TypeOK, NEW t \in Tasks, status[t] \in {"queued", "running"},
           NEW outcome \in Terminal, CloseRow(t, outcome),
           UNCHANGED <<barriers, dispatched, answers>>
    PROVE  Lifecycle!End(t)
  BY DEF Lifecycle!End, CloseRow, Phase, Terminal, TypeOK

LEMMA LifecycleRequeue ==
    ASSUME TypeOK, NEW t \in Tasks, status[t] = "running", ~blocked[t],
           NEW delay, Requeue(t, delay), UNCHANGED <<barriers, dispatched, answers>>
    PROVE  Lifecycle!GiveBack(t)
  BY DEF Lifecycle!GiveBack, Requeue, Phase, TypeOK

LEMMA LifecycleNext ==
    TypeOK /\ ExecutionInv /\ [Next]_vars => [Lifecycle!Next]_Lifecycle!vars
<1> SUFFICES ASSUME TypeOK, ExecutionInv, [Next]_vars
             PROVE  Lifecycle!Next \/ UNCHANGED Lifecycle!vars
  OBVIOUS
<1> USE DEF Lifecycle!Next
<1>1. ASSUME NEW t \in Tasks, Create(t) PROVE Lifecycle!Submit(t)
  BY <1>1 DEF Create, Lifecycle!Submit, Phase, history, TypeOK
<1>2. ASSUME NEW t \in Tasks, CancelTask(t) PROVE Lifecycle!End(t)
  BY <1>2, LifecycleClose DEF CancelTask, Terminal, history
<1>3. ASSUME NEW t \in Tasks, Recover(t) PROVE Lifecycle!End(t) \/ Lifecycle!GiveBack(t)
  <2>1. CASE MayReplay(t)
    BY <1>3, <2>1, LifecycleRequeue DEF Recover, MayReplay, history
  <2>2. CASE ~MayReplay(t)
    BY <1>3, <2>2, LifecycleClose DEF Recover, Terminal, history
  <2>3. QED
    BY <2>1, <2>2
<1>4. ASSUME NEW t \in Tasks, RefuseClaim(t) PROVE Lifecycle!End(t)
  BY <1>4, LifecycleClose DEF RefuseClaim, Terminal, history
<1>5. ASSUME NEW t \in Tasks, NEW e \in Execs, Claim(t, e) PROVE Lifecycle!Try(t)
  <2>1. /\ status[t] = "queued" /\ ~blocked[t] /\ ~(attempts[t] >= MaxAttempts)
        /\ status' = [status EXCEPT ![t] = "running"]
        /\ attempts' = [attempts EXCEPT ![t] = @ + 1]
        /\ UNCHANGED <<blocked, barriers, dispatched, answers>>
    BY <1>5 DEF Claim, ClaimError, history
  <2>2. attempts[t] < MaxAttempts
    BY <2>1, ExecutionParameters DEF TypeOK
  <2>3. [s \in Tasks |-> Phase(status'[s])]
          = [[s \in Tasks |-> Phase(status[s])] EXCEPT ![t] = "trying"]
    BY <2>1 DEF Phase, TypeOK
  <2>4. QED
    BY <2>1, <2>2, <2>3 DEF Lifecycle!Try, Phase
<1>6. ASSUME NEW e \in Execs, CommitBarrier(e) PROVE Lifecycle!Seal(job[e], e)
  <2>1. Owns(e) /\ UNCHANGED <<status, attempts, dispatched, answers>>
    BY <1>6 DEF CommitBarrier, OwnsLive
  <2>2. job[e] \in Tasks /\ status[job[e]] = "running" /\ barriers[job[e]] \subseteq {e}
    BY <2>1, OwnerSealedAlone DEF Owns
  <2>3. /\ blocked' = [blocked EXCEPT ![job[e]] = TRUE]
        /\ barriers' = [barriers EXCEPT ![job[e]] = {e}]
    BY <1>6, <2>2 DEF CommitBarrier, TypeOK
  <2>4. QED
    BY <2>1, <2>2, <2>3 DEF Lifecycle!Seal, Phase
<1>7. ASSUME NEW e \in Execs, Dispatch(e) PROVE Lifecycle!Effect(job[e], e)
  <2>1. job[e] \in Tasks /\ barriers[job[e]] = {e}
    BY <1>7 DEF Dispatch, ExecutionInv, ToolsHaveBarriers, OneBarrierOwner
  <2>2. UNCHANGED <<status, attempts, blocked, barriers, answers>>
    BY <1>7 DEF Dispatch, row
  <2>3. [s \in Tasks |-> dispatched'[s] \cup answers'[s]]
          = [[s \in Tasks |-> dispatched[s] \cup answers[s]] EXCEPT ![job[e]] = @ \cup {e}]
    BY <1>7, <2>1, <2>2, EffectsGrow DEF Dispatch
  <2>4. QED
    BY <2>1, <2>2, <2>3 DEF Lifecycle!Effect
<1>8. ASSUME NEW e \in Execs, SaveAnswer(e)
      PROVE  Lifecycle!Seal(job[e], e) \/ UNCHANGED Lifecycle!vars
  <2>1. Owns(e) /\ UNCHANGED <<status, attempts, dispatched>>
    BY <1>8 DEF SaveAnswer, OwnsLive
  <2>2. job[e] \in Tasks /\ status[job[e]] = "running" /\ barriers[job[e]] \subseteq {e}
    BY <2>1, OwnerSealedAlone DEF Owns
  <2>3. CASE AlreadySaved(job[e], "assistant")
    BY <1>8, <2>1, <2>3, LifecycleStutters DEF SaveAnswer
  <2>4. CASE ~AlreadySaved(job[e], "assistant")
    <3>1. /\ blocked' = [blocked EXCEPT ![job[e]] = TRUE]
          /\ answers' = [answers EXCEPT ![job[e]] = @ \cup {e}]
          /\ barriers' = [barriers EXCEPT ![job[e]] = {e}]
      BY <1>8, <2>2, <2>4 DEF SaveAnswer, TypeOK
    <3>2. [s \in Tasks |-> dispatched'[s] \cup answers'[s]]
          = [[s \in Tasks |-> dispatched[s] \cup answers[s]] EXCEPT ![job[e]] = @ \cup {e}]
      BY <2>1, <2>2, <3>1, EffectsGrow
    <3>3. QED
      BY <2>1, <2>2, <3>1, <3>2 DEF Lifecycle!Seal, Phase
  <2>5. QED
    BY <2>3, <2>4
<1>9. ASSUME NEW e \in Execs, Succeed(e) PROVE Lifecycle!End(job[e])
  BY <1>9, LifecycleClose DEF Succeed, OwnsLive, Owns, Terminal, history
<1>10. ASSUME NEW e \in Execs, FinishOrRetry(e)
       PROVE  Lifecycle!End(job[e]) \/ Lifecycle!GiveBack(job[e])
  <2>1. /\ job[e] \in Tasks /\ status[job[e]] = "running"
        /\ UNCHANGED <<barriers, dispatched, answers>>
    BY <1>10 DEF FinishOrRetry, Owns, history
  <2>2. PICK delay \in RetryDelays(attempts[job[e]]) :
           \/ MayRetry(job[e], e, delay) /\ Requeue(job[e], delay)
           \/ CloseRow(job[e], "failed")
    BY <1>10 DEF FinishOrRetry
  <2>3. CASE MayRetry(job[e], e, delay) /\ Requeue(job[e], delay)
    BY <2>1, <2>3, LifecycleRequeue DEF MayRetry
  <2>4. CASE CloseRow(job[e], "failed")
    BY <2>1, <2>4, LifecycleClose DEF Terminal
  <2>5. QED
    BY <2>2, <2>3, <2>4
<1>11. ASSUME NEW e \in Execs,
              \/ Heartbeat(e) \/ SaveUserMessage(e) \/ ToolReturns(e) \/ LoseLease(e)
              \/ Fail(e) \/ Interrupt(e) \/ Leave(e) \/ Crash(e)
       PROVE  UNCHANGED Lifecycle!vars
  BY <1>11, LifecycleStutters
     DEF Heartbeat, SaveUserMessage, ToolReturns, LoseLease, Fail, Interrupt, Leave, Crash,
         row, history
<1>12. CASE Tick
  BY <1>12, LifecycleStutters DEF Tick, history
<1>13. CASE UNCHANGED vars
  BY <1>13, LifecycleStutters DEF vars, row, history
<1>14. ASSUME NEW e \in Execs, ExecStep(e) PROVE Lifecycle!Next \/ UNCHANGED Lifecycle!vars
  <2>1. CASE CommitBarrier(e) \/ Dispatch(e) \/ Succeed(e) \/ FinishOrRetry(e) \/ SaveAnswer(e)
    <3>1. job[e] \in Tasks
      BY <2>1 DEF CommitBarrier, Dispatch, Succeed, FinishOrRetry, SaveAnswer, OwnsLive, Owns,
                  ExecutionInv, ToolsHaveBarriers
    <3>2. QED
      BY <2>1, <3>1, <1>6, <1>7, <1>8, <1>9, <1>10
  <2>2. QED
    BY <1>14, <2>1, <1>11 DEF ExecStep
<1>15. QED
  BY <1>1, <1>2, <1>3, <1>4, <1>5, <1>12, <1>13, <1>14 DEF Next, TaskStep, Dequeue

\* Every behaviour of the rows and their workers is a behaviour of the abstract
\* queue: a task is tried at most max_attempts times, ends once, and nobody but
\* the execution that sealed it acts for it, even after its end.
THEOREM Refinement == Spec => ImplementsLifecycle
  BY LifecycleInit, LifecycleNext, ExecutionInvariant, PTL
     DEF ImplementsLifecycle, Spec, Lifecycle!Spec
=============================================================================
