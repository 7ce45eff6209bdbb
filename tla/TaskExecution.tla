--------------------------- MODULE TaskExecution ---------------------------
(***************************************************************************)
(* The durable execution of one background agent task after another by     *)
(* competing workers: AgentTaskRunner (claim, run, finish, retry), the     *)
(* execution lease, the heartbeat, lease recovery by the scheduler, the    *)
(* cancel endpoint, and the points where the agent graph and the tool      *)
(* executor write under the lease.                                         *)
(*                                                                         *)
(* Every locked transaction of the code (SELECT ... FOR UPDATE, checks,    *)
(* writes, COMMIT) is one action. Anything may happen between two          *)
(* transactions of an execution, because no lock is held there.            *)
(*                                                                         *)
(* Instants of the row (lease_expires_at, deadline_at, next_attempt_at)    *)
(* are kept as the time LEFT until them: 0 stands for an instant that has  *)
(* come. That makes "x <= now" the test left[x] = 0, makes time unbounded, *)
(* and makes the state space finite. NULL in lease_expires_at and          *)
(* next_attempt_at is tested everywhere like an instant in the past, so it *)
(* is 0 too.                                                               *)
(***************************************************************************)
EXTENDS Naturals, FiniteSets

CONSTANTS
    Tasks,          \* rows of the tasks table with kind = "agent"
    Execs,          \* execution tokens: uuid4 draws one of them at each claim
    NoExec,         \* run_token IS NULL
    NoTask,         \* an execution that has not claimed anything
    NoPrompt,       \* the tasks whose stored input holds no prompt
    MaxAttempts,    \* tasks.max_attempts
    LeaseTime,      \* agent_task_lease_seconds
    DeadlineTime,   \* the longest deadline_seconds
    RetryBase,      \* agent_task_retry_base_seconds
    MaxBackoff      \* the cap of the backoff, 3600 s in the code

ASSUME ExecutionParameters ==
    /\ MaxAttempts \in Nat \ {0}
    /\ LeaseTime \in Nat \ {0}
    /\ DeadlineTime \in Nat \ {0}
    /\ RetryBase \in Nat \ {0}
    /\ MaxBackoff \in Nat \ {0}
    /\ NoExec \notin Execs
    /\ NoTask \notin Tasks
    /\ NoPrompt \subseteq Tasks

VARIABLES
    \* columns of the task rows
    status, token, attempts, nextLeft, leaseLeft, deadlineLeft, blocked,
    \* one worker coroutine per execution: where it is, and its task
    pc, job,
    \* what was written or sent, by which execution
    userSaves,      \* chat messages of role user with this agent_task_id
    answers,        \* chat messages of role assistant with this agent_task_id
    barriers,       \* executions that committed a replay barrier
    dispatched      \* executions that handed a call to a tool

row == <<status, token, attempts, nextLeft, leaseLeft, deadlineLeft, blocked>>
worker == <<pc, job>>
history == <<userSaves, answers, barriers, dispatched>>
vars == <<row, worker, history>>

Terminal == {"succeeded", "failed", "cancelled", "stale"}
Statuses == {"absent", "queued", "running"} \cup Terminal

\* Inside `async with asyncio.timeout(...)`: the graph is being streamed.
InStream == {"started", "streaming", "barrier", "tool", "answered"}
\* A failure is in hand and _finish_or_retry has not been committed yet.
Failing == {"retryable", "fatal"}
Alive == InStream \cup Failing \cup {"finished"}
Places == {"new", "gone"} \cup Alive

TypeOK ==
    /\ status \in [Tasks -> Statuses]
    /\ token \in [Tasks -> Execs \cup {NoExec}]
    /\ attempts \in [Tasks -> Nat]
    /\ nextLeft \in [Tasks -> 0..MaxBackoff]
    /\ leaseLeft \in [Tasks -> 0..LeaseTime]
    /\ deadlineLeft \in [Tasks -> 0..DeadlineTime]
    /\ blocked \in [Tasks -> BOOLEAN]
    /\ pc \in [Execs -> Places]
    /\ job \in [Execs -> Tasks \cup {NoTask}]
    /\ userSaves \in [Tasks -> SUBSET Execs]
    /\ answers \in [Tasks -> SUBSET Execs]
    /\ barriers \in [Tasks -> SUBSET Execs]
    /\ dispatched \in [Tasks -> SUBSET Execs]

-----------------------------------------------------------------------------
(* Rows at start-up. Migration 0009 gives every queued or running row a    *)
(* deadline, blocks the replay of every running row and of every queued    *)
(* row with tool history, and adds run_token as NULL. The other columns    *)
(* are as the code of revision 0008, or the defaults of its migration,     *)
(* left them: a queued row may be waiting for a retry.                     *)

LegacyRow(t) ==
    \/ /\ status[t] = "absent" /\ attempts[t] = 0 /\ ~blocked[t]
       /\ nextLeft[t] = 0 /\ leaseLeft[t] = 0 /\ deadlineLeft[t] = 0
    \/ /\ status[t] = "queued" /\ attempts[t] < MaxAttempts
       /\ nextLeft[t] < DeadlineTime
       /\ leaseLeft[t] = 0 /\ deadlineLeft[t] = DeadlineTime
    \/ /\ status[t] = "running" /\ blocked[t]
       /\ nextLeft[t] = 0 /\ deadlineLeft[t] = DeadlineTime

Init ==
    /\ status \in [Tasks -> {"absent", "queued", "running"}]
    /\ attempts \in [Tasks -> 0..MaxAttempts]
    /\ blocked \in [Tasks -> BOOLEAN]
    /\ nextLeft \in [Tasks -> 0..MaxBackoff]
    /\ leaseLeft \in [Tasks -> 0..LeaseTime]
    /\ deadlineLeft \in [Tasks -> {0, DeadlineTime}]
    /\ \A t \in Tasks : LegacyRow(t)
    /\ token = [t \in Tasks |-> NoExec]
    /\ pc = [e \in Execs |-> "new"]
    /\ job = [e \in Execs |-> NoTask]
    /\ userSaves = [t \in Tasks |-> {}]
    /\ answers = [t \in Tasks |-> {}]
    /\ barriers = [t \in Tasks |-> {}]
    /\ dispatched = [t \in Tasks |-> {}]

-----------------------------------------------------------------------------
(* Faulty variants of the conditions and effects below, one line away from *)
(* the code. No action uses them: each is put in place of the definition   *)
(* it is named after to show that a property notices.                      *)

OwnedAtTheStart(e) == job[e] \in Tasks

MayReplayOffByOne(t) == attempts[t] <= MaxAttempts /\ ~blocked[t] /\ deadlineLeft[t] > 0

MayReplayDespiteBarrier(t) == attempts[t] < MaxAttempts /\ deadlineLeft[t] > 0

NeverSaved(t, role) == FALSE

SavedInAnyRole(t, role) == userSaves[t] \cup answers[t] # {}

RecoverOnlyReplayable(t) ==
    /\ status[t] = "running"
    /\ leaseLeft[t] = 0
    /\ attempts[t] < MaxAttempts /\ ~blocked[t] /\ deadlineLeft[t] > 0
    /\ status' = [status EXCEPT ![t] = "queued"]
    /\ token' = [token EXCEPT ![t] = NoExec]
    /\ nextLeft' = [nextLeft EXCEPT ![t] = 0]
    /\ UNCHANGED <<attempts, leaseLeft, deadlineLeft, blocked, worker, history>>

RecoverIgnoresLease(t) ==
    /\ status[t] = "running"
    /\ status' = [status EXCEPT ![t] = "stale"]
    /\ token' = [token EXCEPT ![t] = NoExec]
    /\ leaseLeft' = [leaseLeft EXCEPT ![t] = 0]
    /\ UNCHANGED <<attempts, nextLeft, deadlineLeft, blocked, worker, history>>

-----------------------------------------------------------------------------
(* Conditions the code tests.                                              *)

\* lock_task_lease(live=False): a running row that still holds our token.
Owns(e) ==
    LET t == job[e] IN
    /\ t \in Tasks
    /\ status[t] = "running"
    /\ token[t] = e

\* lock_task_lease(live=True): and neither lease nor deadline has passed.
OwnsLive(e) ==
    /\ Owns(e)
    /\ leaseLeft[job[e]] > 0
    /\ deadlineLeft[job[e]] > 0

\* The errors AgentTaskRunner.run finds before it claims a queued row.
ClaimError(t) ==
    \/ t \in NoPrompt
    \/ deadlineLeft[t] = 0
    \/ attempts[t] >= MaxAttempts
    \/ blocked[t]

\* recover_stale_running_tasks puts an abandoned row back only if this holds.
MayReplay(t) ==
    /\ attempts[t] < MaxAttempts
    /\ ~blocked[t]
    /\ deadlineLeft[t] > 0

\* _finish_or_retry schedules another attempt only if this holds.
MayRetry(t, e, delay) ==
    /\ ~blocked[t]
    /\ delay < deadlineLeft[t]
    /\ pc[e] = "retryable"
    /\ attempts[t] < MaxAttempts

\* min(now + lease_seconds, deadline_at), as time left.
LeaseGrant(t) ==
    IF LeaseTime <= deadlineLeft[t] THEN LeaseTime ELSE deadlineLeft[t]

\* min(base * 2 ** (attempt - 1), 3600)
Backoff(n) ==
    LET delay == RetryBase * 2 ^ (n - 1) IN
    IF delay <= MaxBackoff THEN delay ELSE MaxBackoff

\* uniform(delay / 2, delay)
RetryDelays(n) == {d \in 0..MaxBackoff : 2 * d >= Backoff(n) /\ d <= Backoff(n)}

\* _save_message looks for a message of this role with this agent_task_id.
AlreadySaved(t, role) ==
    IF role = "user" THEN userSaves[t] # {} ELSE answers[t] # {}

-----------------------------------------------------------------------------
(* Shared effects on a row.                                                *)

\* _finish_failed: the deadline and the attempts stay as they are.
CloseRow(t, outcome) ==
    /\ status' = [status EXCEPT ![t] = outcome]
    /\ token' = [token EXCEPT ![t] = NoExec]
    /\ nextLeft' = [nextLeft EXCEPT ![t] = 0]
    /\ leaseLeft' = [leaseLeft EXCEPT ![t] = 0]
    /\ UNCHANGED <<attempts, deadlineLeft, blocked>>

Requeue(t, delay) ==
    /\ status' = [status EXCEPT ![t] = "queued"]
    /\ token' = [token EXCEPT ![t] = NoExec]
    /\ nextLeft' = [nextLeft EXCEPT ![t] = delay]
    /\ leaseLeft' = [leaseLeft EXCEPT ![t] = 0]
    /\ UNCHANGED <<attempts, deadlineLeft, blocked>>

Goto(e, place) == pc' = [pc EXCEPT ![e] = place] /\ UNCHANGED job

-----------------------------------------------------------------------------
(* The routes and the scheduler.                                           *)

\* POST /tasks/agent and build_scheduled_task. A scheduled occurrence that is
\* dispatched late may be queued with no time left.
Create(t) ==
    /\ status[t] = "absent"
    /\ \E left \in 0..DeadlineTime :
           deadlineLeft' = [deadlineLeft EXCEPT ![t] = left]
    /\ status' = [status EXCEPT ![t] = "queued"]
    /\ UNCHANGED <<token, attempts, nextLeft, leaseLeft, blocked, worker, history>>

\* POST /tasks/{id}/cancel; cancelling a cancelled row again changes nothing.
\* The local job is cancelled after the commit: see Interrupt.
CancelTask(t) ==
    /\ status[t] \in {"queued", "running"}
    /\ CloseRow(t, "cancelled")
    /\ UNCHANGED <<worker, history>>

\* recover_stale_running_tasks, for one row.
Recover(t) ==
    /\ status[t] = "running"
    /\ leaseLeft[t] = 0
    /\ IF MayReplay(t) THEN Requeue(t, 0) ELSE CloseRow(t, "stale")
    /\ UNCHANGED <<worker, history>>

-----------------------------------------------------------------------------
(* AgentTaskRunner.run, before the graph starts.                           *)

RefuseClaim(t) ==
    /\ status[t] = "queued"
    /\ ClaimError(t)
    /\ CloseRow(t, "failed")
    /\ UNCHANGED <<worker, history>>

\* A row whose next_attempt_at lies ahead is left alone; otherwise the attempt
\* is charged and the row is given to the new execution.
Claim(t, e) ==
    /\ pc[e] = "new"
    /\ status[t] = "queued"
    /\ ~ClaimError(t)
    /\ nextLeft[t] = 0
    /\ status' = [status EXCEPT ![t] = "running"]
    /\ token' = [token EXCEPT ![t] = e]
    /\ attempts' = [attempts EXCEPT ![t] = @ + 1]
    /\ leaseLeft' = [leaseLeft EXCEPT ![t] = LeaseGrant(t)]
    /\ pc' = [pc EXCEPT ![e] = "started"]
    /\ job' = [job EXCEPT ![e] = t]
    /\ UNCHANGED <<nextLeft, deadlineLeft, blocked, history>>

-----------------------------------------------------------------------------
(* The heartbeat of a running execution. When it fails it cancels its      *)
(* owner: see Interrupt.                                                   *)

Heartbeat(e) ==
    /\ pc[e] \in Alive
    /\ OwnsLive(e)
    /\ leaseLeft' = [leaseLeft EXCEPT ![job[e]] = LeaseGrant(job[e])]
    /\ UNCHANGED <<status, token, attempts, nextLeft, deadlineLeft, blocked,
                   worker, history>>

-----------------------------------------------------------------------------
(* The graph, as far as it writes under the lease.                         *)

SaveUserMessage(e) ==
    /\ pc[e] = "started"
    /\ OwnsLive(e)
    /\ IF AlreadySaved(job[e], "user")
       THEN UNCHANGED userSaves
       ELSE userSaves' = [userSaves EXCEPT ![job[e]] = @ \cup {e}]
    /\ Goto(e, "streaming")
    /\ UNCHANGED <<row, answers, barriers, dispatched>>

\* ToolExecutor.run commits block_replay before it dispatches.
CommitBarrier(e) ==
    /\ pc[e] = "streaming"
    /\ OwnsLive(e)
    /\ blocked' = [blocked EXCEPT ![job[e]] = TRUE]
    /\ barriers' = [barriers EXCEPT ![job[e]] = @ \cup {e}]
    /\ Goto(e, "barrier")
    /\ UNCHANGED <<status, token, attempts, nextLeft, leaseLeft, deadlineLeft,
                   userSaves, answers, dispatched>>

\* _dispatch_tool runs with no lock held and tests nothing again.
Dispatch(e) ==
    /\ pc[e] = "barrier"
    /\ dispatched' = [dispatched EXCEPT ![job[e]] = @ \cup {e}]
    /\ Goto(e, "tool")
    /\ UNCHANGED <<row, userSaves, answers, barriers>>

\* A result, a tool error or the tool's own timeout: the graph plans again.
ToolReturns(e) ==
    /\ pc[e] = "tool"
    /\ Goto(e, "streaming")
    /\ UNCHANGED <<row, history>>

SaveAnswer(e) ==
    /\ pc[e] = "streaming"
    /\ OwnsLive(e)
    /\ IF AlreadySaved(job[e], "assistant")
       THEN UNCHANGED <<answers, barriers, blocked>>
       ELSE /\ answers' = [answers EXCEPT ![job[e]] = @ \cup {e}]
            /\ barriers' = [barriers EXCEPT ![job[e]] = @ \cup {e}]
            /\ blocked' = [blocked EXCEPT ![job[e]] = TRUE]
    /\ Goto(e, "answered")
    /\ UNCHANGED <<status, token, attempts, nextLeft, leaseLeft, deadlineLeft,
                   userSaves, dispatched>>

\* Any locked step of the stream (an event, a message, a barrier, the success)
\* that finds the lease gone raises TaskLeaseLost, and the runner just returns.
LoseLease(e) ==
    /\ pc[e] \in {"started", "streaming", "answered"}
    /\ ~OwnsLive(e)
    /\ Goto(e, "gone")
    /\ UNCHANGED <<row, history>>

-----------------------------------------------------------------------------
(* How an execution ends.                                                  *)

\* The done event was seen: the row becomes succeeded, the worker has yet to
\* return.
Succeed(e) ==
    /\ pc[e] = "answered"
    /\ OwnsLive(e)
    /\ CloseRow(job[e], "succeeded")
    /\ Goto(e, "finished")
    /\ UNCHANGED history

\* An error event, an exception or the attempt's asyncio.timeout.
Fail(e) ==
    /\ pc[e] \in InStream
    /\ \E kind \in Failing : Goto(e, kind)
    /\ UNCHANGED <<row, history>>

\* CancelledError reaches the worker at an await: TaskScheduler.shutdown,
\* TaskScheduler.cancel after the cancel endpoint, or the heartbeat loop's
\* owner.cancel(). In the try block it becomes a retryable failure; in an
\* except clause it rolls the transaction back and the worker is gone.
Interrupt(e) ==
    /\ \/ /\ pc[e] \in InStream \cup {"fatal", "finished"}
          /\ Goto(e, "retryable")
       \/ /\ pc[e] \in Failing
          /\ Goto(e, "gone")
    /\ UNCHANGED <<row, history>>

\* _finish_or_retry: ownership without the lease test.
FinishOrRetry(e) ==
    /\ pc[e] \in Failing
    /\ Owns(e)
    /\ \E delay \in RetryDelays(attempts[job[e]]) :
           IF MayRetry(job[e], e, delay)
           THEN Requeue(job[e], delay)
           ELSE CloseRow(job[e], "failed")
    /\ Goto(e, "gone")
    /\ UNCHANGED history

\* _finish_or_retry found the row taken away, or run() returns.
Leave(e) ==
    /\ \/ pc[e] \in Failing /\ ~Owns(e)
       \/ pc[e] = "finished"
    /\ Goto(e, "gone")
    /\ UNCHANGED <<row, history>>

\* The worker process dies between two transactions.
Crash(e) ==
    /\ pc[e] \in Alive
    /\ Goto(e, "gone")
    /\ UNCHANGED <<row, history>>

-----------------------------------------------------------------------------
(* Time passes. No code reads the timers of a row that is over.            *)

Pending(t) == status[t] \in {"queued", "running"}

TimeLeft(t) == nextLeft[t] > 0 \/ leaseLeft[t] > 0 \/ deadlineLeft[t] > 0

Earlier(f) == [t \in Tasks |-> IF Pending(t) /\ f[t] > 0 THEN f[t] - 1 ELSE f[t]]

Tick ==
    /\ \E t \in Tasks : Pending(t) /\ TimeLeft(t)
    /\ nextLeft' = Earlier(nextLeft)
    /\ leaseLeft' = Earlier(leaseLeft)
    /\ deadlineLeft' = Earlier(deadlineLeft)
    /\ UNCHANGED <<status, token, attempts, blocked, worker, history>>

-----------------------------------------------------------------------------

\* What the maintenance loop does with a queued row that is due.
Dequeue(t) == RefuseClaim(t) \/ \E e \in Execs : Claim(t, e)

TaskStep(t) == Create(t) \/ CancelTask(t) \/ Recover(t) \/ Dequeue(t)

ExecStep(e) ==
    \/ Heartbeat(e) \/ SaveUserMessage(e) \/ CommitBarrier(e) \/ Dispatch(e)
    \/ ToolReturns(e) \/ SaveAnswer(e) \/ LoseLease(e) \/ Succeed(e) \/ Fail(e)
    \/ Interrupt(e) \/ FinishOrRetry(e) \/ Leave(e) \/ Crash(e)

Next ==
    \/ \E t \in Tasks : TaskStep(t)
    \/ \E e \in Execs : ExecStep(e)
    \/ Tick

Spec == Init /\ [][Next]_vars

\* Time passes and some process keeps polling (_maintenance_loop). Nothing is
\* assumed of the workers: they may hang, crash or lose every race.
Fairness ==
    /\ WF_vars(Tick)
    /\ \A t \in Tasks : WF_vars(Recover(t)) /\ WF_vars(Dequeue(t))

FairSpec == Spec /\ Fairness

-----------------------------------------------------------------------------
(* Properties.                                                             *)

\* Everything that got out of a task (a tool call handed over, an answer saved)
\* came from one and the same execution, although up to MaxAttempts executions
\* ran, crashed, were recovered and woke up late (the replay barrier of
\* ToolExecutor.run and _save_message).
EffectsOfOneExecution ==
    \A t \in Tasks : \A e1, e2 \in dispatched[t] \cup answers[t] : e1 = e2

\* No effect before its barrier is in the database: a process that dies with
\* the call on the wire leaves a row that nobody will replay.
EffectsBehindBarrier ==
    \A t \in Tasks : dispatched[t] \cup answers[t] # {} => blocked[t]

\* However many attempts a task takes, the conversation shows its prompt once
\* (the look-up of _save_message under the row lock).
PromptShownOnce ==
    \A t \in Tasks : \A e1, e2 \in userSaves[t] : e1 = e2

\* A succeeded task has exactly one saved answer in its conversation, and the
\* execution that answered also saw the prompt saved.
SuccessHasItsAnswer ==
    \A t \in Tasks :
        status[t] = "succeeded" => Cardinality(answers[t]) = 1 /\ userSaves[t] # {}

\* The attempt budget: a row is never tried more often than max_attempts, and
\* whichever of runner, recovery and restart puts it back, it is put back only
\* with an attempt left.
AttemptBudget ==
    \A t \in Tasks :
        attempts[t] <= MaxAttempts /\ (status[t] = "queued" => attempts[t] < MaxAttempts)

\* "Repeated restarts cannot reset the retry budget": no step lowers it.
BudgetNeverRefunded == [][\A t \in Tasks : attempts'[t] >= attempts[t]]_vars

\* A row put back for another attempt becomes due before its deadline: a retry
\* is never scheduled only to be refused.
RetryComesBeforeDeadline ==
    \A t \in Tasks :
        status[t] = "queued" /\ attempts[t] > 0 /\ deadlineLeft[t] > 0
            => nextLeft[t] < deadlineLeft[t]

\* No lease that a claim or a heartbeat granted outlives the deadline: recovery
\* sees an overdue task the moment its deadline passes, even if a heartbeat came
\* just before.
LeaseEndsByDeadline ==
    \A t \in Tasks : token[t] \in Execs => leaseLeft[t] <= deadlineLeft[t]

\* What is over stays over: no late worker, heartbeat, recovery or claim
\* changes the row or adds a message once the task has ended.
EndedTasksStayEnded ==
    [][\A t \in Tasks : status[t] \in Terminal =>
          /\ status'[t] = status[t] /\ token'[t] = token[t]
          /\ attempts'[t] = attempts[t] /\ blocked'[t] = blocked[t]
          /\ userSaves'[t] = userSaves[t] /\ answers'[t] = answers[t]]_vars

\* While its lease runs, an attempt is ended by its own worker or by the user:
\* never by recovery, and never by a worker that lost the row before.
LiveAttemptEndsItself ==
    [][\A t \in Tasks :
          status[t] = "running" /\ token[t] \in Execs /\ leaseLeft[t] > 0
            => \/ token'[t] = token[t]
               \/ pc'[token[t]] # pc[token[t]]
               \/ status'[t] = "cancelled"]_vars

\* Every task that is queued or running is over some day, although workers may
\* hang with a beating heart, crash, or never answer.
EveryTaskEnds == \A t \in Tasks : Pending(t) ~> status[t] \in Terminal

\* The inductive invariant behind the properties above.
HeldTokens ==
    \A t \in Tasks : token[t] \in Execs =>
        status[t] = "running" /\ job[token[t]] = t /\ pc[token[t]] # "new"

BarriersPinTheRow ==
    \A t \in Tasks : \A e \in barriers[t] :
        blocked[t] /\ job[e] = t /\ pc[e] # "new" /\ token[t] \in {e, NoExec}

ToolsHaveBarriers ==
    \A e \in Execs : pc[e] \in {"barrier", "tool"} =>
        job[e] \in Tasks /\ e \in barriers[job[e]]

EffectsHaveBarriers ==
    \A t \in Tasks : dispatched[t] \cup answers[t] \subseteq barriers[t]

OneBarrierOwner ==
    \A t \in Tasks : \A e1, e2 \in barriers[t] : e1 = e2

MessagesInOrder ==
    /\ \A e \in Execs : pc[e] \in {"streaming", "barrier", "tool", "answered"} =>
           job[e] \in Tasks /\ userSaves[job[e]] # {}
    /\ \A e \in Execs : pc[e] = "answered" => answers[job[e]] # {}
    /\ \A t \in Tasks : status[t] = "succeeded" =>
           userSaves[t] # {} /\ answers[t] # {}

\* A row's token names a worker that claimed this row; once an execution has
\* committed a barrier the row stays blocked and no other execution can hold
\* it; tools run and answers are saved only behind such a barrier.
ExecutionInv ==
    /\ HeldTokens
    /\ BarriersPinTheRow
    /\ ToolsHaveBarriers
    /\ EffectsHaveBarriers
    /\ OneBarrierOwner
    /\ MessagesInOrder

\* What the limits rest on: only a waiting row has a time to wait for, and only
\* a row that exists has been tried.
TimersInOrder ==
    /\ AttemptBudget
    /\ RetryComesBeforeDeadline
    /\ LeaseEndsByDeadline
    /\ \A t \in Tasks : status[t] # "queued" => nextLeft[t] = 0
    /\ \A t \in Tasks : status[t] = "absent" => attempts[t] = 0

\* The rows and their workers implement the queue's promise, TaskLifecycle.
Phase(s) == CASE s = "absent" -> "absent" [] s = "queued" -> "waiting"
              [] s = "running" -> "trying" [] OTHER -> "over"

Lifecycle == INSTANCE TaskLifecycle WITH
    phase <- [t \in Tasks |-> Phase(status[t])],
    tries <- attempts,
    sealed <- blocked,
    sealers <- barriers,
    effects <- [t \in Tasks |-> dispatched[t] \cup answers[t]]

ImplementsLifecycle == Lifecycle!Spec
=============================================================================
