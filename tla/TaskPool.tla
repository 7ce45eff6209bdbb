------------------------------ MODULE TaskPool ------------------------------
(***************************************************************************)
(* The scheduler's in-memory pool of jobs over the durable queue, and the  *)
(* requests that fill the queue. TaskExecution has what a claimed attempt  *)
(* does; here it only ends in one of the ways shown there.                 *)
(*                                                                         *)
(* Everything between two awaits is one step: a look-up, a commit, the     *)
(* enqueueing of all the rows a poll selected, a done callback.            *)
(***************************************************************************)
EXTENDS Naturals, FiniteSets, SequencesExt

CONSTANTS
    Requests,       \* POST /tasks/agent; a row is named after the request that
                    \* created it
    Key, Prompt, Rest,  \* what each request says: functions on Requests
    Scenarios,      \* what may happen: [legacy, sent], the requests whose row was
                    \* there before, without fingerprint, and those still to come
    NoKey,          \* the key of a request without one
    MaxConcurrency, \* max_concurrency
    MaxAttempts,    \* max_attempts of each: a function on Requests
    MaxCancels,     \* bound: requests to cancel a task
    MaxStops        \* bound: shutdowns and crashes

ASSUME PoolParameters ==
    /\ IsFiniteSet(Requests)
    /\ MaxConcurrency \in Nat \ {0} /\ MaxAttempts \in [Requests -> Nat \ {0}]
    /\ MaxCancels \in Nat /\ MaxStops \in Nat
    /\ \A c \in Scenarios :
          /\ c.legacy \subseteq Requests /\ c.sent \subseteq Requests \ c.legacy
          /\ \A r, s \in c.legacy : r # s /\ Key[r] # NoKey => Key[r] # Key[s]

VARIABLES
    legacy,     \* the rows without fingerprint
    req,        \* where each request is
    answer,     \* the task it was answered with
    status, attempts,
    queue,      \* the queued rows that are due, in the order of next_attempt_at
    cancels,    \* rows cancelled by a request that has yet to cancel the job
    process,    \* "up", "closing" or "down"
    asked, stops,   \* how many of them there have been
    picked,     \* the rows the maintenance loop has selected
    jobs,       \* _jobs: the slot of the entry of a task, or None
    work        \* the asyncio tasks; each task id has two slots

rowVars == <<status, attempts, queue>>
poolVars == <<jobs, work>>
vars == <<legacy, req, answer, rowVars, cancels, process, asked, stops, picked, poolVars>>

Slots == {1, 2}
None == 0
Live == {"waiting", "running", "dropped", "stopping"}
Over == {"done", "cancelled"}
Holding == {"running", "stopping"}      \* inside the semaphore
Capacity == MaxConcurrency * 2

TypeOK ==
    /\ legacy \subseteq Requests
    /\ req \in [Requests -> {"new", "missed", "inserted", "conflict", "answered",
                             "refused", "failed", "lost"}]
    /\ answer \in [Requests -> Requests \cup {None}]
    /\ status \in [Requests -> {"absent", "queued", "running", "ended", "cancelled"}]
    /\ attempts \in [Requests -> Nat] /\ \A t \in Requests : attempts[t] <= MaxAttempts[t]
    /\ queue \in Seq(Requests) /\ cancels \subseteq Requests
    /\ process \in {"up", "closing", "down"} 
    /\ asked \in 0..MaxCancels /\ stops \in 0..MaxStops
    /\ picked \in Seq(Requests)
    /\ jobs \in [Requests -> Slots \cup {None}]
    /\ work \in [Requests -> [Slots -> {"free"} \cup Live \cup Over]]

Init ==
    /\ \E c \in Scenarios :
          /\ legacy = c.legacy
          /\ req = [r \in Requests |-> IF r \in c.sent THEN "new" ELSE "lost"]
    /\ answer = [r \in Requests |-> None]
    /\ status = [r \in Requests |-> IF r \in legacy THEN "queued" ELSE "absent"]
    /\ attempts = [r \in Requests |-> 0]
    /\ queue = SetToSeq(legacy)
    /\ cancels = {} /\ process = "up" /\ asked = 0 /\ stops = 0 /\ picked = <<>>
    /\ jobs = [r \in Requests |-> None]
    /\ work = [r \in Requests |-> [k \in Slots |-> "free"]]

-----------------------------------------------------------------------------
(* The pool.                                                               *)

Entries(pool) == {t \in Requests : pool.jobs[t] # None}
Refused(pool, t) ==
    \/ pool.jobs[t] # None /\ pool.work[t][pool.jobs[t]] \in Live
    \/ Cardinality(Entries(pool)) >= Capacity

\* A refused id stays in the database for a later poll.
Enqueue(pool, t) ==
    LET k == CHOOSE s \in Slots : pool.work[t][s] = "free"
    IN  IF Refused(pool, t) THEN pool
        ELSE [jobs |-> [pool.jobs EXCEPT ![t] = k],
              work |-> [pool.work EXCEPT ![t][k] = "waiting"]]

\* One id after the other, without an await in between.
EnqueueAll(pool, ids) ==
    LET after[n \in 0..Len(ids)] == IF n = 0 THEN pool ELSE Enqueue(after[n - 1], ids[n])
    IN  after[Len(ids)]

Pool == [jobs |-> jobs, work |-> work]
PoolIs(pool) == jobs' = pool.jobs /\ work' = pool.work

\* job.cancel() is delivered when the job runs next.
Doomed(step) == CASE step = "waiting" -> "dropped" [] step = "running" -> "stopping"
                  [] OTHER -> step

SetStep(t, k, step) == work' = [work EXCEPT ![t][k] = step] /\ UNCHANGED jobs

\* The loop runs callbacks in order: that of the previous job comes before the
\* first step of the next one.
Turn(t, k) == \A s \in Slots \ {k} : work[t][s] \notin Over

-----------------------------------------------------------------------------
(* POST /tasks/agent.                                                      *)

SameRequest(t, r) == Prompt[t] = Prompt[r] /\ (t \in legacy \/ Rest[t] = Rest[r])
WithKey(key) == {t \in Requests : Key[t] = key /\ key # NoKey /\ status[t] # "absent"}

Reply(r, t) ==
    /\ req' = [req EXCEPT ![r] = "answered"]
    /\ answer' = [answer EXCEPT ![r] = t]
    /\ PoolIs(IF status[t] = "queued" THEN Enqueue(Pool, t) ELSE Pool)

\* The row of the key is there already: the answer, if it was the same request.
Repeat(r) ==
    \E t \in WithKey(Key[r]) :
        IF SameRequest(t, r) THEN Reply(r, t)
        ELSE req' = [req EXCEPT ![r] = "refused"] /\ UNCHANGED <<answer, poolVars>>

LookUp(r) ==
    /\ process = "up" /\ req[r] = "new"
    /\ IF WithKey(Key[r]) # {} THEN Repeat(r)
       ELSE req' = [req EXCEPT ![r] = "missed"] /\ UNCHANGED <<answer, poolVars>>
    /\ UNCHANGED <<legacy, rowVars, cancels, process, asked, stops, picked>>

\* The commit fails if the key has been used since, or the conversation deleted.
Insert(r) ==
    /\ process = "up" /\ req[r] = "missed"
    /\ \/ /\ WithKey(Key[r]) = {}
          /\ req' = [req EXCEPT ![r] = "inserted"]
          /\ status' = [status EXCEPT ![r] = "queued"]
          /\ queue' = Append(queue, r)
       \/ req' = [req EXCEPT ![r] = "conflict"] /\ UNCHANGED <<status, queue>>
    /\ UNCHANGED <<legacy, answer, attempts, cancels, process, asked, stops, picked, poolVars>>

Inserted(r) ==
    /\ process = "up" /\ req[r] = "inserted"
    /\ req' = [req EXCEPT ![r] = "answered"] /\ answer' = [answer EXCEPT ![r] = r]
    /\ PoolIs(Enqueue(Pool, r))
    /\ UNCHANGED <<legacy, rowVars, cancels, process, asked, stops, picked>>

LookUpWinnerUnchecked(r) ==
    /\ process = "up" /\ req[r] = "conflict"
    /\ IF WithKey(Key[r]) # {} THEN \E t \in WithKey(Key[r]) : Reply(r, t)
       ELSE req' = [req EXCEPT ![r] = "failed"] /\ UNCHANGED <<answer, poolVars>>
    /\ UNCHANGED <<legacy, rowVars, cancels, process, asked, stops, picked>>

\* After the rollback the winner's row is looked up; without one the error is
\* raised again.
LookUpWinner(r) ==
    /\ process = "up" /\ req[r] = "conflict"
    /\ IF WithKey(Key[r]) # {} THEN Repeat(r)
       ELSE req' = [req EXCEPT ![r] = "failed"] /\ UNCHANGED <<answer, poolVars>>
    /\ UNCHANGED <<legacy, rowVars, cancels, process, asked, stops, picked>>

-----------------------------------------------------------------------------
(* POST /tasks/{id}/cancel: first the row, then the job.                   *)

CancelRow(t) ==
    /\ process = "up" /\ t \notin cancels /\ asked < MaxCancels /\ asked' = asked + 1
    /\ status[t] \in {"queued", "running", "cancelled"}
    /\ status' = [status EXCEPT ![t] = "cancelled"]
    /\ queue' = RemoveFirst(queue, t)
    /\ cancels' = cancels \cup {t}
    /\ UNCHANGED <<legacy, req, answer, attempts, process, stops, picked, poolVars>>

CancelJob(t) ==
    /\ t \in cancels
    /\ cancels' = cancels \ {t}
    /\ IF jobs[t] = None THEN UNCHANGED poolVars
       ELSE SetStep(t, jobs[t], Doomed(work[t][jobs[t]]))
    /\ UNCHANGED <<legacy, req, answer, rowVars, process, asked, stops, picked>>

-----------------------------------------------------------------------------
(* Jobs.                                                                   *)

Leave(t, outcome) ==
    /\ status' = [status EXCEPT ![t] = outcome]
    /\ queue' = RemoveFirst(queue, t)

\* A job has got the semaphore: it claims the row, closes it because its
\* deadline or its attempts are used up, or finds nothing to do.
Begin(t, k) ==
    /\ work[t][k] = "waiting" /\ Turn(t, k)
    /\ Cardinality({j \in Requests \X Slots : work[j[1]][j[2]] \in Holding}) < MaxConcurrency
    /\ \/ /\ status[t] = "queued" /\ t \in Range(queue) /\ attempts[t] < MaxAttempts[t]
          /\ Leave(t, "running")
          /\ attempts' = [attempts EXCEPT ![t] = @ + 1]
          /\ SetStep(t, k, "running")
       \/ /\ status[t] = "queued"
          /\ Leave(t, "ended") /\ UNCHANGED attempts
          /\ SetStep(t, k, "done")
       \/ /\ status[t] # "queued" \/ t \notin Range(queue)
          /\ SetStep(t, k, "done")
          /\ UNCHANGED rowVars
    /\ UNCHANGED <<legacy, req, answer, cancels, process, asked, stops, picked>>

\* The attempt closes its row, puts it back for later, or has lost it, to a
\* cancellation, to recovery or because the database failed.
Settle(t) ==
    /\ \/ UNCHANGED status
       \/ status[t] = "running" /\ status' = [status EXCEPT ![t] = "ended"]
       \/ /\ status[t] = "running" /\ attempts[t] < MaxAttempts[t]
          /\ status' = [status EXCEPT ![t] = "queued"]
    /\ UNCHANGED <<legacy, attempts, queue>>

Finish(t, k) ==
    /\ \/ work[t][k] = "running" /\ Settle(t) /\ SetStep(t, k, "done")
       \/ work[t][k] = "stopping" /\ Settle(t) /\ SetStep(t, k, "cancelled")
       \/ work[t][k] = "dropped" /\ Turn(t, k) /\ SetStep(t, k, "cancelled") /\ UNCHANGED rowVars
    /\ UNCHANGED <<legacy, req, answer, cancels, process, asked, stops, picked>>

PopsAnyEntry(t, k) == TRUE

\* _job_finished drops the entry if it is still that of this job.
Pops(t, k) == jobs[t] = k

JobFinished(t, k) ==
    /\ work[t][k] \in Over
    /\ work' = [work EXCEPT ![t][k] = "free"]
    /\ jobs' = IF Pops(t, k) THEN [jobs EXCEPT ![t] = None] ELSE jobs
    /\ UNCHANGED <<legacy, req, answer, rowVars, cancels, process, asked, stops, picked>>

\* next_attempt_at of a row put back has come.
ComesDue(t) ==
    /\ status[t] = "queued" /\ t \notin Range(queue)
    /\ queue' = Append(queue, t)
    /\ UNCHANGED <<legacy, req, answer, status, attempts, cancels, process, asked, stops, picked, poolVars>>

-----------------------------------------------------------------------------
(* The maintenance loop and the life of the process.                       *)

SelectedOnlyFresh(due) == SelectSeq(due, LAMBDA t : attempts[t] = 0)

\* The rows that are due longest, as many as the pool takes.
Selected(due) == SubSeq(due, 1, IF Len(due) > Capacity THEN Capacity ELSE Len(due))

\* One session: rows whose lease has run out go back to the queue or are
\* closed, which commits, then the rows to enqueue are selected.
Poll ==
    /\ process = "up" /\ picked = <<>>
    /\ \E lapsed \in SUBSET {t \in Requests : status[t] = "running"} :
       \E again \in SUBSET {t \in lapsed : attempts[t] < MaxAttempts[t]} :
          LET closed == lapsed \ again IN
          /\ status' = [t \in Requests |-> IF t \in again THEN "queued"
                                           ELSE IF t \in closed THEN "ended" ELSE status[t]]
          /\ queue' = queue \o SetToSeq(again)
    /\ picked' = Selected(queue')
    /\ UNCHANGED <<legacy, req, answer, attempts, cancels, process, asked, stops, poolVars>>

\* The session has been closed meanwhile, and the rows may have moved on.
EnqueuePicked ==
    /\ process = "up" /\ picked # <<>>
    /\ PoolIs(EnqueueAll(Pool, picked))
    /\ picked' = <<>>
    /\ UNCHANGED <<legacy, req, answer, rowVars, cancels, process, asked, stops>>

Pending(r) == req[r] \in {"missed", "inserted", "conflict"}

\* The server lets the requests in progress finish; then shutdown cancels the
\* loop and every job it knows.
Shutdown ==
    /\ process = "up" /\ stops < MaxStops
    /\ cancels = {} /\ \A r \in Requests : ~Pending(r)
    /\ process' = "closing" /\ stops' = stops + 1 /\ picked' = <<>>
    /\ work' = [t \in Requests |-> [k \in Slots |->
                  IF jobs[t] = k THEN Doomed(work[t][k]) ELSE work[t][k]]]
    /\ UNCHANGED <<legacy, req, answer, rowVars, cancels, asked, jobs>>

\* gather returns when those jobs are over; the entries are cleared.
Closed ==
    /\ process = "closing"
    /\ \A t \in Requests : jobs[t] # None => work[t][jobs[t]] \notin Live
    /\ process' = "down"
    /\ jobs' = [t \in Requests |-> None]
    /\ work' = [t \in Requests |-> [k \in Slots |-> "free"]]
    /\ UNCHANGED <<legacy, req, answer, rowVars, cancels, asked, stops, picked>>

\* A crash loses what is in memory; requests in progress get no answer.
Crash ==
    /\ process # "down" /\ stops < MaxStops
    /\ process' = "down" /\ stops' = stops + 1 /\ picked' = <<>> /\ cancels' = {}
    /\ req' = [r \in Requests |-> IF Pending(r) THEN "lost" ELSE req[r]]
    /\ jobs' = [t \in Requests |-> None]
    /\ work' = [t \in Requests |-> [k \in Slots |-> "free"]]
    /\ UNCHANGED <<legacy, answer, rowVars, asked>>

Start ==
    /\ process = "down"
    /\ process' = "up"
    /\ UNCHANGED <<legacy, req, answer, rowVars, cancels, asked, stops, picked, poolVars>>

Request(r) == LookUp(r) \/ Insert(r) \/ Inserted(r) \/ LookUpWinner(r)
Cancel(t) == CancelRow(t) \/ CancelJob(t)
JobStep == \E t \in Requests, k \in Slots : Begin(t, k) \/ Finish(t, k) \/ JobFinished(t, k)
Maintenance == Poll \/ EnqueuePicked
BackOffEnds == \E t \in Requests : ComesDue(t)
Restart == Closed \/ Start

Next ==
    \/ \E r \in Requests : Request(r) \/ Cancel(r)
    \/ JobStep \/ Maintenance \/ BackOffEnds
    \/ Shutdown \/ Crash \/ Restart

Spec == Init /\ [][Next]_vars

\* The loop goes on polling, the event loop runs what is ready, an attempt has
\* a time budget, a back-off ends, and a process that is down is started again.
Fairness ==
    WF_vars(JobStep) /\ WF_vars(Maintenance) /\ WF_vars(BackOffEnds) /\ WF_vars(Restart)

FairSpec == Spec /\ Fairness

-----------------------------------------------------------------------------
(* Properties.                                                             *)

\* The pool keeps track of its jobs: one that can still run is the entry of
\* its id, so that cancel and shutdown find it, although the callback of an
\* earlier job of the same id may come after it was enqueued. The entries and
\* the running jobs stay within their limits.
PoolKeepsTrack ==
    /\ TypeOK
    /\ \A t \in Requests, k \in Slots : work[t][k] \in Live => jobs[t] = k
    /\ Cardinality(Entries(Pool)) <= Capacity
    /\ Cardinality({j \in Requests \X Slots : work[j[1]][j[2]] \in Holding}) <= MaxConcurrency

\* Rows do not stay queued: however many are ready at once, whatever the pool
\* refused and however often the process stops, all are claimed or closed.
QueueDrains == <>[](\A t \in Requests : status[t] # "queued")

\* However the requests with one key interleave, one row is created; they are
\* answered with that row if they ask for the same thing, and refused only if
\* they do not.
KeyHasOneTask ==
    /\ \A r \in Requests : Key[r] # NoKey => Cardinality(WithKey(Key[r])) <= 1
    /\ \A r \in Requests :
          /\ req[r] = "answered" =>
                SameRequest(answer[r], r) /\ (Key[r] = NoKey => answer[r] = r)
          /\ req[r] = "refused" => \A t \in WithKey(Key[r]) : ~SameRequest(t, r)
    /\ \A r, s \in Requests :
          req[r] = "answered" /\ req[s] = "answered" /\ Key[r] = Key[s] /\ Key[r] # NoKey
              => answer[r] = answer[s]
=============================================================================
