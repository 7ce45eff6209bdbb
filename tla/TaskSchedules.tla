--------------------------- MODULE TaskSchedules ---------------------------
(***************************************************************************)
(* Recurring and one-time schedules of agent tasks: the routes that create *)
(* a schedule, pause and enable it and run it now, and the dispatch of due *)
(* occurrences by the maintenance loops of one or more backend processes.  *)
(*                                                                         *)
(* A loop reads the clock once, at the start of an iteration (Poll), and   *)
(* recovers leases before it dispatches with that reading (Dispatch): the  *)
(* real clock may be well ahead by then. The batch of due rows, committed  *)
(* as one transaction under row locks, is a sequence of Dispatch steps     *)
(* here; what other actors see in between only adds behaviours.            *)
(*                                                                         *)
(* The unit of time is one of the shortest intervals the properties tell   *)
(* apart. What a worker does with a queued task is TaskExecution; here a   *)
(* task is queued, running or over.                                        *)
(***************************************************************************)
EXTENDS Integers, FiniteSets

CONSTANTS
    Schedules,      \* rows of task_schedules
    Pollers,        \* backend processes, each with its maintenance loop
    NoTime,         \* next_run_at or run_at IS NULL
    Forms,          \* what a request may ask for: a record of
                    \* kind, runAt (or NoTime), interval, grace, and dailyAt: the
                    \* instants at which daily_time exists in the time zone
    DayLength,      \* timedelta(days=1)
    RunLimit,       \* the 900 s between an occurrence and its deadline
    Horizon,        \* bound: the clock stops here
    MaxManual       \* bound: how often a schedule is run by hand

\* validate_schedule_options requires run_at of a one-time schedule, and
\* _next_daily_run looks 370 days ahead before it gives up.
ASSUME ScheduleParameters ==
    /\ NoTime \notin Int
    /\ DayLength \in Nat \ {0} /\ RunLimit \in Nat \ {0}
    /\ Horizon \in Nat /\ MaxManual \in Nat
    /\ \A f \in Forms :
           /\ f.kind \in {"once", "interval", "daily"}
           /\ f.runAt \in Nat \/ (f.runAt = NoTime /\ f.kind # "once")
           /\ f.interval \in Nat \ {0} /\ f.grace \in Nat
           /\ \A d \in f.dailyAt : d \in Nat
           /\ f.kind = "daily" => \A now \in 0..Horizon : \E d \in f.dailyAt : d > now

VARIABLES
    clock,      \* datetime.now(UTC)
    form,       \* the columns of a schedule that no request changes
    state,      \* of a schedule: "absent", "on" (enabled) or "off"
    nextRun,    \* next_run_at
    broken,     \* schedules whose stored zone or interval is no longer valid
    tasks,      \* the tasks with a schedule_id
    pollNow,    \* the clock reading of each maintenance loop
    decided     \* per schedule, the reading of the last timed decision

vars == <<clock, form, state, nextRun, broken, tasks, pollNow, decided>>

\* Two tasks with the same of, at, manual and no would have the same unique
\* idempotency key: a timed one is keyed by its occurrence, one that was run
\* by hand by a uuid4, here its number.
TaskRow == [of : Schedules, at : Nat, manual : BOOLEAN, no : 0..MaxManual,
            status : {"queued", "running", "over"}]

TypeOK ==
    /\ clock \in 0..Horizon
    /\ form \in [Schedules -> Forms]
    /\ state \in [Schedules -> {"absent", "on", "off"}]
    /\ nextRun \in [Schedules -> Nat \cup {NoTime}]
    /\ broken \subseteq Schedules
    /\ tasks \subseteq TaskRow
    /\ pollNow \in [Pollers -> 0..Horizon]
    /\ decided \in [Schedules -> 0..Horizon \cup {NoTime}]

Init ==
    /\ clock = 0
    /\ form \in [Schedules -> Forms]
    /\ state = [s \in Schedules |-> "absent"]
    /\ nextRun = [s \in Schedules |-> NoTime]
    /\ broken = {}
    /\ tasks = {}
    /\ pollNow = [p \in Pollers |-> 0]
    /\ decided = [s \in Schedules |-> NoTime]

-----------------------------------------------------------------------------
(* Faulty variants, one line away from the code; no action uses them.      *)

InitialNextInThePast(s, now) ==
    CASE form[s].kind = "once" -> form[s].runAt
      [] form[s].kind = "interval" -> IF form[s].runAt # NoTime THEN form[s].runAt ELSE now + form[s].interval
      [] form[s].kind = "daily" -> now + DayLength

NextAfterWithoutSkipping(s, now) ==
    CASE form[s].kind = "once" -> NoTime
      [] form[s].kind = "interval" -> nextRun[s] + form[s].interval
      [] form[s].kind = "daily" -> nextRun[s] + DayLength

MisfiredNever(s, occurrence, now) == FALSE

ActiveOnlyIfQueued(s) == {k \in tasks : k.of = s /\ k.status = "queued"}

SuspendForgotten(s) == UNCHANGED <<state, nextRun, tasks>>

-----------------------------------------------------------------------------
(* The calendar.                                                           *)

Earliest(times) == CHOOSE x \in times : \A y \in times : x <= y
Latest(times) == CHOOSE x \in times : \A y \in times : x >= y

\* Nonexistent wall times are not in dailyAt, ambiguous ones are in it once.
NextDaily(s, now) == Earliest({d \in form[s].dailyAt : d > now})

\* initial_next_run; NoTime stands for its ValueError.
InitialNext(s, now) ==
    IF s \in broken THEN NoTime
    ELSE CASE form[s].kind = "once" -> IF form[s].runAt > now THEN form[s].runAt ELSE NoTime
           [] form[s].kind = "interval" ->
                  IF form[s].runAt # NoTime /\ form[s].runAt > now THEN form[s].runAt
                                                         ELSE now + form[s].interval
           [] form[s].kind = "daily" -> NextDaily(s, now)

\* latest_due_occurrence: missed occurrences are merged into the latest one.
LatestDue(s, now) ==
    CASE form[s].kind = "once" -> nextRun[s]
      [] form[s].kind = "interval" ->
             nextRun[s] + ((now - nextRun[s]) \div form[s].interval) * form[s].interval
      [] form[s].kind = "daily" ->
             Latest({nextRun[s]} \cup
                    {d \in form[s].dailyAt : now - 3 * DayLength < d /\ d <= now})

\* next_run_after_occurrence
NextAfter(s, now) ==
    CASE form[s].kind = "once" -> NoTime
      [] form[s].kind = "interval" ->
             LET candidate == nextRun[s] + form[s].interval IN
             IF candidate > now THEN candidate
             ELSE candidate + ((now - candidate) \div form[s].interval + 1) * form[s].interval
      [] form[s].kind = "daily" -> NextDaily(s, now)

-----------------------------------------------------------------------------
(* Tasks of a schedule.                                                    *)

Row(s, at, manual, no) ==
    [of |-> s, at |-> at, manual |-> manual, no |-> no, status |-> "queued"]

Deadline(k) == k.at + RunLimit

Of(s) == {k \in tasks : k.of = s}

\* active_schedule_task
Active(s) == {k \in Of(s) : k.status \in {"queued", "running"}}

\* An occurrence whose idempotency key is in the table already.
Queued(s) == {k.at : k \in {j \in Of(s) : ~j.manual}}

\* Rows the dispatcher selects.
Due(s, now) == state[s] = "on" /\ nextRun[s] # NoTime /\ nextRun[s] <= now

\* Too late for the occurrence: last_dispatch_status becomes "missed".
Misfired(s, occurrence, now) == now - occurrence > form[s].grace

-----------------------------------------------------------------------------
(* The routes. Each locks the schedule row, reads the clock and commits.   *)

\* POST /task-schedules refuses what initial_next_run refuses.
CreateSchedule(s) ==
    /\ state[s] = "absent"
    /\ InitialNext(s, clock) # NoTime
    /\ state' = [state EXCEPT ![s] = "on"]
    /\ nextRun' = [nextRun EXCEPT ![s] = InitialNext(s, clock)]
    /\ UNCHANGED <<clock, form, broken, tasks, pollNow, decided>>

\* PATCH /task-schedules/{id} with enabled = true. An occurrence that has
\* passed while the schedule was off is given up; a one-time schedule whose
\* run_at has passed is refused.
Enable(s) ==
    /\ state[s] # "absent"
    /\ IF nextRun[s] = NoTime \/ nextRun[s] <= clock
       THEN /\ InitialNext(s, clock) # NoTime
            /\ nextRun' = [nextRun EXCEPT ![s] = InitialNext(s, clock)]
       ELSE UNCHANGED nextRun
    /\ state' = [state EXCEPT ![s] = "on"]
    /\ UNCHANGED <<clock, form, broken, tasks, pollNow, decided>>

\* PATCH with enabled = false: tasks that are queued already stay queued.
Pause(s) ==
    /\ state[s] = "on"
    /\ state' = [state EXCEPT ![s] = "off"]
    /\ UNCHANGED <<clock, form, nextRun, broken, tasks, pollNow, decided>>

\* POST /task-schedules/{id}/run returns an active task if there is one; it
\* neither tests enabled nor moves next_run_at.
RunNow(s) ==
    LET number == Cardinality({k \in Of(s) : k.manual}) + 1 IN
    /\ state[s] # "absent"
    /\ Active(s) = {}
    /\ number <= MaxManual
    /\ tasks' = tasks \cup {Row(s, clock, TRUE, number)}
    /\ UNCHANGED <<clock, form, state, nextRun, broken, pollNow, decided>>

-----------------------------------------------------------------------------
(* The maintenance loop.                                                   *)

Poll(p) ==
    /\ pollNow' = [pollNow EXCEPT ![p] = clock]
    /\ UNCHANGED <<clock, form, state, nextRun, broken, tasks, decided>>

\* The stored zone or interval cannot be read: last_dispatch_status "invalid".
Suspend(s) ==
    /\ state' = [state EXCEPT ![s] = "off"]
    /\ UNCHANGED <<nextRun, tasks>>

\* The schedule moves on whether its occurrence is queued, missed or skipped.
\* A key that is taken would fail the flush and roll the batch back.
Advance(s, now) ==
    LET occurrence == LatestDue(s, now)
        next == NextAfter(s, now)
    IN /\ nextRun' = [nextRun EXCEPT ![s] = next]
       /\ state' = IF next = NoTime THEN [state EXCEPT ![s] = "off"] ELSE state
       /\ IF Misfired(s, occurrence, now) \/ Active(s) # {}
          THEN UNCHANGED tasks
          ELSE /\ occurrence \notin Queued(s)
               /\ tasks' = tasks \cup {Row(s, occurrence, FALSE, 0)}

\* dispatch_due_schedules, for one row of the batch.
Dispatch(p, s) ==
    /\ Due(s, pollNow[p])
    /\ IF s \in broken THEN Suspend(s) ELSE Advance(s, pollNow[p])
    /\ decided' = [decided EXCEPT ![s] = pollNow[p]]
    /\ UNCHANGED <<clock, form, broken, pollNow>>

-----------------------------------------------------------------------------
(* Workers and the world.                                                  *)

Turn(k, status) == tasks' = (tasks \ {k}) \cup {[k EXCEPT !.status = status]}

\* Claimed, put back for another attempt, or over: see TaskExecution. A task
\* is not claimed once its deadline has passed.
WorkOn(k) ==
    /\ \/ k.status = "queued" /\ clock < Deadline(k) /\ Turn(k, "running")
       \/ k.status = "running" /\ clock < Deadline(k) /\ Turn(k, "queued")
       \/ k.status # "over" /\ Turn(k, "over")
    /\ UNCHANGED <<clock, form, state, nextRun, broken, pollNow, decided>>

\* What was stored stops being valid, as when the zone database is updated.
Break(s) ==
    /\ form[s].kind # "once"
    /\ state[s] # "absent"
    /\ broken' = broken \cup {s}
    /\ UNCHANGED <<clock, form, state, nextRun, tasks, pollNow, decided>>

Tick ==
    /\ clock < Horizon
    /\ clock' = clock + 1
    /\ UNCHANGED <<form, state, nextRun, broken, tasks, pollNow, decided>>

-----------------------------------------------------------------------------

Routes(s) == CreateSchedule(s) \/ Enable(s) \/ Pause(s) \/ RunNow(s)

Next ==
    \/ \E s \in Schedules : Routes(s) \/ Break(s)
    \/ \E p \in Pollers : Poll(p) \/ \E s \in Schedules : Dispatch(p, s)
    \/ \E k \in tasks : WorkOn(k)
    \/ Tick

Spec == Init /\ [][Next]_vars

\* _maintenance_loop catches every exception and sleeps for poll_seconds.
Fairness ==
    \A p \in Pollers : WF_vars(Poll(p)) /\ \A s \in Schedules : WF_vars(Dispatch(p, s))

FairSpec == Spec /\ Fairness

-----------------------------------------------------------------------------
(* Properties.                                                             *)

\* "A queued/running task from that schedule causes a timed occurrence to be
\* skipped; Run now returns that existing task": however the two kinds of
\* dispatch and several loops interleave, a schedule has one task in flight.
OneActiveTask ==
    \A s \in Schedules : \A k1, k2 \in Active(s) : k1 = k2

\* The unique idempotency key never gets in the way: no loop, however old its
\* reading of the clock, is about to queue an occurrence for a second time,
\* which would roll back the batch of every schedule, at every poll. Rows and
\* readings are of their types.
KeyNeverConflicts ==
    /\ TypeOK
    /\ \A s \in Schedules, p \in Pollers :
        Due(s, pollNow[p]) /\ s \notin broken => LatestDue(s, pollNow[p]) \notin Queued(s)

\* "There is no catch-up burst": once a loop has decided at some reading of the
\* clock, no occurrence up to that reading is queued any more, by any loop,
\* although the schedule may be paused, enabled and run by hand in between.
NoCatchUpBurst ==
    [][\A k \in tasks' : ~k.manual /\ decided[k.of] # NoTime /\ k.at <= decided[k.of]
          => k.at \in Queued(k.of)]_vars

\* A timed occurrence that is queued has time left before its deadline, as seen
\* by the loop that queues it: it is not queued only to be refused.
QueuedInTime ==
    [][\A k \in tasks' : ~k.manual /\ k.at \notin Queued(k.of)
          => \E p \in Pollers : pollNow[p] >= k.at /\ pollNow[p] < Deadline(k)]_vars

\* "One-time schedules are disabled after dispatch or a missed window": for
\* good, no request can enable them again.
OnceIsOver ==
    \A s \in Schedules : form[s].kind = "once" /\ decided[s] # NoTime => state[s] = "off"

\* Every due occurrence is decided on, also when its schedule or another one
\* cannot be read any more, unless the user pauses the schedule or moves it.
DueIsDecided ==
    \A s \in Schedules : \A n \in 0..Horizon :
        state[s] = "on" /\ nextRun[s] = n /\ n <= clock
            ~> state[s] # "on" \/ nextRun[s] # n
=============================================================================
