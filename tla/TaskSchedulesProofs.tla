------------------------ MODULE TaskSchedulesProofs ------------------------
(***************************************************************************)
(* Theorems about TaskSchedules, for any number of schedules, maintenance  *)
(* loops and kinds of schedule, and for a clock that runs to any horizon.  *)
(***************************************************************************)
EXTENDS TaskSchedules, WellFoundedInduction, FiniteSetTheorems, TLAPS

Status == {"queued", "running", "over"}

\* A row is the record that Row makes, whatever became of its status.
IsRow(k) ==
    /\ k = [of |-> k.of, at |-> k.at, manual |-> k.manual, no |-> k.no, status |-> k.status]
    /\ k.status \in Status

ActiveInv == (\A k \in tasks : IsRow(k)) /\ OneActiveTask

\* A queued row of s is added only where s has no active task.
LEMMA AddKeeps ==
    ASSUME ActiveInv, NEW s \in Schedules, Active(s) = {}, NEW at, NEW manual, NEW no,
           tasks' = tasks \cup {Row(s, at, manual, no)}
    PROVE  ActiveInv'
<1>1. IsRow(Row(s, at, manual, no)) /\ Row(s, at, manual, no).of = s
  BY DEF IsRow, Row, Status
<1>2. \A k \in tasks' : IsRow(k)
  BY <1>1 DEF ActiveInv
<1>3. ASSUME NEW t \in Schedules, NEW k1 \in Active(t)', NEW k2 \in Active(t)' PROVE k1 = k2
  <2>1. CASE t = s
    <3>1. \A k \in tasks : k.of = s => k.status \notin {"queued", "running"}
      BY DEF Active, Of
    <3> QED
      BY <1>3, <2>1, <3>1 DEF Active, Of
  <2>2. CASE t # s
    <3>1. k1 \in Active(t) /\ k2 \in Active(t)
      BY <1>1, <1>3, <2>2 DEF Active, Of
    <3> QED
      BY <3>1 DEF ActiveInv, OneActiveTask
  <2> QED
    BY <2>1, <2>2
<1> QED
  BY <1>2, <1>3 DEF ActiveInv, OneActiveTask

\* What a worker does with a task that is not over.
LEMMA TurnKeeps ==
    ASSUME ActiveInv, NEW k \in tasks, k.status \in {"queued", "running"}, NEW new \in Status, Turn(k, new)
    PROVE  ActiveInv'
<1> DEFINE n == [k EXCEPT !.status = new]
<1>1. IsRow(n) /\ n.of = k.of
  <2>1. IsRow(k)
    BY DEF ActiveInv
  <2>2. n = [of |-> k.of, at |-> k.at, manual |-> k.manual, no |-> k.no, status |-> new]
    BY <2>1 DEF IsRow
  <2> QED
    BY <2>2 DEF IsRow
<1>2. tasks' = (tasks \ {k}) \cup {n}
  BY DEF Turn
<1>3. \A j \in tasks' : IsRow(j)
  BY <1>1, <1>2 DEF ActiveInv
<1>4. ASSUME NEW t \in Schedules, NEW k1 \in Active(t)', NEW k2 \in Active(t)' PROVE k1 = k2
  <2>1. CASE t = k.of
    <3>1. \A j \in tasks \ {k} : j.of = t => j.status \notin {"queued", "running"}
      BY <2>1 DEF ActiveInv, OneActiveTask, Active, Of
    <3> QED
      BY <1>2, <1>4, <3>1 DEF Active, Of
  <2>2. CASE t # k.of
    <3>1. k1 \in Active(t) /\ k2 \in Active(t)
      BY <1>1, <1>2, <1>4, <2>2 DEF Active, Of
    <3> QED
      BY <3>1 DEF ActiveInv, OneActiveTask
  <2> QED
    BY <2>1, <2>2
<1> QED
  BY <1>3, <1>4 DEF ActiveInv, OneActiveTask

LEMMA ActiveNext == ActiveInv /\ [Next]_vars => ActiveInv'
<1> SUFFICES ASSUME ActiveInv, [Next]_vars PROVE ActiveInv'
  OBVIOUS
<1>0. ASSUME UNCHANGED tasks PROVE ActiveInv'
  BY <1>0 DEF ActiveInv, OneActiveTask, Active, Of
<1>1. ASSUME NEW s \in Schedules, CreateSchedule(s) \/ Enable(s) \/ Pause(s) \/ Break(s)
      PROVE  ActiveInv'
  BY <1>0, <1>1 DEF CreateSchedule, Enable, Pause, Break
<1>2. ASSUME NEW s \in Schedules, RunNow(s) PROVE ActiveInv'
  BY <1>2, AddKeeps DEF RunNow
<1>3. ASSUME NEW p \in Pollers, Poll(p) PROVE ActiveInv'
  BY <1>0, <1>3 DEF Poll
<1>4. ASSUME NEW p \in Pollers, NEW s \in Schedules, Dispatch(p, s) PROVE ActiveInv'
  <2>1. CASE UNCHANGED tasks
    BY <1>0, <2>1
  <2>2. CASE Active(s) = {} /\ tasks' = tasks \cup {Row(s, LatestDue(s, pollNow[p]), FALSE, 0)}
    BY <2>2, AddKeeps
  <2> QED
    BY <1>4, <2>1, <2>2 DEF Dispatch, Suspend, Advance
<1>5. ASSUME NEW k \in tasks, WorkOn(k) PROVE ActiveInv'
  <2>1. CASE k.status \in {"queued", "running"}
    BY <1>5, <2>1, TurnKeeps DEF WorkOn, Status
  <2>2. CASE k.status = "over"
    BY <1>5, <2>2 DEF WorkOn
  <2> QED
    BY <2>1, <2>2 DEF ActiveInv, IsRow, Status
<1>6. CASE Tick
  BY <1>0, <1>6 DEF Tick
<1>7. CASE UNCHANGED vars
  BY <1>0, <1>7 DEF vars
<1> QED
  BY <1>1, <1>2, <1>3, <1>4, <1>5, <1>6, <1>7 DEF Next, Routes

\* A schedule has at most one queued or running task: timed dispatches by any
\* number of loops, and runs by hand, find the active one under the row's lock
\* (active_schedule_task).
THEOREM OneTaskIsActive == Spec => []OneActiveTask
<1>1. Init => ActiveInv
  BY DEF Init, ActiveInv, OneActiveTask, Active, Of
<1>2. ActiveInv /\ [Next]_vars => ActiveInv'
  BY ActiveNext
<1>3. ActiveInv => OneActiveTask
  BY DEF ActiveInv
<1> QED
  BY <1>1, <1>2, <1>3, PTL DEF Spec

-----------------------------------------------------------------------------
(* Arithmetic of the calendar: what is initial or next lies after now, and *)
(* the latest due occurrence lies between the one that was due and now.    *)

LEMMA Division ==
    ASSUME NEW a \in Nat, NEW b \in Nat \ {0}
    PROVE  a \div b \in Nat /\ (a \div b) * b <= a /\ a < (a \div b + 1) * b
<1>1. a = b * (a \div b) + (a % b) /\ a % b \in 0..(b - 1) /\ a \div b \in Nat
  BY SMT
<1> DEFINE q == a \div b
<1>2. q * b = b * q /\ (q + 1) * b = b * q + b /\ b * q \in Nat
  BY <1>1, SMT
<1> QED
  BY <1>1, <1>2, SMT

LEMMA EarliestIsThere ==
    ASSUME NEW S \in SUBSET Nat, S # {}
    PROVE  Earliest(S) \in S /\ \A y \in S : Earliest(S) <= y
<1>1. PICK x \in S : \A y \in S : ~(<<y, x>> \in OpToRel(<, Nat))
  BY WFMin, NatLessThanWellFounded
<1>2. ASSUME NEW y \in S PROVE x <= y
  <2>1. <<y, x>> \in Nat \X Nat /\ ~(<<y, x>> \in {ss \in Nat \X Nat : ss[1] < ss[2]})
    BY <1>1, Zenon DEF OpToRel
  <2> QED
    BY <2>1
<1> QED
  BY <1>2 DEF Earliest

LEMMA LatestIsThere ==
    ASSUME NEW S \in SUBSET Nat, S # {}, NEW n \in Nat, \A y \in S : y <= n
    PROVE  Latest(S) \in S /\ \A y \in S : Latest(S) >= y
<1> DEFINE T == {n - y : y \in S}
<1>1. T \in SUBSET Nat /\ T # {}
  <2>1. \A y \in S : n - y \in Nat
    OBVIOUS
  <2> QED
    BY <2>1
<1>2. PICK t \in T : \A u \in T : t <= u
  <2> HIDE DEF T
  <2> QED
    BY <1>1, EarliestIsThere
<1>3. PICK x \in S : t = n - x
  OBVIOUS
<1>4. ASSUME NEW y \in S PROVE x >= y
  <2>1. n - y \in T /\ x \in Nat /\ y \in Nat
    OBVIOUS
  <2>2. n - x <= n - y
    BY <1>2, <1>3, <2>1
  <2> QED
    BY <2>1, <2>2
<1> QED
  BY <1>4 DEF Latest

LEMMA NextDailyIsLater ==
    ASSUME TypeOK, NEW s \in Schedules, form[s].kind = "daily", NEW now \in 0..Horizon
    PROVE  NextDaily(s, now) \in Nat /\ NextDaily(s, now) > now
<1> DEFINE Days == {d \in form[s].dailyAt : d > now}
<1>1. form[s] \in Forms
  BY DEF TypeOK
<1>2. Days \in SUBSET Nat /\ Days # {}
  BY <1>1, ScheduleParameters
<1>3. Earliest(Days) \in Days
  <2> HIDE DEF Days
  <2> QED
    BY <1>2, EarliestIsThere
<1> QED
  BY <1>2, <1>3 DEF NextDaily

LEMMA InitialIsLater ==
    ASSUME TypeOK, NEW s \in Schedules, NEW now \in 0..Horizon, InitialNext(s, now) # NoTime
    PROVE  InitialNext(s, now) \in Nat /\ InitialNext(s, now) > now
<1>1. /\ form[s].kind \in {"once", "interval", "daily"}
      /\ form[s].runAt \in Nat \/ form[s].runAt = NoTime
      /\ form[s].kind = "once" => form[s].runAt \in Nat
      /\ form[s].interval \in Nat \ {0}
  BY ScheduleParameters DEF TypeOK
<1>2. CASE form[s].kind = "once"
  BY <1>1, <1>2 DEF InitialNext
<1>3. CASE form[s].kind = "interval"
  BY <1>1, <1>3 DEF InitialNext
<1>4. CASE form[s].kind = "daily"
  <2>1. NextDaily(s, now) \in Nat /\ NextDaily(s, now) > now
    BY <1>4, NextDailyIsLater
  <2> QED
    BY <1>4, <2>1 DEF InitialNext
<1> QED
  BY <1>1, <1>2, <1>3, <1>4

\* What is next lies after the reading at which the schedule moves on.
LEMMA NextIsLater ==
    ASSUME TypeOK, NEW s \in Schedules, NEW now \in 0..Horizon,
           nextRun[s] \in Nat, nextRun[s] <= now, NextAfter(s, now) # NoTime
    PROVE  NextAfter(s, now) \in Nat /\ NextAfter(s, now) > now
<1>1. form[s].kind \in {"once", "interval", "daily"} /\ form[s].interval \in Nat \ {0}
  BY ScheduleParameters DEF TypeOK
<1>2. CASE form[s].kind = "once"
  BY <1>2 DEF NextAfter
<1>3. CASE form[s].kind = "interval"
  <2> DEFINE i == form[s].interval
             c == nextRun[s] + i
             q == (now - c) \div i
  <2>1. i \in Nat \ {0} /\ c \in Nat /\ now \in Nat
    BY <1>1
  <2>2. NextAfter(s, now) = IF c > now THEN c ELSE c + (q + 1) * i
    BY <1>3 DEF NextAfter
  <2>3. CASE c > now
    BY <2>1, <2>2, <2>3
  <2>4. CASE ~(c > now)
    <3>1. now - c \in Nat
      BY <2>1, <2>4
    <3>2. q \in Nat /\ now - c < (q + 1) * i
      <4> HIDE DEF c, i
      <4> QED
        BY <2>1, <3>1, Division
    <3>3. (q + 1) * i \in Nat
      <4> HIDE DEF q, i
      <4> QED
        BY <2>1, <3>2
    <3> HIDE DEF q, i, c
    <3> QED
      BY <2>1, <2>2, <2>4, <3>2, <3>3
  <2> QED
    BY <2>3, <2>4
<1>4. CASE form[s].kind = "daily"
  BY <1>4, NextDailyIsLater DEF NextAfter
<1> QED
  BY <1>1, <1>2, <1>3, <1>4

\* The occurrence that is decided lies between the one that was due and the
\* reading of the clock.
LEMMA LatestIsDue ==
    ASSUME TypeOK, NEW s \in Schedules, NEW now \in 0..Horizon,
           nextRun[s] \in Nat, nextRun[s] <= now
    PROVE  /\ LatestDue(s, now) \in Nat
           /\ nextRun[s] <= LatestDue(s, now) /\ LatestDue(s, now) <= now
<1>1. /\ form[s].kind \in {"once", "interval", "daily"} /\ form[s].interval \in Nat \ {0}
      /\ \A d \in form[s].dailyAt : d \in Nat
  BY ScheduleParameters DEF TypeOK
<1>2. CASE form[s].kind = "once"
  BY <1>2 DEF LatestDue
<1>3. CASE form[s].kind = "interval"
  <2> DEFINE i == form[s].interval
             n == nextRun[s]
             q == (now - n) \div i
  <2>1. i \in Nat \ {0} /\ n \in Nat /\ now \in Nat /\ now - n \in Nat
    BY <1>1
  <2>2. LatestDue(s, now) = n + q * i
    BY <1>3 DEF LatestDue
  <2>3. q \in Nat /\ q * i <= now - n
    <3> HIDE DEF n, i
    <3> QED
      BY <2>1, Division
  <2>4. q * i \in Nat
    <3> HIDE DEF q, i
    <3> QED
      BY <2>1, <2>3
  <2> HIDE DEF q, i
  <2> QED
    BY <2>1, <2>2, <2>3, <2>4
<1>4. CASE form[s].kind = "daily"
  <2> DEFINE D == {nextRun[s]} \cup
                  {d \in form[s].dailyAt : now - 3 * DayLength < d /\ d <= now}
  <2>1. D \in SUBSET Nat /\ D # {} /\ now \in Nat /\ \A d \in D : d <= now
    BY <1>1
  <2>2. Latest(D) \in D /\ \A d \in D : Latest(D) >= d
    <3> HIDE DEF D
    <3> QED
      BY <2>1, LatestIsThere
  <2>3. nextRun[s] \in D
    OBVIOUS
  <2>4. LatestDue(s, now) = Latest(D)
    BY <1>4 DEF LatestDue
  <2> HIDE DEF D
  <2> QED
    BY <2>1, <2>2, <2>3, <2>4
<1> QED
  BY <1>1, <1>2, <1>3, <1>4

-----------------------------------------------------------------------------
(* Timed dispatch. An enabled schedule is due after its last decision, and *)
(* every timed task lies at or before that decision. A schedule that could *)
(* not be read is off, and stays off: it is due no later than now.         *)

ReadingsPast ==
    /\ \A p \in Pollers : pollNow[p] <= clock
    /\ \A s \in Schedules : decided[s] # NoTime => decided[s] <= clock

DueAfterDecision(s) ==
    decided[s] # NoTime /\ nextRun[s] # NoTime
        => nextRun[s] > decided[s] \/ (s \in broken /\ state[s] # "on" /\ nextRun[s] <= clock)

Covered(k) == ~k.manual => decided[k.of] # NoTime /\ k.at <= decided[k.of]

DispatchInv ==
    /\ TypeOK
    /\ IsFiniteSet(tasks)
    /\ ReadingsPast
    /\ \A s \in Schedules : DueAfterDecision(s)
    /\ \A k \in tasks : Covered(k)

LEMMA DispatchNext == DispatchInv /\ [Next]_vars => DispatchInv'
<1> SUFFICES ASSUME DispatchInv, [Next]_vars PROVE DispatchInv'
  OBVIOUS
<1> USE ScheduleParameters
<1>0. TypeOK /\ ReadingsPast /\ clock \in Nat
  BY DEF DispatchInv, TypeOK
<1>1. ASSUME NEW s \in Schedules, NEW next \in Nat, next > clock,
             state' = [state EXCEPT ![s] = "on"], nextRun' = [nextRun EXCEPT ![s] = next],
             UNCHANGED <<clock, form, broken, tasks, pollNow, decided>>
      PROVE  DispatchInv'
  <2>1. TypeOK'
    BY <1>0, <1>1 DEF TypeOK
  <2>2. ReadingsPast'
    BY <1>0, <1>1 DEF ReadingsPast
  <2>3. ASSUME NEW t \in Schedules PROVE DueAfterDecision(t)'
    <3>1. CASE t = s
      BY <1>0, <1>1, <3>1 DEF TypeOK, ReadingsPast, DueAfterDecision
    <3>2. CASE t # s
      BY <1>0, <1>1, <3>2 DEF TypeOK, DispatchInv, DueAfterDecision
    <3> QED
      BY <3>1, <3>2
  <2> QED
    BY <1>1, <2>1, <2>2, <2>3 DEF DispatchInv, Covered
<1>2. ASSUME NEW s \in Schedules, CreateSchedule(s) PROVE DispatchInv'
  BY <1>0, <1>1, <1>2, InitialIsLater DEF CreateSchedule, TypeOK
<1>3. ASSUME NEW s \in Schedules, Enable(s) PROVE DispatchInv'
  <2>1. CASE nextRun[s] = NoTime \/ nextRun[s] <= clock
    BY <1>0, <1>1, <1>3, <2>1, InitialIsLater DEF Enable, TypeOK
  <2>2. CASE ~(nextRun[s] = NoTime \/ nextRun[s] <= clock)
    <3>1. nextRun[s] \in Nat /\ nextRun[s] > clock /\ nextRun' = [nextRun EXCEPT ![s] = nextRun[s]]
      BY <1>0, <1>3, <2>2 DEF Enable, TypeOK
    <3> QED
      BY <1>1, <1>3, <3>1 DEF Enable
  <2> QED
    BY <2>1, <2>2
<1>4. ASSUME NEW s \in Schedules, Pause(s) PROVE DispatchInv'
  <2>1. TypeOK' /\ ReadingsPast'
    BY <1>0, <1>4 DEF Pause, TypeOK, ReadingsPast
  <2>2. \A t \in Schedules : DueAfterDecision(t)'
    BY <1>0, <1>4 DEF Pause, DispatchInv, DueAfterDecision, TypeOK
  <2> QED
    BY <1>4, <2>1, <2>2 DEF Pause, DispatchInv, Covered
<1>5. ASSUME NEW s \in Schedules, RunNow(s) PROVE DispatchInv'
  <2> DEFINE by == {k \in Of(s) : k.manual}
             n == Cardinality(by) + 1
  <2>1. n \in 0..MaxManual
    <3>1. IsFiniteSet(tasks) /\ by \subseteq tasks
      BY DEF DispatchInv, Of
    <3>2. Cardinality(by) \in Nat
      BY <3>1, FS_Subset, FS_CardinalityType
    <3>3. n <= MaxManual
      BY <1>5 DEF RunNow
    <3> QED
      BY <3>2, <3>3
  <2>2. tasks' = tasks \cup {Row(s, clock, TRUE, n)} /\ UNCHANGED <<clock, form, state, nextRun, broken, pollNow, decided>>
    BY <1>5 DEF RunNow
  <2> HIDE DEF n
  <2>3. Row(s, clock, TRUE, n) \in TaskRow /\ Row(s, clock, TRUE, n).manual
    BY <1>0, <2>1 DEF Row, TaskRow
  <2>4. TypeOK'
    BY <1>0, <2>2, <2>3 DEF TypeOK
  <2>5. IsFiniteSet(tasks')
    BY <2>2, FS_AddElement DEF DispatchInv
  <2>6. ReadingsPast' /\ \A t \in Schedules : DueAfterDecision(t)'
    BY <1>0, <2>2 DEF DispatchInv, ReadingsPast, DueAfterDecision
  <2>7. \A k \in tasks' : Covered(k)'
    BY <2>2, <2>3 DEF DispatchInv, Covered
  <2> QED
    BY <2>4, <2>5, <2>6, <2>7 DEF DispatchInv
<1>6. ASSUME NEW s \in Schedules, Break(s) PROVE DispatchInv'
  BY <1>0, <1>6 DEF Break, DispatchInv, TypeOK, ReadingsPast, DueAfterDecision, Covered
<1>7. ASSUME NEW p \in Pollers, Poll(p) PROVE DispatchInv'
  BY <1>0, <1>7 DEF Poll, DispatchInv, TypeOK, ReadingsPast, DueAfterDecision, Covered
<1>8. ASSUME NEW p \in Pollers, NEW s \in Schedules, Dispatch(p, s) PROVE DispatchInv'
  <2> DEFINE now == pollNow[p]
  <2>1. /\ now \in 0..Horizon /\ now <= clock /\ state[s] = "on" /\ nextRun[s] \in Nat /\ nextRun[s] <= now
        /\ decided' = [decided EXCEPT ![s] = now] /\ decided'[s] = now /\ now # NoTime
        /\ \A t \in Schedules \ {s} : decided'[t] = decided[t]
        /\ UNCHANGED <<clock, form, broken, pollNow>>
    BY <1>0, <1>8 DEF Dispatch, Due, TypeOK, ReadingsPast
  <2>2. decided[s] # NoTime => decided[s] <= now
    <3>1. decided[s] # NoTime => nextRun[s] > decided[s] /\ decided[s] \in Nat
      BY <1>0, <2>1 DEF DispatchInv, DueAfterDecision, TypeOK
    <3> QED
      BY <2>1, <3>1
  <2>3. ReadingsPast' /\ decided' \in [Schedules -> 0..Horizon \cup {NoTime}]
    BY <1>0, <2>1 DEF ReadingsPast, TypeOK
  <2>4. \A k \in tasks : Covered(k)'
    <3> TAKE k \in tasks
    <3>1. k \in TaskRow /\ Covered(k)
      BY DEF DispatchInv, TypeOK
    <3>2. CASE k.of = s
      BY <2>1, <2>2, <3>1, <3>2, <1>0 DEF Covered, TaskRow, TypeOK
    <3>3. CASE k.of # s
      BY <2>1, <3>1, <3>3 DEF Covered, TaskRow
    <3> QED
      BY <3>2, <3>3
  <2>5. CASE s \in broken
    <3>1. state' = [state EXCEPT ![s] = "off"] /\ UNCHANGED <<nextRun, tasks>>
      BY <1>8, <2>5 DEF Dispatch, Suspend
    <3>2. TypeOK'
      BY <1>0, <2>1, <2>3, <3>1 DEF TypeOK
    <3>3. \A t \in Schedules : DueAfterDecision(t)'
      BY <1>0, <2>1, <2>5, <3>1 DEF DispatchInv, DueAfterDecision, TypeOK
    <3> QED
      BY <2>3, <2>4, <3>1, <3>2, <3>3 DEF DispatchInv
  <2>6. CASE s \notin broken
    <3> DEFINE next == NextAfter(s, now)
               at == LatestDue(s, now)
    <3>1. /\ nextRun' = [nextRun EXCEPT ![s] = next]
          /\ state' = IF next = NoTime THEN [state EXCEPT ![s] = "off"] ELSE state
          /\ UNCHANGED tasks \/ tasks' = tasks \cup {Row(s, at, FALSE, 0)}
      BY <1>8, <2>6 DEF Dispatch, Advance
    <3>2. next = NoTime \/ (next \in Nat /\ next > now)
      BY <1>0, <2>1, NextIsLater
    <3>3. at \in Nat /\ at <= now
      BY <1>0, <2>1, LatestIsDue
    <3> HIDE DEF next, at
    <3>4. PICK row \in TaskRow : /\ row.of = s /\ row.at <= now
                                 /\ UNCHANGED tasks \/ tasks' = tasks \cup {row}
      <4>1. Row(s, at, FALSE, 0) \in TaskRow /\ Row(s, at, FALSE, 0).of = s /\ Row(s, at, FALSE, 0).at <= now
        BY <3>3 DEF Row, TaskRow
      <4> QED
        BY <3>1, <4>1
    <3>5. TypeOK'
      BY <1>0, <2>1, <2>3, <3>1, <3>2, <3>4 DEF TypeOK
    <3>6. IsFiniteSet(tasks')
      <4>1. IsFiniteSet(tasks) /\ IsFiniteSet(tasks \cup {row})
        BY FS_AddElement DEF DispatchInv
      <4> QED
        BY <3>4, <4>1
    <3>7. ASSUME NEW t \in Schedules PROVE DueAfterDecision(t)'
      <4>1. CASE t = s
        BY <1>0, <2>1, <3>1, <3>2, <4>1 DEF DueAfterDecision, TypeOK
      <4>2. CASE t # s
        BY <1>0, <2>1, <3>1, <4>2 DEF DispatchInv, DueAfterDecision, TypeOK
      <4> QED
        BY <4>1, <4>2
    <3>8. Covered(row)'
      BY <2>1, <3>4 DEF Covered
    <3> QED
      BY <2>3, <2>4, <3>4, <3>5, <3>6, <3>7, <3>8 DEF DispatchInv
  <2> QED
    BY <2>5, <2>6
<1>9. ASSUME NEW k \in tasks, WorkOn(k) PROVE DispatchInv'
  <2>1. PICK new \in {"queued", "running", "over"} : Turn(k, new)
    BY <1>9 DEF WorkOn
  <2>2. UNCHANGED <<clock, form, state, nextRun, broken, pollNow, decided>>
    BY <1>9 DEF WorkOn
  <2> DEFINE n == [k EXCEPT !.status = new]
  <2>3. tasks' = (tasks \ {k}) \cup {n}
    BY <2>1 DEF Turn
  <2>4. n \in TaskRow /\ n.of = k.of /\ n.at = k.at /\ n.manual = k.manual
    BY DEF DispatchInv, TypeOK, TaskRow
  <2> HIDE DEF n
  <2>5. TypeOK'
    BY <1>0, <2>2, <2>3, <2>4 DEF TypeOK
  <2>6. IsFiniteSet(tasks')
    BY <2>3, FS_AddElement, FS_RemoveElement DEF DispatchInv
  <2>7. ReadingsPast' /\ \A t \in Schedules : DueAfterDecision(t)'
    BY <1>0, <2>2 DEF DispatchInv, ReadingsPast, DueAfterDecision
  <2>8. \A j \in tasks' : Covered(j)'
    BY <2>2, <2>3, <2>4 DEF DispatchInv, Covered
  <2> QED
    BY <2>5, <2>6, <2>7, <2>8 DEF DispatchInv
<1>10. CASE Tick
  <2>1. TypeOK'
    BY <1>0, <1>10 DEF Tick, TypeOK
  <2>2. ReadingsPast'
    BY <1>0, <1>10 DEF Tick, ReadingsPast, TypeOK
  <2>3. \A t \in Schedules : DueAfterDecision(t)'
    BY <1>0, <1>10 DEF Tick, DispatchInv, DueAfterDecision, TypeOK
  <2> QED
    BY <1>10, <2>1, <2>2, <2>3 DEF Tick, DispatchInv, Covered
<1>11. CASE UNCHANGED vars
  BY <1>0, <1>11 DEF vars, DispatchInv, TypeOK, ReadingsPast, DueAfterDecision, Covered
<1> QED
  BY <1>2, <1>3, <1>4, <1>5, <1>6, <1>7, <1>8, <1>9, <1>10, <1>11 DEF Next, Routes

LEMMA DispatchAlways == Spec => []DispatchInv
<1>1. Init => DispatchInv
  BY ScheduleParameters, FS_EmptySet
     DEF Init, DispatchInv, TypeOK, ReadingsPast, DueAfterDecision, Covered
<1> QED
  BY <1>1, DispatchNext, PTL DEF Spec

\* A due schedule lies after its last decision and its tasks lie before it, so
\* that no loop of dispatch_due_schedules meets an idempotency key in the table,
\* however old its reading; and all rows are of their types.
THEOREM KeysNeverConflict == Spec => []KeyNeverConflicts
<1>1. DispatchInv => KeyNeverConflicts
  <2> SUFFICES ASSUME DispatchInv, NEW s \in Schedules, NEW p \in Pollers,
                      Due(s, pollNow[p]), s \notin broken, LatestDue(s, pollNow[p]) \in Queued(s)
               PROVE  FALSE
    BY DEF KeyNeverConflicts, DispatchInv
  <2>1. nextRun[s] \in Nat /\ nextRun[s] <= pollNow[p] /\ pollNow[p] \in 0..Horizon /\ TypeOK
    BY DEF Due, DispatchInv, TypeOK
  <2>2. LatestDue(s, pollNow[p]) \in Nat /\ LatestDue(s, pollNow[p]) >= nextRun[s]
    BY <2>1, LatestIsDue
  <2>3. PICK k \in tasks : k.of = s /\ ~k.manual /\ k.at = LatestDue(s, pollNow[p])
    BY DEF Queued, Of
  <2>4. decided[s] # NoTime /\ decided[s] \in Nat /\ k.at <= decided[s]
    BY <2>3, ScheduleParameters DEF DispatchInv, Covered, TypeOK
  <2>5. nextRun[s] > decided[s]
    BY <2>1, <2>4, ScheduleParameters DEF DispatchInv, DueAfterDecision
  <2> QED
    BY <2>1, <2>2, <2>3, <2>4, <2>5
<1> QED
  BY <1>1, DispatchAlways, PTL

\* The timed tasks after a step: those that were there, and what Dispatch adds.
LEMMA TimedTasks ==
    ASSUME DispatchInv, [Next]_vars, NEW k \in tasks', ~k.manual, k.at \notin Queued(k.of)
    PROVE  \E p \in Pollers, s \in Schedules :
              /\ Due(s, pollNow[p]) /\ s \notin broken
              /\ k = Row(s, LatestDue(s, pollNow[p]), FALSE, 0)
              /\ ~Misfired(s, LatestDue(s, pollNow[p]), pollNow[p])
<1>1. ASSUME NEW j \in tasks, k.of = j.of, k.at = j.at, k.manual = j.manual PROVE FALSE
  BY <1>1 DEF Queued, Of
<1>2. k \notin tasks
  BY <1>1
<1>3. ASSUME NEW s \in Schedules, Routes(s) \/ Break(s) PROVE FALSE
  BY <1>2, <1>3 DEF Routes, CreateSchedule, Enable, Pause, RunNow, Break, Row
<1>4. ASSUME NEW j \in tasks, WorkOn(j) PROVE FALSE
  <2>1. j \in TaskRow
    BY DEF DispatchInv, TypeOK
  <2>2. PICK new : k = [j EXCEPT !.status = new]
    BY <1>2, <1>4 DEF WorkOn, Turn
  <2> QED
    BY <1>1, <2>1, <2>2 DEF TaskRow
<1>5. PICK p \in Pollers, s \in Schedules : Dispatch(p, s)
  BY <1>2, <1>3, <1>4 DEF Next, vars, Poll, Tick
<1> QED
  BY <1>2, <1>5 DEF Dispatch, Suspend, Advance

\* After downtime, pauses and runs by hand, an occurrence up to the last
\* decision of dispatch_due_schedules is never queued later.
THEOREM NoBurst == Spec => NoCatchUpBurst
<1>1. ASSUME DispatchInv, [Next]_vars, NEW k \in tasks', ~k.manual,
             decided[k.of] # NoTime, k.at <= decided[k.of], k.at \notin Queued(k.of)
      PROVE  FALSE
  <2>1. PICK p \in Pollers, s \in Schedules :
            /\ Due(s, pollNow[p]) /\ s \notin broken
            /\ k = Row(s, LatestDue(s, pollNow[p]), FALSE, 0)
    BY <1>1, TimedTasks
  <2>2. k.of = s /\ k.at = LatestDue(s, pollNow[p])
    BY <2>1 DEF Row
  <2>3. nextRun[s] \in Nat /\ nextRun[s] <= pollNow[p] /\ pollNow[p] \in 0..Horizon /\ TypeOK
    BY <1>1, <2>1 DEF Due, DispatchInv, TypeOK
  <2>4. k.at \in Nat /\ k.at >= nextRun[s]
    BY <2>2, <2>3, LatestIsDue
  <2>5. nextRun[s] > decided[s] /\ decided[s] \in Nat
    <3>1. decided[s] # NoTime
      BY <1>1, <2>2
    <3>2. nextRun[s] # NoTime /\ decided[s] \in Nat
      BY <2>3, <3>1, ScheduleParameters DEF TypeOK
    <3> QED
      BY <1>1, <2>1, <3>1, <3>2 DEF DispatchInv, DueAfterDecision
  <2> QED
    BY <1>1, <2>2, <2>3, <2>4, <2>5
<1>2. DispatchInv /\ [Next]_vars =>
          [\A k \in tasks' : ~k.manual /\ decided[k.of] # NoTime /\ k.at <= decided[k.of]
              => k.at \in Queued(k.of)]_vars
  BY <1>1
<1> QED
  BY <1>2, DispatchAlways, PTL DEF Spec, NoCatchUpBurst

\* Where every grace window is shorter than the 900 s of build_scheduled_task, a
\* timed occurrence is queued with time left. Longer ones break it.
THEOREM ShortGraceIsInTime ==
    ASSUME \A f \in Forms : f.grace < RunLimit
    PROVE  Spec => QueuedInTime
<1>1. ASSUME DispatchInv, [Next]_vars, NEW k \in tasks', ~k.manual, k.at \notin Queued(k.of)
      PROVE  \E p \in Pollers : pollNow[p] >= k.at /\ pollNow[p] < Deadline(k)
  <2>1. PICK p \in Pollers, s \in Schedules :
            /\ Due(s, pollNow[p])
            /\ k = Row(s, LatestDue(s, pollNow[p]), FALSE, 0)
            /\ ~Misfired(s, LatestDue(s, pollNow[p]), pollNow[p])
    BY <1>1, TimedTasks
  <2>2. k.at = LatestDue(s, pollNow[p])
    BY <2>1 DEF Row
  <2>3. nextRun[s] \in Nat /\ nextRun[s] <= pollNow[p] /\ pollNow[p] \in 0..Horizon /\ TypeOK
    BY <1>1, <2>1 DEF Due, DispatchInv, TypeOK
  <2>4. k.at \in Nat /\ k.at <= pollNow[p]
    BY <2>2, <2>3, LatestIsDue
  <2>5. form[s].grace \in Nat /\ form[s].grace < RunLimit /\ RunLimit \in Nat
    BY <2>3, ScheduleParameters DEF TypeOK
  <2>6. pollNow[p] - k.at <= form[s].grace
    <3>1. ~(pollNow[p] - k.at > form[s].grace)
      BY <2>1, <2>2, Zenon DEF Misfired
    <3> QED
      BY <2>3, <2>4, <2>5, <3>1
  <2> QED
    BY <2>3, <2>4, <2>5, <2>6 DEF Deadline
<1>2. DispatchInv /\ [Next]_vars =>
          [\A k \in tasks' : ~k.manual /\ k.at \notin Queued(k.of)
              => \E p \in Pollers : pollNow[p] >= k.at /\ pollNow[p] < Deadline(k)]_vars
  BY <1>1
<1> QED
  BY <1>2, DispatchAlways, PTL DEF Spec, QueuedInTime

-----------------------------------------------------------------------------
(* One-time schedules. A decision is taken at a reading of the clock that  *)
(* is not ahead of it, so that run_at has passed by then; and nothing else *)
(* could make the schedule due again.                                      *)

OnceInOrder(s) ==
    /\ s \notin broken
    /\ nextRun[s] \in {NoTime, form[s].runAt}
    /\ decided[s] # NoTime =>
           state[s] = "off" /\ nextRun[s] = NoTime /\ form[s].runAt <= clock

OnceInv == \A s \in Schedules : form[s].kind = "once" => OnceInOrder(s)

LEMMA OnceNext == DispatchInv /\ OnceInv /\ [Next]_vars => OnceInv'
<1> SUFFICES ASSUME DispatchInv, OnceInv, [Next]_vars,
                    NEW t \in Schedules, form'[t].kind = "once"
             PROVE  OnceInOrder(t)'
  BY DEF OnceInv
<1>1. TypeOK /\ ReadingsPast /\ clock \in Nat /\ clock' \in Nat
  BY DispatchNext DEF DispatchInv, TypeOK
<1>2. UNCHANGED form
  BY DEF Next, vars, Routes, CreateSchedule, Enable, Pause, RunNow, Break, Poll, Dispatch, WorkOn, Tick
<1>3. OnceInOrder(t) /\ form[t].kind = "once" /\ form[t].runAt \in Nat
  BY <1>1, <1>2, ScheduleParameters DEF OnceInv, TypeOK
<1>4. ASSUME UNCHANGED <<state, nextRun, decided, broken>>, clock' >= clock PROVE OnceInOrder(t)'
  BY <1>1, <1>2, <1>3, <1>4 DEF OnceInOrder, TypeOK, ReadingsPast
<1>5. ASSUME NEW s \in Schedules, CreateSchedule(s) PROVE OnceInOrder(t)'
  BY <1>1, <1>2, <1>3, <1>5 DEF CreateSchedule, OnceInOrder, TypeOK, ReadingsPast, InitialNext
<1>6. ASSUME NEW s \in Schedules, Enable(s) PROVE OnceInOrder(t)'
  <2>1. CASE s # t
    BY <1>1, <1>2, <1>3, <1>6, <2>1 DEF Enable, OnceInOrder, TypeOK, ReadingsPast
  <2>2. CASE s = t
    <3>1. InitialNext(t, clock) = IF form[t].runAt > clock THEN form[t].runAt ELSE NoTime
      BY <1>3 DEF InitialNext, OnceInOrder
    <3>2. decided[t] # NoTime => InitialNext(t, clock) = NoTime
      BY <1>1, <1>3, <3>1 DEF OnceInOrder, TypeOK, ReadingsPast
    <3>3. decided[t] = NoTime
      BY <1>3, <1>6, <2>2, <3>2 DEF Enable, OnceInOrder
    <3> QED
      BY <1>1, <1>2, <1>3, <1>6, <2>2, <3>1, <3>3 DEF Enable, OnceInOrder, TypeOK, ReadingsPast
  <2> QED
    BY <2>1, <2>2
<1>7. ASSUME NEW s \in Schedules, Pause(s) PROVE OnceInOrder(t)'
  BY <1>1, <1>2, <1>3, <1>7 DEF Pause, OnceInOrder, TypeOK, ReadingsPast
<1>8. ASSUME NEW s \in Schedules, RunNow(s) PROVE OnceInOrder(t)'
  BY <1>1, <1>4, <1>8 DEF RunNow, TypeOK, ReadingsPast
<1>9. ASSUME NEW s \in Schedules, Break(s) PROVE OnceInOrder(t)'
  BY <1>2, <1>3, <1>9 DEF Break, OnceInOrder
<1>10. ASSUME NEW p \in Pollers, NEW s \in Schedules, Dispatch(p, s) PROVE OnceInOrder(t)'
  <2>1. CASE s # t
    BY <1>1, <1>2, <1>3, <1>10, <2>1 DEF Dispatch, Suspend, Advance, OnceInOrder, TypeOK, ReadingsPast
  <2>2. CASE s = t
    <3>1. form[t].runAt <= clock
      BY <1>1, <1>3, <1>10, <2>2 DEF Dispatch, Due, OnceInOrder, TypeOK, ReadingsPast
    <3>2. NextAfter(t, pollNow[p]) = NoTime
      BY <1>3 DEF NextAfter
    <3>3. nextRun'[t] = NoTime /\ state'[t] = "off"
      BY <1>1, <1>3, <1>10, <2>2, <3>2 DEF Dispatch, Advance, OnceInOrder, TypeOK, ReadingsPast
    <3> QED
      BY <1>2, <1>3, <1>10, <3>1, <3>3 DEF Dispatch, OnceInOrder
  <2> QED
    BY <2>1, <2>2
<1>11. ASSUME NEW p \in Pollers, Poll(p) PROVE OnceInOrder(t)'
  BY <1>1, <1>4, <1>11 DEF Poll, TypeOK, ReadingsPast
<1>12. ASSUME NEW k \in tasks, WorkOn(k) PROVE OnceInOrder(t)'
  BY <1>1, <1>4, <1>12 DEF WorkOn, TypeOK, ReadingsPast
<1>13. CASE Tick
  BY <1>1, <1>4, <1>13 DEF Tick, TypeOK, ReadingsPast
<1>14. CASE UNCHANGED vars
  BY <1>1, <1>4, <1>14 DEF vars, TypeOK, ReadingsPast
<1> QED
  BY <1>5, <1>6, <1>7, <1>8, <1>9, <1>10, <1>11, <1>12, <1>13, <1>14 DEF Next, Routes

\* Once dispatch_due_schedules has queued, missed or skipped the occurrence of
\* a one-time schedule, no request and no loop enables the schedule again.
THEOREM OnceIsOverForGood == Spec => []OnceIsOver
<1>1. Init => OnceInv
  BY DEF Init, OnceInv, OnceInOrder
<1>2. OnceInv => OnceIsOver
  BY DEF OnceInv, OnceInOrder, OnceIsOver
<1> QED
  BY <1>1, <1>2, OnceNext, DispatchAlways, PTL DEF Spec
=============================================================================
