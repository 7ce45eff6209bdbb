-------------------------- MODULE MCTaskSchedules --------------------------
(* Instances of TaskSchedules for TLC.                                      *)
EXTENDS TaskSchedules, TLC

Form(kind, runAt, grace) ==
    [kind |-> kind, runAt |-> runAt, interval |-> 2, grace |-> grace,
     dailyAt |-> {2, 6, 8, 10}]

\* Every kind of schedule. The daily time does not exist on the second day,
\* and an interval may begin at once or in the future.
FormsWithGrace(grace) ==
    {Form("once", 2, grace), Form("interval", 1, grace),
     Form("interval", NoTime, grace), Form("daily", NoTime, grace)}

\* The default: 300 s of grace, 900 s to the deadline.
DefaultForms == FormsWithGrace(0) \cup FormsWithGrace(1)

\* misfire_grace_seconds may be longer than those 900 s, up to a day.
PatientForms == FormsWithGrace(4)

\* For the liveness run, where two schedules are on at a time.
TwoKinds == {Form("interval", 1, 1), Form("daily", NoTime, 1)}

LoopSymmetry == Permutations(Pollers)
=============================================================================
