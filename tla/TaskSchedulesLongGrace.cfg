\* One schedule with a grace longer than the time a task has, which the API
\* allows: an occurrence dispatched late is queued only to be refused.
SPECIFICATION Spec
CONSTANTS
    s1 = s1
    p1 = p1
    p2 = p2
    NoTime = NoTime
    Schedules = {s1}
    Pollers = {p1, p2}
    Forms <- PatientForms
    DayLength = 2
    RunLimit = 2
    Horizon = 6
    MaxManual = 1
SYMMETRY LoopSymmetry
\* The clock stops at the horizon.
CHECK_DEADLOCK FALSE
PROPERTIES
    QueuedInTime
