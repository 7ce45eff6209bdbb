\* One schedule of any kind and two maintenance loops: the grace is shorter than
\* the time a task has, as it is by default.
SPECIFICATION Spec
CONSTANTS
    s1 = s1
    p1 = p1
    p2 = p2
    NoTime = NoTime
    Schedules = {s1}
    Pollers = {p1, p2}
    Forms <- DefaultForms
    DayLength = 2
    RunLimit = 2
    Horizon = 6
    MaxManual = 1
SYMMETRY LoopSymmetry
\* The clock stops at the horizon.
CHECK_DEADLOCK FALSE
INVARIANTS
    OneActiveTask
    KeyNeverConflicts
    OnceIsOver
PROPERTIES
    NoCatchUpBurst
    QueuedInTime
