\* One row, three attempts and a spare token: everything that can happen to a
\* task between its workers, its recovery and its user. Fairness is that of
\* time and of the maintenance loop alone.
SPECIFICATION FairSpec
CONSTANTS
    t1 = t1
    e1 = e1
    e2 = e2
    e3 = e3
    e4 = e4
    Tasks = {t1}
    Execs = {e1, e2, e3, e4}
    NoExec = NoExec
    NoTask = NoTask
    NoPrompt = {}
    MaxAttempts = 3
    LeaseTime = 2
    DeadlineTime = 7
    RetryBase = 1
    MaxBackoff = 3
\* A task that is over, with its workers gone, has nothing left to do.
CHECK_DEADLOCK FALSE
INVARIANTS
    EffectsOfOneExecution
    PromptShownOnce
    SuccessHasItsAnswer
    TimersInOrder
PROPERTIES
    LiveAttemptEndsItself
    ImplementsLifecycle
    EveryTaskEnds
