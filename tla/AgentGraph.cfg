\* Every kind of message against every kind of registry, two refreshes during
\* the turn, searches of up to three pages.
SPECIFICATION FairSpec
CONSTANTS
    Messages <- AllMessages
    Registries <- AllRegistries
    MaxRounds = 2
    Pages = 3
    MaxRefreshes = 2
    MaxRetries = 1
\* A turn that is over has nothing left to do.
CHECK_DEADLOCK FALSE
INVARIANTS
    GuardedCallsHaveConsent
    CallsAreLimited
    DoneMatchesAudit
    DoneHasItsTrace
    TextOfOneAttempt
PROPERTIES
    EveryRunEnds
