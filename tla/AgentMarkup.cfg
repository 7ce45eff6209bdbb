\* Every kind of message against every kind of registry, without refreshes and
\* retries: what becomes of an answer that is nothing but tool markup.
SPECIFICATION Spec
CONSTANTS
    Messages <- AllMessages
    Registries <- AllRegistries
    MaxRounds = 2
    Pages = 1
    MaxRefreshes = 0
    MaxRetries = 0
\* A turn that is over has nothing left to do.
CHECK_DEADLOCK FALSE
INVARIANT
    MarkupFallsBackToResult
