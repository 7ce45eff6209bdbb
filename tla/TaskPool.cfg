\* One job at a time (and one that waits for it), up to four rows, one of them with
\* two attempts, one cancellation, and one shutdown or crash.
SPECIFICATION FairSpec
CONSTANTS
    a = a
    b = b
    c = c
    d = d
    e = e
    k1 = k1
    k2 = k2
    k3 = k3
    NoKey = NoKey
    Requests <- Some
    Scenarios <- SomeScenarios
    Key <- KeyOf
    Prompt <- PromptOf
    Rest <- RestOf
    MaxAttempts <- AttemptsOf
    MaxConcurrency = 1
    MaxCancels = 1
    MaxStops = 1
\* Every row is over and every request has been answered.
CHECK_DEADLOCK FALSE
INVARIANTS
    PoolKeepsTrack
    
PROPERTIES
    QueueDrains
