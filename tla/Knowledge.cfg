\* Chunks of four characters that overlap by one, batches of two; up to three
\* documents, two of them in a conversation; lists of two, a pool of three.
SPECIFICATION RagSpec
CONSTANTS
    r1 = r1
    r2 = r2
    Deleter = Deleter
    Free = Free
    Docs = {1, 2, 3}
    InConversation = {1, 2}
    Reindexers = {r1, r2}
    Batch = 2
    ChunkSize = 4
    Overlap = 1
    Limit = 2
    PoolSize = 3
    MaxList = 2
    Scores = {1, 2}
    Scenarios <- SomeScenarios
\* Every request has been answered.
CHECK_DEADLOCK FALSE
INVARIANTS
    IndexIsWhole
    
PROPERTIES
    VectorsSurviveOutage
