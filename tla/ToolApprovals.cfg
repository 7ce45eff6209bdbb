\* A search of four pages and four confirmations, some of which may be
\* repeated.
SPECIFICATION Spec
CONSTANTS
    a1 = a1
    a2 = a2
    a3 = a3
    a4 = a4
    r1 = r1
    r2 = r2
    r3 = r3
    r4 = r4
    Approvals = {a1, a2, a3, a4}
    Requests = {r1, r2, r3, r4}
    NoApproval = NoApproval
    Pages = 4
SYMMETRY IdSymmetry
\* Once every approval is resolved there is nothing left to do.
CHECK_DEADLOCK FALSE
INVARIANTS
    OneCallPerApproval
    PageFetchedOnce
    RefusalStopsTheChain
    CompletionLeavesATrace
PROPERTIES
    ResolutionIsFinal
