\* Three log-ins at a cap of two sessions and of two attempts for an account, a
\* registration, a request that uses a session, one password at a time.
SPECIFICATION Spec
CONSTANTS
    ann = ann
    bob = bob
    l1 = l1
    l2 = l2
    l3 = l3
    r1 = r1
    v1 = v1
    LogIns = {l1, l2, l3}
    Registrations = {r1}
    Visits = {v1}
    Names = {ann, bob}
    NameOf <- SomeNames
    Known = {ann}
    MaxSessions = 2
    IpLimit = 3
    AccountLimit = 2
    Workers = 1
    MaxWindows = 1
SYMMETRY SameRequests
\* Every request has been answered and the window cannot be renewed any more.
CHECK_DEADLOCK FALSE
INVARIANTS
    
    LoggedOutStaysOut
