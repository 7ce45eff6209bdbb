\* Two servers, two refreshes and a chat, which share one slot.
SPECIFICATION Spec
CONSTANTS
    k1 = k1
    k2 = k2
    o1 = o1
    r1 = r1
    r2 = r2
    c1 = c1
    ToolKeys = {k1, k2}
    OtherKeys = {o1}
    Refreshes = {r1, r2}
    Listings = {c1}
    Slots = 1
    Bad <- BadCatalogs
    Broken = k2
    MaxVersion = 2
\* Every request has returned.
CHECK_DEADLOCK FALSE
INVARIANTS
    RegistryNeverGoesBack
    AtMostOneDiscoveryLate
    
PROPERTIES
    EveryListingEnds
