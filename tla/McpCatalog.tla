----------------------------- MODULE McpCatalog -----------------------------
(***************************************************************************)
(* The catalogs of remote MCP servers: discovery and its cache             *)
(* (McpClientManager), and the registry of remote tools that a refresh     *)
(* replaces (UnifiedToolRegistry).                                         *)
(*                                                                         *)
(* All of it runs in one event loop: an action is what happens between two *)
(* awaits. The last child of a refresh that returns lets gather return and *)
(* the registry be replaced within two turns of the loop, before any child *)
(* it unblocked could do the same, so that is part of the child's action.  *)
(*                                                                         *)
(* A catalog is the version of it that a server shows; 0 is none. A key is *)
(* a (server, kind) with a transport: static catalogs never change.        *)
(***************************************************************************)
EXTENDS Naturals, Sequences, FiniteSets

CONSTANTS
    ToolKeys,       \* (server, "tools"), what a refresh lists
    OtherKeys,      \* (server, "resources") and prompts, what a chat lists
    Refreshes,      \* start-up, and POST /mcp/refresh
    Listings,       \* list_resources or list_prompts of a chat
    Slots,          \* discovery_concurrency
    Bad,            \* Bad[k]: versions the registry refuses as invalid
    MaxVersion      \* bound: how often servers change

Keys == ToolKeys \cup OtherKeys
Requests == Refreshes \cup Listings
Versions == 1..MaxVersion

ASSUME CatalogParameters ==
    /\ ToolKeys \cap OtherKeys = {} /\ Refreshes \cap Listings = {}
    /\ IsFiniteSet(Keys) /\ IsFiniteSet(Requests)
    /\ Slots \in Nat \ {0} /\ MaxVersion \in Nat \ {0}
    /\ Bad \in [ToolKeys -> SUBSET Versions]

VARIABLES
    world,      \* the version a server would show now
    cache,      \* _catalogs, without expired entries
    lock,       \* the queue of a key's asyncio.Lock: its head has the lock
    place,      \* per request and key, where its child of gather is
    got,        \* what the child has read or returned; 0 if it failed
    registry,   \* _mcp_tools
    began,      \* world when the present discovery of the key began, or 0
    asked,      \* the oldest version a discovery under way, or world, had as a refresh began
    newest      \* the newest version that was ever registered

vars == <<world, cache, lock, place, got, registry, began, asked, newest>>

Places == {"idle", "queued", "slot", "reading", "read", "done"}

InSlot == {"reading", "read"}

SlotsTaken == Cardinality({x \in Requests \X Keys : place[x[1]][x[2]] \in InSlot})

TypeOK ==
    /\ world \in [Keys -> Versions]
    /\ cache \in [Keys -> 0..MaxVersion]
    /\ \A k \in Keys : lock[k] \in Seq(Requests) /\ Len(lock[k]) <= Cardinality(Requests)
    /\ place \in [Requests -> [Keys -> Places]]
    /\ got \in [Requests -> [Keys -> 0..MaxVersion]]
    /\ registry \in [ToolKeys -> 0..MaxVersion]
    /\ began \in [Keys -> 0..MaxVersion]
    /\ asked \in [Refreshes -> [ToolKeys -> Versions]]
    /\ newest \in [ToolKeys -> 0..MaxVersion]
    /\ SlotsTaken <= Slots

Init ==
    /\ world = [k \in Keys |-> 1]
    /\ cache = [k \in Keys |-> 0]
    /\ lock = [k \in Keys |-> <<>>]
    /\ place = [r \in Requests |-> [k \in Keys |-> "idle"]]
    /\ got = [r \in Requests |-> [k \in Keys |-> 0]]
    /\ registry = [k \in ToolKeys |-> 0]
    /\ began = [k \in Keys |-> 0]
    /\ asked = [r \in Refreshes |-> [k \in ToolKeys |-> 1]]
    /\ newest = [k \in ToolKeys |-> 0]

-----------------------------------------------------------------------------
(* Faulty variants, one line away from the code; no action uses them.      *)

InvalidateExpired(r) == UNCHANGED cache

HasAnyLock(r, k) == place[r][k] = "queued"

AllOrNothing(versions) ==
    [k \in ToolKeys |-> IF \E q \in ToolKeys : versions[q] \in Bad[q] \cup {0}
                        THEN 0 ELSE versions[k]]

NoTimeout(r, k) == FALSE

-----------------------------------------------------------------------------

\* The world: a server changes its tools (no property tells the versions of
\* resources and prompts apart), and an entry reaches its time to live.
Change(k) ==
    /\ world[k] < MaxVersion
    /\ world' = [world EXCEPT ![k] = @ + 1]
    /\ UNCHANGED <<cache, lock, place, got, registry, began, asked, newest>>

Expire(k) ==
    /\ cache[k] # 0
    /\ cache' = [cache EXCEPT ![k] = 0]
    /\ UNCHANGED <<world, lock, place, got, registry, began, asked, newest>>

-----------------------------------------------------------------------------
(* A request lists the catalogs of all its keys at once.                   *)

Wanted(r) == IF r \in Refreshes THEN ToolKeys ELSE OtherKeys

Begun(r) == \E k \in Wanted(r) : place[r][k] # "idle"
Ended(r) == \A k \in Wanted(r) : place[r][k] = "done"

\* invalidate_catalogs, of every kind; a chat does not call it.
Invalidate(r) ==
    IF r \in Refreshes THEN cache' = [k \in Keys |-> 0] ELSE UNCHANGED cache

\* POST /mcp/refresh up to gather, which queues a child for each key in turn.
Begin(r) ==
    /\ ~Begun(r)
    /\ Invalidate(r)
    /\ place' = [place EXCEPT ![r] =
           [k \in Keys |-> IF k \in Wanted(r) THEN "queued" ELSE "idle"]]
    /\ lock' = [k \in Keys |-> IF k \in Wanted(r) THEN Append(lock[k], r) ELSE lock[k]]
    /\ asked' = [q \in Refreshes |-> IF q # r THEN asked[q] ELSE
           [k \in ToolKeys |->
               IF began[k] # 0 THEN began[k] ELSE world[k]]]
    /\ UNCHANGED <<world, got, registry, began, newest>>

\* Servers that failed, or whose catalog is invalid, are left out.
Registered(versions) ==
    [k \in ToolKeys |-> IF versions[k] \in Bad[k] THEN 0 ELSE versions[k]]

\* The child, which is the head of the queue, returns and releases its lock.
\* After the last one the registry is replaced as a whole.
Return(r, k, version) ==
    /\ place' = [place EXCEPT ![r][k] = "done"]
    /\ got' = [got EXCEPT ![r][k] = version]
    /\ lock' = [lock EXCEPT ![k] = Tail(@)]
    /\ IF r \in Refreshes /\ \A q \in ToolKeys \ {k} : place[r][q] = "done"
       THEN /\ registry' = Registered(got'[r])
            /\ newest' = [q \in ToolKeys |->
                   IF registry'[q] > newest[q] THEN registry'[q] ELSE newest[q]]
       ELSE UNCHANGED <<registry, newest>>
    /\ began' = [began EXCEPT ![k] = 0]
    /\ UNCHANGED <<world, asked>>

\* asyncio.Lock is fair.
HasLock(r, k) == place[r][k] = "queued" /\ Head(lock[k]) = r

\* _catalog looks into the cache as soon as it has the lock.
Hit(r, k) ==
    /\ HasLock(r, k)
    /\ cache[k] # 0
    /\ Return(r, k, cache[k])
    /\ UNCHANGED cache

Miss(r, k) ==
    /\ HasLock(r, k)
    /\ cache[k] = 0
    /\ place' = [place EXCEPT ![r][k] = "slot"]
    /\ began' = [began EXCEPT ![k] = world[k]]
    /\ UNCHANGED <<world, cache, lock, got, registry, asked, newest>>

SlotFree(taken) == taken < Slots

\* Waiting for a slot happens with the lock held and without a time limit.
EnterSlot(r, k) ==
    /\ place[r][k] = "slot"
    /\ SlotFree(SlotsTaken)
    /\ place' = [place EXCEPT ![r][k] = "reading"]
    /\ UNCHANGED <<world, cache, lock, got, registry, began, asked, newest>>

\* _pages; the connection is then closed, which takes its time.
Read(r, k) ==
    /\ place[r][k] = "reading"
    /\ place' = [place EXCEPT ![r][k] = "read"]
    /\ got' = [got EXCEPT ![r][k] = world[k]]
    /\ UNCHANGED <<world, cache, lock, registry, began, asked, newest>>

\* Nobody asks whether the cache was invalidated meanwhile.
Store(r, k) ==
    /\ place[r][k] = "read"
    /\ cache' = [cache EXCEPT ![k] = got[r][k]]
    /\ Return(r, k, got[r][k])

\* No connection, a broken catalog, a limit exceeded, or the discovery timeout.
Fail(r, k) ==
    /\ place[r][k] \in InSlot
    /\ Return(r, k, 0)
    /\ UNCHANGED cache

-----------------------------------------------------------------------------

Step(r, k) == Hit(r, k) \/ Miss(r, k) \/ EnterSlot(r, k) \/ Read(r, k) \/ Store(r, k) \/ Fail(r, k)

Next ==
    \/ \E k \in ToolKeys : Change(k)
    \/ \E k \in Keys : Expire(k)
    \/ \E r \in Requests : Begin(r) \/ \E k \in Wanted(r) : Step(r, k)

\* The event loop resumes who has the lock or a slot, and fail_after ends a
\* discovery that hangs. Nothing is assumed of the servers.
Fairness ==
    \A r \in Requests, k \in Keys :
        /\ WF_vars(Hit(r, k) \/ Miss(r, k))
        /\ WF_vars(EnterSlot(r, k))
        /\ WF_vars(Fail(r, k))

Spec == Init /\ [][Next]_vars /\ Fairness

-----------------------------------------------------------------------------
(* Properties.                                                             *)

\* Overlapping refreshes finish in the order in which they began: although each
\* replaces the registry with what it has read, no tool catalog that is older
\* than one already registered ever comes back, not even after a failure.
RegistryNeverGoesBack ==
    \A k \in ToolKeys : registry[k] \in {0, newest[k]}

\* What a refresh registers was read after it began, or by the one discovery of
\* that server that was on its way at that moment.
AtMostOneDiscoveryLate ==
    \A r \in Refreshes, k \in ToolKeys :
        place[r][k] = "done" /\ got[r][k] # 0 => got[r][k] >= asked[r][k]

\* "One failed server does not hide tools from healthy servers": a server whose
\* catalog no refresh has found missing or bad is registered once any refresh has
\* ended. The slots, caches and registry are within their types and limits.
HealthyServersStay ==
    /\ TypeOK
    /\ \A k \in ToolKeys :
        /\ \E r \in Refreshes : Ended(r)
        /\ \A r \in Refreshes : place[r][k] = "done" => got[r][k] \notin Bad[k] \cup {0}
        => registry[k] # 0

\* Locks and slots are taken in this order by everybody: every request that has
\* begun returns, though servers hang and slots are few.
EveryListingEnds == \A r \in Requests : Begun(r) ~> Ended(r)
=============================================================================
