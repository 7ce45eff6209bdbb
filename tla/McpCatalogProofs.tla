-------------------------- MODULE McpCatalogProofs --------------------------
(***************************************************************************)
(* Theorems about McpCatalog, for any numbers of servers, refreshes, chats *)
(* and slots, and however often servers change.                            *)
(***************************************************************************)
EXTENDS McpCatalog, FiniteSetTheorems, SequenceTheorems, TLAPS

\* The types, without the limits.
Typed ==
    /\ world \in [Keys -> Versions]
    /\ cache \in [Keys -> 0..MaxVersion]
    /\ lock \in [Keys -> Seq(Requests)]
    /\ place \in [Requests -> [Keys -> Places]]
    /\ got \in [Requests -> [Keys -> 0..MaxVersion]]
    /\ registry \in [ToolKeys -> 0..MaxVersion]
    /\ began \in [Keys -> 0..MaxVersion]
    /\ asked \in [Refreshes -> [ToolKeys -> Versions]]
    /\ newest \in [ToolKeys -> 0..MaxVersion]

\* A child is in the queue of its key from Begin until it returns, once; all
\* but the first wait; began is that of the first if it has missed the cache.
Queue(k) ==
    /\ \A i, j \in 1..Len(lock[k]) : lock[k][i] = lock[k][j] => i = j
    /\ \A r \in Requests :
          place[r][k] \notin {"idle", "done"} => \E i \in 1..Len(lock[k]) : lock[k][i] = r
    /\ \A i \in 1..Len(lock[k]) :
          /\ place[lock[k][i]][k] \notin {"idle", "done"}
          /\ i # 1 => place[lock[k][i]][k] = "queued"
    /\ began[k] = 0 => \A i \in 1..Len(lock[k]) : place[lock[k][i]][k] = "queued"

\* The children of a request begin together.
Together ==
    \A r \in Requests :
        /\ \A k \in Keys \ Wanted(r) : place[r][k] = "idle"
        /\ \A k, q \in Wanted(r) : place[r][k] = "idle" => place[r][q] = "idle"

\* Whatever is returned for the key from now on is at least v, or nothing.
AtLeast(k, v) ==
    /\ v <= world[k]
    /\ cache[k] # 0 => v <= cache[k]
    /\ \A r \in Requests : place[r][k] = "read" => v <= got[r][k]

Fresh ==
    /\ \A k \in Keys :
          /\ cache[k] <= world[k] /\ began[k] <= world[k]
          /\ \A r \in Requests :
                place[r][k] = "read" => began[k] <= got[r][k] /\ got[r][k] <= world[k]
          /\ \A r \in Requests : place[r][k] = "done" => AtLeast(k, got[r][k])
    /\ \A k \in ToolKeys :
          /\ AtLeast(k, newest[k])
          /\ \A r \in Refreshes :
                /\ place[r][k] \notin {"idle", "done"} => AtLeast(k, asked[r][k])
                /\ place[r][k] = "done" /\ got[r][k] # 0 => asked[r][k] <= got[r][k]

\* The child of a has returned, or will return, before that of b.
Ahead(k, a, b) ==
    \/ place[a][k] = "done" /\ place[b][k] # "done"
    \/ \E i, j \in 1..Len(lock[k]) : i < j /\ lock[k][i] = a /\ lock[k][j] = b

\* All servers see the refreshes in one order, and the later of two has read no
\* older catalog.
Ordered ==
    \A a, b \in Refreshes, k, q \in ToolKeys :
        Ahead(k, a, b) =>
            /\ ~Ahead(q, b, a)
            /\ place[a][q] = "done" /\ place[b][q] = "done" /\ got[b][q] # 0
                   => got[a][q] <= got[b][q]

\* A refresh on its way has read nothing that is older than what is registered.
Newer ==
    \A r \in Refreshes, k \in ToolKeys :
        ~Ended(r) /\ place[r][k] = "done" /\ got[r][k] # 0 => newest[k] <= got[r][k]

\* What is registered is what some refresh has read that has ended.
FromARefresh ==
    \A k \in ToolKeys : (\E r \in Refreshes : Ended(r)) =>
        \E r \in Refreshes : Ended(r) /\ registry[k] = Registered(got[r])[k]

CatalogInv ==
    /\ Typed
    /\ \A k \in Keys : Queue(k)
    /\ Together /\ Fresh /\ Ordered /\ Newer
    /\ RegistryNeverGoesBack
    /\ FromARefresh

-----------------------------------------------------------------------------
(* Steps.                                                                  *)

\* Updating one entry of a function of two arguments.
LEMMA OneEntry ==
    ASSUME NEW A, NEW B, NEW C, NEW f \in [A -> [B -> C]], NEW a \in A, NEW b \in B, NEW c \in C
    PROVE  /\ [f EXCEPT ![a][b] = c] \in [A -> [B -> C]]
           /\ \A x \in A, y \in B :
                 [f EXCEPT ![a][b] = c][x][y] = IF x = a /\ y = b THEN c ELSE f[x][y]
OBVIOUS

LEMMA KeysAndRequests ==
    /\ \A r \in Requests : Wanted(r) \subseteq Keys
    /\ \A r \in Refreshes : r \in Requests /\ Wanted(r) = ToolKeys
    /\ \A r \in Requests : \A k \in ToolKeys : k \in Wanted(r) => r \in Refreshes
    /\ ToolKeys \subseteq Keys
BY CatalogParameters DEF Wanted, Keys, Requests

LEMMA Moves ==
    ASSUME Typed, NEW r \in Requests, NEW k \in Keys, NEW p \in Places,
           place' = [place EXCEPT ![r][k] = p]
    PROVE  /\ place' \in [Requests -> [Keys -> Places]]
           /\ \A x \in Requests, y \in Keys :
                 place'[x][y] = IF x = r /\ y = k THEN p ELSE place[x][y]
<1>1. place \in [Requests -> [Keys -> Places]]
  BY DEF Typed
<1> QED
  BY <1>1, OneEntry

LEMMA Gets ==
    ASSUME Typed, NEW r \in Requests, NEW k \in Keys, NEW v \in 0..MaxVersion,
           got' = [got EXCEPT ![r][k] = v]
    PROVE  /\ got' \in [Requests -> [Keys -> 0..MaxVersion]]
           /\ \A x \in Requests, y \in Keys :
                 got'[x][y] = IF x = r /\ y = k THEN v ELSE got[x][y]
<1> DEFINE V == 0..MaxVersion
<1>1. got \in [Requests -> [Keys -> V]] /\ v \in V
  BY DEF Typed
<1> HIDE DEF V
<1>2. /\ got' \in [Requests -> [Keys -> V]]
      /\ \A x \in Requests, y \in Keys :
            got'[x][y] = IF x = r /\ y = k THEN v ELSE got[x][y]
  BY <1>1, OneEntry
<1> QED
  BY <1>2 DEF V

\* Who has missed the cache, or has the lock, is the first of its queue.
LEMMA FirstInQueue ==
    ASSUME Typed, NEW k \in Keys, Queue(k), NEW r \in Requests,
           HasLock(r, k) \/ place[r][k] \in {"slot", "reading", "read"}
    PROVE  /\ Len(lock[k]) \in Nat /\ 1 <= Len(lock[k]) /\ lock[k][1] = r
           /\ place[r][k] \notin {"idle", "done"}
           /\ \A q \in Requests : q # r => place[q][k] \in {"idle", "done", "queued"}
<1>1. lock[k] \in Seq(Requests) /\ Len(lock[k]) \in Nat
  BY DEF Typed
<1>2. place[r][k] \notin {"idle", "done"}
  BY DEF HasLock
<1>3. PICK i \in 1..Len(lock[k]) : lock[k][i] = r
  BY <1>2 DEF Queue
<1>4. 1 <= Len(lock[k]) /\ Head(lock[k]) = lock[k][1]
  BY <1>1, <1>3
<1>5. lock[k][1] = r
  BY <1>3, <1>4 DEF Queue, HasLock
<1>6. ASSUME NEW q \in Requests, q # r PROVE place[q][k] \in {"idle", "done", "queued"}
  BY <1>1, <1>5, <1>6 DEF Queue
<1> QED
  BY <1>1, <1>2, <1>4, <1>5, <1>6

\* A child returns version v of the key, or 0 for none: what Hit, Store and Fail
\* have in common.
Returning(r, k, v) ==
    /\ v <= world[k]
    /\ \A w \in 0..MaxVersion : AtLeast(k, w) => v = 0 \/ w <= v
    /\ cache' = cache \/ cache' = [cache EXCEPT ![k] = v]
    /\ cache'[k] # 0 => v <= cache'[k]
    /\ 1 <= Len(lock[k]) /\ lock[k][1] = r /\ place[r][k] \notin {"idle", "done"}
    /\ \A q \in Requests : q # r => place[q][k] \in {"idle", "done", "queued"}
    /\ Return(r, k, v)

OneStep ==
    \/ \E k \in ToolKeys : Change(k)
    \/ \E k \in Keys : Expire(k)
    \/ \E r \in Requests : Begin(r)
    \/ \E r \in Requests : \E k \in Wanted(r) :
          Miss(r, k) \/ EnterSlot(r, k) \/ Read(r, k) \/ \E v \in 0..MaxVersion : Returning(r, k, v)

LEMMA StepCases == CatalogInv /\ Next => OneStep
<1> SUFFICES ASSUME CatalogInv, NEW r \in Requests, NEW k \in Wanted(r),
                    Hit(r, k) \/ Store(r, k) \/ Fail(r, k)
             PROVE  \E v \in 0..MaxVersion : Returning(r, k, v)
  BY DEF Next, Step, OneStep
<1>1. k \in Keys /\ Typed /\ Queue(k) /\ Fresh
  BY KeysAndRequests DEF CatalogInv
<1>2. /\ Len(lock[k]) \in Nat /\ 1 <= Len(lock[k]) /\ lock[k][1] = r
      /\ place[r][k] \notin {"idle", "done"}
      /\ \A q \in Requests : q # r => place[q][k] \in {"idle", "done", "queued"}
  BY <1>1, FirstInQueue DEF Hit, Store, Fail, InSlot
<1>3. /\ cache[k] \in 0..MaxVersion /\ got[r][k] \in 0..MaxVersion /\ world[k] \in Nat
      /\ cache \in [Keys -> 0..MaxVersion] /\ cache[k] <= world[k]
      /\ 0 \in 0..MaxVersion
  BY <1>1, CatalogParameters DEF Typed, Versions, Fresh
<1>4. CASE Hit(r, k)
  <2>1. Returning(r, k, cache[k])
    BY <1>2, <1>3, <1>4 DEF Hit, Returning, AtLeast
  <2> QED
    BY <1>3, <2>1
<1>5. CASE Store(r, k)
  <2>1. Returning(r, k, got[r][k])
    BY <1>1, <1>2, <1>3, <1>5 DEF Store, Returning, AtLeast, Fresh
  <2> QED
    BY <1>3, <2>1
<1>6. CASE Fail(r, k)
  <2>1. Returning(r, k, 0)
    BY <1>2, <1>3, <1>6 DEF Fail, Returning
  <2> QED
    BY <1>3, <2>1
<1> QED
  BY <1>4, <1>5, <1>6

\* What a child's return does to the types and the queue.
LEMMA TypedNext == CatalogInv /\ [Next]_vars => Typed'
<1> SUFFICES ASSUME CatalogInv, [Next]_vars PROVE Typed'
  OBVIOUS
<1> USE CatalogParameters, KeysAndRequests DEF Typed, Versions, Places
<1>0. Typed
  BY DEF CatalogInv
<1>1. ASSUME NEW k \in ToolKeys, Change(k) PROVE Typed'
  BY <1>0, <1>1 DEF Change
<1>2. ASSUME NEW k \in Keys, Expire(k) PROVE Typed'
  BY <1>0, <1>2 DEF Expire
<1>3. ASSUME NEW r \in Requests, Begin(r) PROVE Typed'
  <2>1. \A k \in Keys : Append(lock[k], r) \in Seq(Requests)
    BY <1>0
  <2>2. lock' \in [Keys -> Seq(Requests)]
    BY <1>0, <1>3, <2>1 DEF Begin
  <2>3. cache' \in [Keys -> 0..MaxVersion]
    BY <1>0, <1>3 DEF Begin, Invalidate
  <2>4. asked' \in [Refreshes -> [ToolKeys -> 1..MaxVersion]]
    BY <1>0, <1>3 DEF Begin
  <2>5. place' \in [Requests -> [Keys -> Places]]
    BY <1>0, <1>3 DEF Begin
  <2> QED
    BY <1>0, <1>3, <2>2, <2>3, <2>4, <2>5 DEF Begin
<1>4. ASSUME NEW r \in Requests, NEW k \in Wanted(r), Miss(r, k) \/ EnterSlot(r, k) \/ Read(r, k)
      PROVE  Typed'
  <2>0. k \in Keys /\ world[k] \in 0..MaxVersion
    BY <1>0
  <2>1. \E p \in Places : place' = [place EXCEPT ![r][k] = p]
    BY <1>4 DEF Miss, EnterSlot, Read
  <2>2. place' \in [Requests -> [Keys -> Places]]
    BY <1>0, <2>0, <2>1, Moves
  <2>3. got' = got \/ got' = [got EXCEPT ![r][k] = world[k]]
    BY <1>4 DEF Miss, EnterSlot, Read
  <2>4. got' \in [Requests -> [Keys -> 0..MaxVersion]]
    BY <1>0, <2>0, <2>3, Gets
  <2>5. /\ began' = began \/ began' = [began EXCEPT ![k] = world[k]]
        /\ UNCHANGED <<world, cache, lock, registry, asked, newest>>
    BY <1>4 DEF Miss, EnterSlot, Read
  <2> QED
    BY <1>0, <2>0, <2>2, <2>4, <2>5
<1>5. ASSUME NEW r \in Requests, NEW k \in Wanted(r), NEW v \in 0..MaxVersion, Returning(r, k, v)
      PROVE  Typed'
  <2>1. Return(r, k, v) /\ lock[k] \in Seq(Requests) /\ 1 <= Len(lock[k])
    BY <1>0, <1>5 DEF Returning
  <2>2. Tail(lock[k]) \in Seq(Requests)
    BY <2>1
  <2>3. lock' \in [Keys -> Seq(Requests)]
    BY <1>0, <2>1, <2>2 DEF Return
  <2>4. got' \in [Requests -> [Keys -> 0..MaxVersion]] /\ place' \in [Requests -> [Keys -> Places]]
    <3>1. k \in Keys /\ place' = [place EXCEPT ![r][k] = "done"] /\ got' = [got EXCEPT ![r][k] = v]
      BY <2>1 DEF Return
    <3> QED
      BY <1>0, <3>1, Moves, Gets
  <2>5. registry' \in [ToolKeys -> 0..MaxVersion] /\ newest' \in [ToolKeys -> 0..MaxVersion]
    <3>1. Registered(got'[r]) \in [ToolKeys -> 0..MaxVersion]
      BY <2>4 DEF Registered
    <3>2. CASE UNCHANGED <<registry, newest>>
      BY <1>0, <3>2
    <3>3. CASE /\ registry' = Registered(got'[r])
               /\ newest' = [q \in ToolKeys |->
                      IF registry'[q] > newest[q] THEN registry'[q] ELSE newest[q]]
      BY <1>0, <3>1, <3>3
    <3> QED
      BY <2>1, <3>2, <3>3 DEF Return
  <2>6. cache' \in [Keys -> 0..MaxVersion]
    BY <1>0, <1>5 DEF Returning
  <2> QED
    BY <1>0, <2>1, <2>3, <2>4, <2>5, <2>6 DEF Return
<1>6. CASE UNCHANGED vars
  BY <1>0, <1>6 DEF vars
<1> QED
  BY <1>1, <1>2, <1>3, <1>4, <1>5, <1>6, StepCases DEF OneStep

-----------------------------------------------------------------------------
(* The queues.                                                             *)

\* Begin puts the request at the end of the queues of its keys.
LEMMA BeginEffect ==
    ASSUME Typed, NEW r \in Requests, Begin(r), NEW k \in Keys
    PROVE  /\ \A q \in Requests : q # r => place'[q][k] = place[q][k]
           /\ k \in Wanted(r) =>
                 /\ place[r][k] = "idle" /\ place'[r][k] = "queued"
                 /\ Len(lock'[k]) = Len(lock[k]) + 1 /\ Len(lock[k]) \in Nat
                 /\ \A i \in 1..Len(lock[k]) : lock'[k][i] = lock[k][i] /\ lock[k][i] \in Requests
                 /\ lock'[k][Len(lock[k]) + 1] = r
           /\ k \notin Wanted(r) => place'[r][k] = "idle" /\ lock'[k] = lock[k]
<1>1. lock[k] \in Seq(Requests) /\ lock \in [Keys -> Seq(Requests)]
      /\ place \in [Requests -> [Keys -> Places]]
  BY DEF Typed
<1>2. place' = [place EXCEPT ![r] = [x \in Keys |-> IF x \in Wanted(r) THEN "queued" ELSE "idle"]]
  BY DEF Begin
<1>3. lock'[k] = IF k \in Wanted(r) THEN Append(lock[k], r) ELSE lock[k]
  BY DEF Begin
<1>4. k \in Wanted(r) => place[r][k] = "idle"
  BY DEF Begin, Begun
<1>5. k \in Wanted(r) =>
        /\ Len(lock'[k]) = Len(lock[k]) + 1 /\ Len(lock[k]) \in Nat
        /\ \A i \in 1..Len(lock[k]) : lock'[k][i] = lock[k][i] /\ lock[k][i] \in Requests
        /\ lock'[k][Len(lock[k]) + 1] = r
  BY <1>1, <1>3
<1>6. /\ \A q \in Requests : q # r => place'[q][k] = place[q][k]
      /\ k \in Wanted(r) => place'[r][k] = "queued"
      /\ k \notin Wanted(r) => place'[r][k] = "idle"
  BY <1>1, <1>2
<1> QED
  BY <1>3, <1>4, <1>5, <1>6

\* A return takes the first of the queue of its key away.
LEMMA ReturnEffect ==
    ASSUME Typed, NEW r \in Requests, NEW k \in Wanted(r), NEW v \in 0..MaxVersion,
           Returning(r, k, v)
    PROVE  /\ k \in Keys
           /\ \A x \in Requests, y \in Keys :
                 /\ place'[x][y] = IF x = r /\ y = k THEN "done" ELSE place[x][y]
                 /\ got'[x][y] = IF x = r /\ y = k THEN v ELSE got[x][y]
           /\ \A y \in Keys : y # k => lock'[y] = lock[y] /\ began'[y] = began[y] /\ cache'[y] = cache[y]
           /\ began'[k] = 0
           /\ Len(lock[k]) \in Nat /\ Len(lock'[k]) = Len(lock[k]) - 1
           /\ \A i \in 1..Len(lock'[k]) : lock'[k][i] = lock[k][i + 1]
           /\ \A i \in 1..Len(lock[k]) : lock[k][i] \in Requests
           /\ lock[k][1] = r /\ place[r][k] \notin {"idle", "done"}
           /\ world' = world /\ asked' = asked
<1>1. k \in Keys
  BY KeysAndRequests
<1>2. Return(r, k, v) /\ 1 <= Len(lock[k]) /\ lock[k][1] = r /\ place[r][k] \notin {"idle", "done"}
  BY DEF Returning
<1>3. /\ place' = [place EXCEPT ![r][k] = "done"] /\ got' = [got EXCEPT ![r][k] = v]
      /\ lock' = [lock EXCEPT ![k] = Tail(@)] /\ began' = [began EXCEPT ![k] = 0]
      /\ world' = world /\ asked' = asked
  BY <1>2 DEF Return
<1>4. /\ \A x \in Requests, y \in Keys :
            place'[x][y] = IF x = r /\ y = k THEN "done" ELSE place[x][y]
      /\ \A x \in Requests, y \in Keys :
            got'[x][y] = IF x = r /\ y = k THEN v ELSE got[x][y]
  <2>1. "done" \in Places
    BY DEF Places
  <2>2. \A x \in Requests, y \in Keys :
          place'[x][y] = IF x = r /\ y = k THEN "done" ELSE place[x][y]
    BY <1>1, <1>3, <2>1, Moves
  <2>3. \A x \in Requests, y \in Keys :
          got'[x][y] = IF x = r /\ y = k THEN v ELSE got[x][y]
    BY <1>1, <1>3, Gets
  <2> QED
    BY <2>2, <2>3
<1>5. lock[k] \in Seq(Requests) /\ lock'[k] = Tail(lock[k])
  BY <1>1, <1>3 DEF Typed
<1>6. \A y \in Keys : y # k => lock'[y] = lock[y] /\ began'[y] = began[y] /\ cache'[y] = cache[y]
  BY <1>3 DEF Typed, Returning
<1>7. /\ Len(lock[k]) \in Nat /\ Len(lock'[k]) = Len(lock[k]) - 1
      /\ \A i \in 1..Len(lock'[k]) : lock'[k][i] = lock[k][i + 1]
      /\ \A i \in 1..Len(lock[k]) : lock[k][i] \in Requests
  BY <1>2, <1>5
<1>8. began'[k] = 0
  BY <1>1, <1>3 DEF Typed
<1> QED
  BY <1>1, <1>2, <1>3, <1>4, <1>6, <1>7, <1>8

LEMMA QueueNext ==
    ASSUME CatalogInv, [Next]_vars, NEW k \in Keys
    PROVE  Queue(k)'
<1>0. Typed /\ Queue(k) /\ Together
  BY DEF CatalogInv
<1>a. Len(lock[k]) \in Nat /\ \A i \in 1..Len(lock[k]) : lock[k][i] \in Requests
  BY <1>0 DEF Typed
<1>1. CASE (\E q \in ToolKeys : Change(q)) \/ (\E q \in Keys : Expire(q)) \/ UNCHANGED vars
  <2>1. UNCHANGED <<lock, place, began>>
    BY <1>1 DEF Change, Expire, vars
  <2> QED
    BY <1>0, <2>1 DEF Queue
<1>2. ASSUME NEW r \in Requests, Begin(r) PROVE Queue(k)'
  <2>1. began' = began
    BY <1>2 DEF Begin
  <2>2. CASE k \in Wanted(r)
    <3>1. \A i \in 1..Len(lock[k]) : lock[k][i] # r
      BY <1>0, <1>2, <2>2, BeginEffect DEF Queue
    <3>2. /\ \A q \in Requests : q # r => place'[q][k] = place[q][k]
          /\ place[r][k] = "idle" /\ place'[r][k] = "queued"
          /\ Len(lock'[k]) = Len(lock[k]) + 1 /\ Len(lock[k]) \in Nat
          /\ \A i \in 1..Len(lock[k]) : lock'[k][i] = lock[k][i]
          /\ lock'[k][Len(lock[k]) + 1] = r
      BY <1>0, <1>2, <2>2, BeginEffect
    <3>3. \A i \in 1..Len(lock'[k]) : i \in 1..Len(lock[k]) \/ i = Len(lock[k]) + 1
      BY <3>2
    <3>4. 1..Len(lock[k]) \subseteq 1..Len(lock'[k]) /\ Len(lock[k]) + 1 \in 1..Len(lock'[k])
      BY <3>2
    <3>5. \A i, j \in 1..Len(lock'[k]) : lock'[k][i] = lock'[k][j] => i = j
      BY <1>0, <3>1, <3>2, <3>3 DEF Queue
    <3>6. \A q \in Requests :
            place'[q][k] \notin {"idle", "done"} => \E i \in 1..Len(lock'[k]) : lock'[k][i] = q
      BY <1>0, <3>2, <3>4 DEF Queue
    <3>7. \A i \in 1..Len(lock'[k]) :
            /\ place'[lock'[k][i]][k] \notin {"idle", "done"}
            /\ i # 1 => place'[lock'[k][i]][k] = "queued"
            /\ began[k] = 0 => place'[lock'[k][i]][k] = "queued"
      <4>1. ASSUME NEW i \in 1..Len(lock[k])
            PROVE  lock'[k][i] = lock[k][i] /\ place'[lock'[k][i]][k] = place[lock[k][i]][k]
        BY <1>a, <3>1, <3>2
      <4>2. lock'[k][Len(lock[k]) + 1] = r /\ place'[r][k] = "queued"
        BY <3>2
      <4> QED
        BY <1>0, <3>3, <4>1, <4>2 DEF Queue
    <3> QED
      BY <2>1, <3>5, <3>6, <3>7 DEF Queue
  <2>3. CASE k \notin Wanted(r)
    <3>1. lock'[k] = lock[k] /\ \A q \in Requests : q # r => place'[q][k] = place[q][k]
      BY <1>0, <1>2, <2>3, BeginEffect
    <3>2. place'[r][k] = "idle" /\ place[r][k] = "idle"
      BY <1>0, <1>2, <2>3, BeginEffect DEF Together
    <3> QED
      BY <1>0, <1>a, <2>1, <3>1, <3>2 DEF Queue
  <2> QED
    BY <2>2, <2>3
<1>3. ASSUME NEW r \in Requests, NEW q \in Wanted(r), Miss(r, q) \/ EnterSlot(r, q) \/ Read(r, q)
      PROVE  Queue(k)'
  <2>1. q \in Keys /\ Queue(q)
    BY KeysAndRequests DEF CatalogInv
  <2>2. lock' = lock
    BY <1>3 DEF Miss, EnterSlot, Read
  <2>3. PICK p \in {"slot", "reading", "read"} : place' = [place EXCEPT ![r][q] = p]
    BY <1>3 DEF Miss, EnterSlot, Read
  <2>4. \A x \in Requests, y \in Keys :
           place'[x][y] = IF x = r /\ y = q THEN p ELSE place[x][y]
    <3>1. p \in Places
      BY DEF Places
    <3> QED
      BY <1>0, <2>1, <2>3, <3>1, Moves
  <2>5. lock[q][1] = r /\ place[r][q] \notin {"idle", "done"} /\ Len(lock[q]) \in Nat /\ 1 <= Len(lock[q])
    BY <1>0, <1>3, <2>1, FirstInQueue DEF Miss, EnterSlot, Read
  <2>6. CASE k # q
    <3>1. began'[k] = began[k]
      BY <1>0, <1>3, <2>1, <2>6 DEF Miss, EnterSlot, Read, Typed
    <3>2. \A x \in Requests : place'[x][k] = place[x][k]
      BY <2>4, <2>6
    <3> QED
      BY <1>0, <1>a, <2>2, <3>1, <3>2 DEF Queue
  <2>7. CASE k = q
    <3>1. began'[k] # 0
      <4>1. CASE Miss(r, q)
        BY <1>0, <2>1, <2>7, <4>1 DEF Miss, Typed, Versions
      <4>2. CASE EnterSlot(r, q) \/ Read(r, q)
        <5>1. place[lock[k][1]][k] # "queued"
          BY <2>5, <2>7, <4>2 DEF EnterSlot, Read
        <5>2. began[k] # 0
          BY <1>0, <2>5, <2>7, <5>1 DEF Queue
        <5> QED
          BY <4>2, <5>2 DEF EnterSlot, Read
      <4> QED
        BY <1>3, <4>1, <4>2
    <3>2. \A i \in 1..Len(lock[k]) : i # 1 => lock[k][i] # r
      BY <1>0, <2>5, <2>7 DEF Queue
    <3> QED
      BY <1>0, <1>a, <2>2, <2>4, <2>5, <2>7, <3>1, <3>2 DEF Queue
  <2> QED
    BY <2>6, <2>7
<1>4. ASSUME NEW r \in Requests, NEW q \in Wanted(r), NEW v \in 0..MaxVersion, Returning(r, q, v)
      PROVE  Queue(k)'
  <2>1. /\ q \in Keys
        /\ \A x \in Requests, y \in Keys :
              place'[x][y] = IF x = r /\ y = q THEN "done" ELSE place[x][y]
        /\ \A y \in Keys : y # q => lock'[y] = lock[y] /\ began'[y] = began[y]
        /\ Len(lock[q]) \in Nat /\ Len(lock'[q]) = Len(lock[q]) - 1
        /\ \A i \in 1..Len(lock'[q]) : lock'[q][i] = lock[q][i + 1]
        /\ lock[q][1] = r
    BY <1>0, <1>4, ReturnEffect
  <2>2. CASE k # q
    <3>1. lock'[k] = lock[k] /\ began'[k] = began[k] /\ \A x \in Requests : place'[x][k] = place[x][k]
      BY <2>1, <2>2
    <3> QED
      BY <1>0, <1>a, <3>1 DEF Queue
  <2>3. CASE k = q
    <3>1. \A i \in 1..Len(lock'[k]) : i + 1 \in 1..Len(lock[k]) /\ i + 1 # 1
      BY <2>1, <2>3
    <3>2. \A i \in 1..Len(lock[k]) : i # 1 => i - 1 \in 1..Len(lock'[k]) /\ (i - 1) + 1 = i
      BY <2>1, <2>3
    <3>3. \A i \in 1..Len(lock'[k]) : lock[k][i + 1] # r /\ lock[k][i + 1] \in Requests
      BY <1>0, <1>a, <2>1, <2>3, <3>1 DEF Queue
    <3>4. \A i, j \in 1..Len(lock'[k]) : lock'[k][i] = lock'[k][j] => i = j
      BY <1>0, <2>1, <2>3, <3>1 DEF Queue
    <3>5. ASSUME NEW x \in Requests, place'[x][k] \notin {"idle", "done"}
          PROVE  \E i \in 1..Len(lock'[k]) : lock'[k][i] = x
      <4>1. x # r /\ place[x][k] \notin {"idle", "done"}
        BY <2>1, <2>3, <3>5
      <4>2. PICK i \in 1..Len(lock[k]) : lock[k][i] = x
        BY <1>0, <4>1 DEF Queue
      <4>3. i # 1
        BY <2>1, <2>3, <4>1, <4>2
      <4>4. i - 1 \in 1..Len(lock'[k]) /\ lock'[k][i - 1] = x
        BY <2>1, <2>3, <3>2, <4>2, <4>3
      <4> QED
        BY <4>4
    <3>6. \A i \in 1..Len(lock'[k]) : place'[lock'[k][i]][k] = "queued"
      <4> TAKE i \in 1..Len(lock'[k])
      <4>1. lock'[k][i] = lock[k][i + 1] /\ place'[lock[k][i + 1]][k] = place[lock[k][i + 1]][k]
        BY <2>1, <2>3, <3>3
      <4> QED
        BY <1>0, <3>1, <4>1 DEF Queue
    <3> QED
      BY <3>4, <3>5, <3>6 DEF Queue
  <2> QED
    BY <2>2, <2>3
<1> QED
  BY <1>1, <1>2, <1>3, <1>4, StepCases DEF OneStep

LEMMA TogetherNext == CatalogInv /\ [Next]_vars => Together'
<1> SUFFICES ASSUME CatalogInv, [Next]_vars PROVE Together'
  OBVIOUS
<1>0. Typed /\ Together
  BY DEF CatalogInv
<1>1. CASE (\E q \in ToolKeys : Change(q)) \/ (\E q \in Keys : Expire(q)) \/ UNCHANGED vars
  <2>1. UNCHANGED place
    BY <1>1 DEF Change, Expire, vars
  <2> QED
    BY <1>0, <2>1 DEF Together
<1>2. ASSUME NEW r \in Requests, Begin(r) PROVE Together'
  BY <1>0, <1>2, BeginEffect, KeysAndRequests DEF Together
<1>3. ASSUME NEW r \in Requests, NEW q \in Wanted(r), NEW p \in Places \ {"idle"},
             place[r][q] # "idle",
             \A x \in Requests, y \in Keys :
                place'[x][y] = IF x = r /\ y = q THEN p ELSE place[x][y]
      PROVE  Together'
  BY <1>0, <1>3, KeysAndRequests DEF Together
<1>4. ASSUME NEW r \in Requests, NEW q \in Wanted(r), Miss(r, q) \/ EnterSlot(r, q) \/ Read(r, q)
      PROVE  Together'
  <2>1. PICK p \in Places \ {"idle"} : place' = [place EXCEPT ![r][q] = p]
    BY <1>4 DEF Miss, EnterSlot, Read, Places
  <2>2. place[r][q] # "idle" /\ q \in Keys
    BY <1>4, KeysAndRequests DEF Miss, EnterSlot, Read, HasLock
  <2>3. \A x \in Requests, y \in Keys :
           place'[x][y] = IF x = r /\ y = q THEN p ELSE place[x][y]
    BY <1>0, <2>1, <2>2, Moves
  <2> QED
    BY <1>3, <2>2, <2>3
<1>5. ASSUME NEW r \in Requests, NEW q \in Wanted(r), NEW v \in 0..MaxVersion, Returning(r, q, v)
      PROVE  Together'
  <2>1. /\ place[r][q] # "idle" /\ "done" \in Places \ {"idle"}
        /\ \A x \in Requests, y \in Keys :
              place'[x][y] = IF x = r /\ y = q THEN "done" ELSE place[x][y]
    BY <1>0, <1>5, ReturnEffect DEF Places
  <2> QED
    BY <1>3, <2>1
<1> QED
  BY <1>1, <1>2, <1>4, <1>5, StepCases DEF OneStep

-----------------------------------------------------------------------------
(* The versions.                                                           *)

\* Only the first of a queue reads, and it reads what the server shows now.
LEMMA AtLeastStays ==
    ASSUME CatalogInv, [Next]_vars, NEW k \in Keys, NEW w \in 0..MaxVersion, AtLeast(k, w)
    PROVE  AtLeast(k, w)'
<1>0. Typed /\ Fresh /\ MaxVersion \in Nat
  BY CatalogParameters DEF CatalogInv
<1>a. /\ world[k] \in Nat /\ cache[k] \in Nat /\ \A r \in Requests : got[r][k] \in Nat
      /\ w \in Nat
  BY <1>0 DEF Typed, Versions
<1>1. ASSUME NEW q \in ToolKeys, Change(q) PROVE AtLeast(k, w)'
  <2>1. world'[k] \in {world[k], world[k] + 1} /\ UNCHANGED <<cache, place, got>>
    BY <1>0, <1>1 DEF Change, Typed
  <2> QED
    BY <1>a, <2>1 DEF AtLeast
<1>2. ASSUME NEW q \in Keys, Expire(q) PROVE AtLeast(k, w)'
  <2>1. cache'[k] \in {cache[k], 0} /\ UNCHANGED <<world, place, got>>
    BY <1>0, <1>2 DEF Expire, Typed
  <2> QED
    BY <1>a, <2>1 DEF AtLeast
<1>3. ASSUME NEW r \in Requests, Begin(r) PROVE AtLeast(k, w)'
  <2>1. cache'[k] \in {cache[k], 0} /\ UNCHANGED <<world, got>>
    BY <1>3 DEF Begin, Invalidate
  <2>2. \A q \in Requests : place'[q][k] = "read" => place[q][k] = "read"
    BY <1>0, <1>3, BeginEffect
  <2> QED
    BY <1>a, <2>1, <2>2 DEF AtLeast
<1>4. ASSUME NEW r \in Requests, NEW q \in Wanted(r), Miss(r, q) \/ EnterSlot(r, q)
      PROVE  AtLeast(k, w)'
  <2>1. q \in Keys /\ UNCHANGED <<world, cache, got>>
    BY <1>4, KeysAndRequests DEF Miss, EnterSlot
  <2>2. PICK p \in Places \ {"read"} : place' = [place EXCEPT ![r][q] = p]
    BY <1>4 DEF Miss, EnterSlot, Places
  <2>3. \A x \in Requests : place'[x][k] = "read" => place[x][k] = "read"
    BY <1>0, <2>1, <2>2, Moves
  <2> QED
    BY <2>1, <2>3 DEF AtLeast
<1>5. ASSUME NEW r \in Requests, NEW q \in Wanted(r), Read(r, q)
      PROVE  AtLeast(k, w)'
  <2>1. q \in Keys /\ UNCHANGED <<world, cache>> /\ world[q] \in 0..MaxVersion /\ "read" \in Places
    BY <1>0, <1>5, KeysAndRequests DEF Read, Typed, Versions, Places
  <2>2. place' = [place EXCEPT ![r][q] = "read"] /\ got' = [got EXCEPT ![r][q] = world[q]]
    BY <1>5 DEF Read
  <2>3. \A x \in Requests : place'[x][k] = "read" =>
           (x = r /\ k = q) \/ (place[x][k] = "read" /\ ~(x = r /\ k = q))
    BY <1>0, <2>1, <2>2, Moves
  <2>4. \A x \in Requests : got'[x][k] = IF x = r /\ k = q THEN world[q] ELSE got[x][k]
    BY <1>0, <2>1, <2>2, Gets
  <2> QED
    BY <2>1, <2>3, <2>4 DEF AtLeast
<1>6. ASSUME NEW r \in Requests, NEW q \in Wanted(r), NEW v \in 0..MaxVersion, Returning(r, q, v)
      PROVE  AtLeast(k, w)'
  <2>1. /\ \A x \in Requests : place'[x][k] = "read" => place[x][k] = "read" /\ got'[x][k] = got[x][k]
        /\ world' = world
    BY <1>0, <1>6, ReturnEffect
  <2>2. cache'[k] # 0 => w <= cache'[k]
    <3>1. CASE cache'[k] = cache[k]
      BY <3>1 DEF AtLeast
    <3>2. CASE cache'[k] # cache[k]
      <4>1. k = q /\ cache'[k] = v
        BY <1>0, <1>6, <3>2 DEF Returning, Typed
      <4> QED
        BY <1>6, <4>1 DEF Returning
    <3> QED
      BY <3>1, <3>2
  <2> QED
    BY <2>1, <2>2 DEF AtLeast
<1>7. CASE UNCHANGED vars
  BY <1>7 DEF vars, AtLeast
<1> QED
  BY <1>1, <1>2, <1>3, <1>4, <1>5, <1>6, <1>7, StepCases DEF OneStep

\* The registry is replaced by the last child of a refresh and by nothing else.
LEMMA RegistryEffect ==
    ASSUME Typed, NEW r \in Requests, NEW k \in Wanted(r), NEW v \in 0..MaxVersion,
           Returning(r, k, v)
    PROVE  \/ r \in Refreshes /\ Ended(r)' /\ ~Ended(r)
              /\ \A q \in ToolKeys :
                    /\ registry'[q] = Registered(got'[r])[q] /\ registry'[q] \in {0, got'[r][q]}
                    /\ newest'[q] = IF registry'[q] > newest[q] THEN registry'[q] ELSE newest[q]
           \/ (r \in Refreshes => ~Ended(r)') /\ UNCHANGED <<registry, newest>>
<1>1. /\ k \in Keys /\ place[r][k] # "done"
      /\ \A y \in Keys : place'[r][y] = IF y = k THEN "done" ELSE place[r][y]
  BY ReturnEffect
<1>2. r \in Refreshes => Wanted(r) = ToolKeys /\ ToolKeys \subseteq Keys
  BY KeysAndRequests
<1>3. r \in Refreshes =>
        (Ended(r)' <=> \A q \in ToolKeys \ {k} : place[r][q] = "done")
  BY <1>1, <1>2 DEF Ended, Wanted
<1>4. Return(r, k, v)
  BY DEF Returning
<1>5. CASE r \in Refreshes /\ \A q \in ToolKeys \ {k} : place[r][q] = "done"
  <2>1. /\ registry' = Registered(got'[r])
        /\ newest' = [q \in ToolKeys |->
               IF registry'[q] > newest[q] THEN registry'[q] ELSE newest[q]]
    BY <1>4, <1>5 DEF Return
  <2>2. \A q \in ToolKeys : Registered(got'[r])[q] \in {0, got'[r][q]}
    BY DEF Registered
  <2>3. Ended(r)' /\ ~Ended(r)
    BY <1>1, <1>2, <1>3, <1>5 DEF Ended
  <2> QED
    BY <1>5, <2>1, <2>2, <2>3
<1>6. CASE ~(r \in Refreshes /\ \A q \in ToolKeys \ {k} : place[r][q] = "done")
  <2>1. UNCHANGED <<registry, newest>>
    BY <1>4, <1>6 DEF Return
  <2> QED
    BY <1>3, <1>6, <2>1
<1> QED
  BY <1>5, <1>6

\* Nothing else changes the registry or a child that has returned.
LEMMA OtherSteps ==
    ASSUME Typed, Together, OneStep \/ UNCHANGED vars,
           ~\E r \in Requests : \E k \in Wanted(r) : \E v \in 0..MaxVersion : Returning(r, k, v)
    PROVE  /\ UNCHANGED <<registry, newest>>
           /\ \A r \in Requests, k \in Keys :
                 /\ place'[r][k] = "done" <=> place[r][k] = "done"
                 /\ place[r][k] = "done" => got'[r][k] = got[r][k]
<1> DEFINE Goal == /\ UNCHANGED <<registry, newest>>
                   /\ \A r \in Requests, k \in Keys :
                         /\ place'[r][k] = "done" <=> place[r][k] = "done"
                         /\ place[r][k] = "done" => got'[r][k] = got[r][k]
<1>1. CASE (\E q \in ToolKeys : Change(q)) \/ (\E q \in Keys : Expire(q)) \/ UNCHANGED vars
  BY <1>1 DEF Change, Expire, vars
<1>2. ASSUME NEW r \in Requests, Begin(r) PROVE Goal
  <2>1. UNCHANGED <<registry, newest, got>>
    BY <1>2 DEF Begin
  <2>2. ASSUME NEW x \in Requests, NEW k \in Keys
        PROVE  place'[x][k] = "done" <=> place[x][k] = "done"
    <3>1. k \in Wanted(r) => place[r][k] = "idle" /\ place'[r][k] = "queued"
      BY <1>2, BeginEffect
    <3>2. x # r => place'[x][k] = place[x][k]
      BY <1>2, BeginEffect
    <3>3. k \notin Wanted(r) => place[r][k] = "idle" /\ place'[r][k] = "idle"
      BY <1>2, BeginEffect DEF Together
    <3> QED
      BY <3>1, <3>2, <3>3
  <2> QED
    BY <2>1, <2>2
<1>3. ASSUME NEW r \in Requests, NEW q \in Wanted(r), Miss(r, q) \/ EnterSlot(r, q) \/ Read(r, q)
      PROVE  Goal
  <2>1. q \in Keys /\ UNCHANGED <<registry, newest>> /\ place[r][q] # "done" /\ world[q] \in 0..MaxVersion
    BY <1>3, KeysAndRequests DEF Miss, EnterSlot, Read, HasLock, Typed, Versions
  <2>2. PICK p \in Places \ {"done"} : place' = [place EXCEPT ![r][q] = p]
    BY <1>3 DEF Miss, EnterSlot, Read, Places
  <2>3. \A x \in Requests, y \in Keys : place'[x][y] = IF x = r /\ y = q THEN p ELSE place[x][y]
    BY <2>1, <2>2, Moves
  <2>4. got' = got \/ got' = [got EXCEPT ![r][q] = world[q]]
    BY <1>3 DEF Miss, EnterSlot, Read
  <2>5. \A x \in Requests, y \in Keys : ~(x = r /\ y = q) => got'[x][y] = got[x][y]
    BY <2>1, <2>4, Gets
  <2> QED
    BY <2>1, <2>3, <2>5
<1> QED
  BY <1>1, <1>2, <1>3 DEF OneStep

LEMMA FreshNext == CatalogInv /\ [Next]_vars => Fresh'
<1> SUFFICES ASSUME CatalogInv, [Next]_vars PROVE Fresh'
  OBVIOUS
<1>0. Typed /\ Fresh /\ Together /\ (\A k \in Keys : Queue(k)) /\ MaxVersion \in Nat
  BY CatalogParameters DEF CatalogInv
<1>t. Typed'
  BY TypedNext
<1>s. OneStep \/ UNCHANGED vars
  BY StepCases
<1> DEFINE Returns == \E r \in Requests : \E k \in Wanted(r) : \E v \in 0..MaxVersion : Returning(r, k, v)
<1>1. ASSUME NEW k \in Keys PROVE cache'[k] <= world'[k]
  <2>0. world[k] \in Nat /\ cache[k] \in Nat /\ cache[k] <= world[k]
    BY <1>0 DEF Typed, Versions, Fresh
  <2>1. cache'[k] = cache[k] \/ cache'[k] = 0 \/ Returns
    BY <1>0, <1>s DEF OneStep, Change, Expire, Begin, Invalidate, Miss, EnterSlot, Read, vars, Typed
  <2>2. CASE ~Returns
    <3>1. world'[k] = world[k] \/ world'[k] = world[k] + 1
      BY <1>0, <1>s, <2>2 DEF OneStep, Change, Expire, Begin, Miss, EnterSlot, Read, vars, Typed
    <3> QED
      BY <2>0, <2>1, <2>2, <3>1
  <2>3. ASSUME NEW r \in Requests, NEW q \in Wanted(r), NEW v \in 0..MaxVersion, Returning(r, q, v)
        PROVE  cache'[k] <= world'[k]
    <3>1. world' = world
      BY <1>0, <2>3, ReturnEffect
    <3>2. cache'[k] = cache[k] \/ (k = q /\ cache'[k] = v /\ v <= world[q])
      BY <1>0, <2>3 DEF Returning, Typed
    <3> QED
      BY <2>0, <3>1, <3>2
  <2> QED
    BY <2>2, <2>3
<1>2. ASSUME NEW k \in Keys, NEW r \in Requests, place'[r][k] = "done"
      PROVE  AtLeast(k, got[r][k])'
  <2>1. CASE place[r][k] = "done" /\ got'[r][k] = got[r][k]
    <3>1. got[r][k] \in 0..MaxVersion /\ AtLeast(k, got[r][k])
      BY <1>0, <2>1 DEF Typed, Fresh
    <3>2. PICK w \in 0..MaxVersion : w = got[r][k]
      BY <3>1
    <3>3. AtLeast(k, w)'
      BY <3>1, <3>2, AtLeastStays
    <3> QED
      BY <2>1, <3>2, <3>3 DEF AtLeast
  <2>2. CASE ~(place[r][k] = "done" /\ got'[r][k] = got[r][k])
    <3>1. Returns
      BY <1>0, <1>2, <1>s, <2>2, OtherSteps
    <3>2. PICK x \in Requests, q \in Keys, v \in 0..MaxVersion :
               q \in Wanted(x) /\ Returning(x, q, v)
      BY <3>1, KeysAndRequests
    <3>3. x = r /\ q = k /\ got'[r][k] = v /\ world' = world
          /\ \A y \in Requests : y # r => place'[y][k] = place[y][k]
      BY <1>0, <1>2, <2>2, <3>2, ReturnEffect
    <3>4. \A y \in Requests : place'[y][k] # "read"
      BY <1>2, <3>2, <3>3 DEF Returning
    <3> QED
      BY <3>2, <3>3, <3>4 DEF AtLeast, Returning
  <2> QED
    BY <2>1, <2>2
<1>3. ASSUME NEW k \in Keys PROVE began'[k] <= world'[k]
  <2>0. world[k] \in Nat /\ began[k] \in Nat /\ began[k] <= world[k]
    BY <1>0 DEF Typed, Versions, Fresh
  <2>1. CASE ~Returns
    <3>1. /\ world'[k] = world[k] \/ world'[k] = world[k] + 1
          /\ began'[k] = began[k] \/ began'[k] = world[k]
      BY <1>0, <1>s, <2>1 DEF OneStep, Change, Expire, Begin, Miss, EnterSlot, Read, vars, Typed
    <3> QED
      BY <2>0, <3>1
  <2>2. CASE Returns
    <3>1. world' = world /\ (began'[k] = began[k] \/ began'[k] = 0)
      BY <1>0, <2>2, ReturnEffect
    <3> QED
      BY <2>0, <3>1
  <2> QED
    BY <2>1, <2>2
<1>4. ASSUME NEW k \in Keys, NEW r \in Requests, place'[r][k] = "read"
      PROVE  began'[k] <= got'[r][k] /\ got'[r][k] <= world'[k]
  <2> DEFINE Goal == began'[k] <= got'[r][k] /\ got'[r][k] <= world'[k]
  <2>0. /\ world[k] \in Nat /\ got[r][k] \in Nat /\ began[k] \in Nat /\ began[k] <= world[k]
        /\ place[r][k] = "read" => began[k] <= got[r][k] /\ got[r][k] <= world[k]
    BY <1>0 DEF Typed, Versions, Fresh
  <2>1. ASSUME NEW q \in ToolKeys, Change(q) PROVE Goal
    <3>1. world'[k] \in {world[k], world[k] + 1} /\ UNCHANGED <<began, place, got>>
      BY <1>0, <2>1 DEF Change, Typed
    <3> QED
      BY <1>4, <2>0, <3>1
  <2>2. CASE (\E q \in Keys : Expire(q)) \/ UNCHANGED vars
    BY <1>4, <2>0, <2>2 DEF Expire, vars
  <2>3. ASSUME NEW x \in Requests, Begin(x) PROVE Goal
    <3>1. place[r][k] = "read"
      BY <1>0, <1>4, <2>3, BeginEffect
    <3> QED
      BY <2>0, <2>3, <3>1 DEF Begin
  <2>4. ASSUME NEW x \in Requests, NEW q \in Wanted(x), Miss(x, q) \/ EnterSlot(x, q) PROVE Goal
    <3>1. q \in Keys /\ UNCHANGED <<world, got>>
      BY <2>4, KeysAndRequests DEF Miss, EnterSlot
    <3>2. PICK p \in Places \ {"read"} : place' = [place EXCEPT ![x][q] = p]
      BY <2>4 DEF Miss, EnterSlot, Places
    <3>3. place[r][k] = "read" /\ ~(x = r /\ q = k)
      BY <1>0, <1>4, <3>1, <3>2, Moves
    <3>4. \A y \in Requests : y # x => place[y][q] \in {"idle", "done", "queued"}
      BY <1>0, <2>4, <3>1, FirstInQueue DEF Miss, EnterSlot
    <3>5. k # q
      BY <3>3, <3>4
    <3>6. began'[k] = began[k]
      BY <1>0, <2>4, <3>5 DEF Miss, EnterSlot, Typed
    <3> QED
      BY <2>0, <3>1, <3>3, <3>6
  <2>5. ASSUME NEW x \in Requests, NEW q \in Wanted(x), Read(x, q) PROVE Goal
    <3>1. q \in Keys /\ UNCHANGED <<world, began>> /\ world[q] \in 0..MaxVersion /\ "read" \in Places
      BY <1>0, <2>5, KeysAndRequests DEF Read, Typed, Versions, Places
    <3>2. place' = [place EXCEPT ![x][q] = "read"] /\ got' = [got EXCEPT ![x][q] = world[q]]
      BY <2>5 DEF Read
    <3>3. (r = x /\ k = q) \/ (place[r][k] = "read" /\ ~(r = x /\ k = q))
      BY <1>0, <1>4, <3>1, <3>2, Moves
    <3>4. got'[r][k] = IF r = x /\ k = q THEN world[q] ELSE got[r][k]
      BY <1>0, <3>1, <3>2, Gets
    <3> QED
      BY <2>0, <3>1, <3>3, <3>4
  <2>6. ASSUME NEW x \in Requests, NEW q \in Wanted(x), NEW v \in 0..MaxVersion, Returning(x, q, v)
        PROVE  Goal
    <3>1. place[r][k] = "read" /\ got'[r][k] = got[r][k] /\ world' = world
          /\ (began'[k] = began[k] \/ began'[k] = 0)
      BY <1>0, <1>4, <2>6, ReturnEffect
    <3> QED
      BY <2>0, <3>1
  <2> QED
    BY <1>s, <2>1, <2>2, <2>3, <2>4, <2>5, <2>6 DEF OneStep
<1>5. ASSUME NEW k \in ToolKeys PROVE AtLeast(k, newest[k])'
  <2>0. k \in Keys /\ newest[k] \in 0..MaxVersion /\ AtLeast(k, newest[k])
    BY <1>0, KeysAndRequests DEF Typed, Fresh
  <2>1. CASE newest'[k] = newest[k]
    <3>1. PICK w \in 0..MaxVersion : w = newest[k]
      BY <2>0
    <3>2. AtLeast(k, w)'
      BY <2>0, <3>1, AtLeastStays
    <3> QED
      BY <2>1, <3>1, <3>2 DEF AtLeast
  <2>2. CASE newest'[k] # newest[k]
    <3>1. Returns
      BY <1>0, <1>s, <2>2, OtherSteps
    <3>2. PICK x \in Requests, q \in Keys, v \in 0..MaxVersion :
               q \in Wanted(x) /\ Returning(x, q, v)
      BY <3>1, KeysAndRequests
    <3>3. x \in Refreshes /\ Ended(x)' /\ newest'[k] = registry'[k] /\ registry'[k] \in {0, got'[x][k]}
          /\ registry'[k] > newest[k]
      BY <1>0, <2>2, <3>2, RegistryEffect
    <3>4. newest'[k] = got'[x][k]
      BY <2>0, <3>3
    <3>5. place'[x][k] = "done"
      BY <3>3, KeysAndRequests DEF Ended
    <3>6. AtLeast(k, got[x][k])'
      BY <1>2, <2>0, <3>5
    <3> QED
      BY <3>4, <3>6 DEF AtLeast
  <2> QED
    BY <2>1, <2>2
<1>6. ASSUME NEW k \in ToolKeys, NEW r \in Refreshes, place'[r][k] \notin {"idle", "done"}
      PROVE  AtLeast(k, asked[r][k])'
  <2>0. k \in Keys /\ r \in Requests /\ asked[r][k] \in 0..MaxVersion
    BY <1>0, KeysAndRequests DEF Typed, Versions
  <2>1. CASE Begin(r)
    <3>1. cache'[k] = 0 /\ UNCHANGED <<world, got, began>>
      BY <2>0, <2>1 DEF Begin, Invalidate
    <3>2. asked'[r][k] = IF began[k] # 0 THEN began[k] ELSE world[k]
      BY <2>1 DEF Begin
    <3>3. \A x \in Requests : place'[x][k] = "read" => place[x][k] = "read"
      BY <1>0, <2>0, <2>1, BeginEffect
    <3>4. ASSUME NEW x \in Requests, place'[x][k] = "read" PROVE asked'[r][k] <= got[x][k]
      <4>1. began[k] # 0
        BY <1>0, <2>0, <3>3, <3>4 DEF Queue
      <4> QED
        BY <1>0, <2>0, <3>2, <3>3, <3>4, <4>1 DEF Fresh
    <3>5. asked'[r][k] <= world[k]
      BY <1>0, <2>0, <3>2 DEF Fresh, Typed, Versions
    <3> QED
      BY <3>1, <3>4, <3>5 DEF AtLeast
  <2>2. CASE ~Begin(r)
    <3>1. asked'[r][k] = asked[r][k] /\ place[r][k] \notin {"idle", "done"}
      <4>1. CASE Returns
        <5> QED
          BY <1>0, <1>6, <2>0, <4>1, ReturnEffect
      <4>2. ASSUME NEW x \in Requests, Begin(x) PROVE asked'[r][k] = asked[r][k] /\ place[r][k] = place'[r][k]
        <5>1. x # r
          BY <2>2, <4>2
        <5>2. asked'[r][k] = asked[r][k]
          BY <4>2, <5>1 DEF Begin
        <5> QED
          BY <1>0, <2>0, <4>2, <5>1, <5>2, BeginEffect
      <4>3. ASSUME NEW x \in Requests, NEW q \in Wanted(x), Miss(x, q) \/ EnterSlot(x, q) \/ Read(x, q)
            PROVE  asked'[r][k] = asked[r][k] /\ place[r][k] \notin {"idle", "done"}
        <5>1. q \in Keys /\ asked' = asked /\ place[x][q] \notin {"idle", "done"}
          BY <4>3, KeysAndRequests DEF Miss, EnterSlot, Read, HasLock
        <5>2. PICK p \in Places : place' = [place EXCEPT ![x][q] = p]
          BY <4>3 DEF Miss, EnterSlot, Read, Places
        <5>3. place'[r][k] = IF r = x /\ k = q THEN p ELSE place[r][k]
          BY <1>0, <2>0, <5>1, <5>2, Moves
        <5> QED
          BY <1>6, <5>1, <5>3
      <4>4. CASE (\E q \in ToolKeys : Change(q)) \/ (\E q \in Keys : Expire(q)) \/ UNCHANGED vars
        BY <1>6, <4>4 DEF Change, Expire, vars
      <4> QED
        BY <1>6, <1>s, <4>1, <4>2, <4>3, <4>4 DEF OneStep
    <3>2. AtLeast(k, asked[r][k])
      BY <1>0, <3>1 DEF Fresh
    <3>3. PICK w \in 0..MaxVersion : w = asked[r][k]
      BY <2>0
    <3>4. AtLeast(k, w)'
      BY <2>0, <3>2, <3>3, AtLeastStays
    <3> QED
      BY <3>1, <3>3, <3>4 DEF AtLeast
  <2> QED
    BY <2>1, <2>2
<1>7. ASSUME NEW k \in ToolKeys, NEW r \in Refreshes, place'[r][k] = "done", got'[r][k] # 0
      PROVE  asked'[r][k] <= got'[r][k]
  <2>0. k \in Keys /\ r \in Requests /\ asked[r][k] \in 0..MaxVersion
    BY <1>0, KeysAndRequests DEF Typed, Versions
  <2>1. CASE Returns
    <3>1. PICK x \in Requests, q \in Keys, v \in 0..MaxVersion :
               q \in Wanted(x) /\ Returning(x, q, v)
      BY <2>1, KeysAndRequests
    <3>2. asked' = asked /\ (r = x /\ k = q => got'[r][k] = v /\ place[r][k] \notin {"idle", "done"})
          /\ (~(r = x /\ k = q) => got'[r][k] = got[r][k] /\ place'[r][k] = place[r][k])
      BY <1>0, <2>0, <3>1, ReturnEffect
    <3>3. CASE r = x /\ k = q
      <4>1. AtLeast(k, asked[r][k])
        BY <1>0, <3>2, <3>3 DEF Fresh
      <4> QED
        BY <1>7, <2>0, <3>1, <3>2, <3>3, <4>1 DEF Returning
    <3>4. CASE ~(r = x /\ k = q)
      BY <1>0, <1>7, <3>2, <3>4 DEF Fresh
    <3> QED
      BY <3>3, <3>4
  <2>2. CASE ~Returns
    <3>1. place[r][k] = "done" /\ got'[r][k] = got[r][k]
      BY <1>0, <1>7, <1>s, <2>0, <2>2, OtherSteps
    <3>2. ~Begin(r)
      BY <2>0, <3>1, KeysAndRequests DEF Begin, Begun
    <3>3. asked'[r][k] = asked[r][k]
      BY <1>s, <2>2, <3>2 DEF OneStep, Change, Expire, Begin, Miss, EnterSlot, Read, vars
    <3> QED
      BY <1>0, <1>7, <3>1, <3>3 DEF Fresh
  <2> QED
    BY <2>1, <2>2
<1> QED
  BY <1>1, <1>2, <1>3, <1>4, <1>5, <1>6, <1>7 DEF Fresh

-----------------------------------------------------------------------------
(* The order of the refreshes.                                             *)

\* A refresh that has not begun will be the last everywhere when it does.
LEMMA IdleIsLast ==
    ASSUME CatalogInv, [Next]_vars, NEW a \in Refreshes, NEW b \in Refreshes, NEW k \in ToolKeys,
           \A q \in ToolKeys : place[b][q] = "idle"
    PROVE  place'[b][k] # "done" /\ ~Ahead(k, b, a)'
<1>0. /\ Typed /\ Together /\ Queue(k) /\ k \in Keys /\ a \in Requests /\ b \in Requests
      /\ (OneStep \/ UNCHANGED vars) /\ place[b][k] = "idle" /\ k \in Wanted(b)
  BY StepCases, KeysAndRequests DEF CatalogInv
<1> DEFINE Returns == \E r \in Requests : \E q \in Wanted(r) : \E v \in 0..MaxVersion : Returning(r, q, v)
<1>1. place'[b][k] # "done"
  <2>1. CASE Returns
    BY <1>0, <2>1, ReturnEffect
  <2>2. CASE ~Returns
    BY <1>0, <2>2, OtherSteps
  <2> QED
    BY <2>1, <2>2
<1>2. Len(lock[k]) \in Nat /\ \A i \in 1..Len(lock[k]) : lock[k][i] # b
  BY <1>0 DEF Queue, Typed
<1>3. ASSUME NEW i \in 1..Len(lock'[k]), NEW j \in 1..Len(lock'[k]), i < j PROVE lock'[k][i] # b
  <2>1. CASE Returns
    <3>1. PICK r \in Requests, q \in Keys, v \in 0..MaxVersion : q \in Wanted(r) /\ Returning(r, q, v)
      BY <2>1, KeysAndRequests
    <3>2. CASE q = k
      <4>1. lock'[k][i] = lock[k][i + 1] /\ Len(lock'[k]) = Len(lock[k]) - 1
        BY <1>0, <3>1, <3>2, ReturnEffect
      <4>2. i + 1 \in 1..Len(lock[k])
        BY <1>2, <4>1
      <4> QED
        BY <1>2, <4>1, <4>2
    <3>3. CASE q # k
      <4>1. lock'[k] = lock[k]
        BY <1>0, <3>1, <3>3, ReturnEffect
      <4> QED
        BY <1>2, <4>1
    <3> QED
      BY <3>2, <3>3
  <2>2. ASSUME NEW r \in Requests, Begin(r) PROVE lock'[k][i] # b
    <3>1. CASE k \in Wanted(r)
      <4>1. Len(lock'[k]) = Len(lock[k]) + 1 /\ \A x \in 1..Len(lock[k]) : lock'[k][x] = lock[k][x]
        BY <1>0, <2>2, <3>1, BeginEffect
      <4>2. i \in 1..Len(lock[k])
        BY <1>2, <1>3, <4>1
      <4> QED
        BY <1>2, <4>1, <4>2
    <3>2. CASE k \notin Wanted(r)
      <4>1. lock'[k] = lock[k]
        BY <1>0, <2>2, <3>2, BeginEffect
      <4> QED
        BY <1>2, <4>1
    <3> QED
      BY <3>1, <3>2
  <2>3. CASE lock' = lock
    BY <1>2, <2>3
  <2> QED
    BY <1>0, <2>1, <2>2, <2>3 DEF OneStep, Change, Expire, Miss, EnterSlot, Read, vars
<1> QED
  BY <1>1, <1>3 DEF Ahead

\* A step puts nobody ahead of a refresh that has begun.
LEMMA AheadBefore ==
    ASSUME CatalogInv, [Next]_vars, NEW a \in Refreshes, NEW b \in Refreshes, NEW k \in ToolKeys,
           Ahead(k, a, b)'
    PROVE  Ahead(k, a, b) \/ \A q \in ToolKeys : place[b][q] = "idle"
<1>0. /\ Typed /\ Together /\ Queue(k) /\ k \in Keys /\ a \in Requests /\ b \in Requests
      /\ (OneStep \/ UNCHANGED vars) /\ Wanted(b) = ToolKeys
  BY StepCases, KeysAndRequests DEF CatalogInv
<1>a. Len(lock[k]) \in Nat
  BY <1>0 DEF Typed
<1> DEFINE Returns == \E r \in Requests : \E q \in Wanted(r) : \E v \in 0..MaxVersion : Returning(r, q, v)
<1>1. CASE Returns
  <2>1. PICK r \in Requests, q \in Keys, v \in 0..MaxVersion : q \in Wanted(r) /\ Returning(r, q, v)
    BY <1>1, KeysAndRequests
  <2>2. CASE q # k
    <3>1. lock'[k] = lock[k] /\ place'[a][k] = place[a][k] /\ place'[b][k] = place[b][k]
      BY <1>0, <2>1, <2>2, ReturnEffect
    <3> QED
      BY <3>1 DEF Ahead
  <2>3. CASE q = k
    <3>1. /\ Len(lock'[k]) = Len(lock[k]) - 1 /\ lock[k][1] = r
          /\ \A i \in 1..Len(lock'[k]) : lock'[k][i] = lock[k][i + 1]
          /\ place'[a][k] = IF a = r THEN "done" ELSE place[a][k]
          /\ place'[b][k] = IF b = r THEN "done" ELSE place[b][k]
      BY <1>0, <2>1, <2>3, ReturnEffect
    <3>2. CASE place'[a][k] = "done" /\ place'[b][k] # "done" /\ a # r
      BY <3>1, <3>2 DEF Ahead
    <3>3. CASE place'[b][k] # "done" /\ a = r
      <4>1. b # r /\ place[b][k] # "done"
        BY <3>1, <3>3
      <4>2. CASE place[b][k] = "idle"
        BY <1>0, <4>2 DEF Together
      <4>3. CASE place[b][k] # "idle"
        <5>1. PICK j \in 1..Len(lock[k]) : lock[k][j] = b
          BY <1>0, <4>1, <4>3 DEF Queue
        <5>2. j # 1 /\ 1 \in 1..Len(lock[k]) /\ 1 < j
          BY <1>a, <3>1, <4>1, <5>1
        <5> QED
          BY <3>1, <3>3, <5>1, <5>2 DEF Ahead
      <4> QED
        BY <4>2, <4>3
    <3>4. ASSUME NEW i \in 1..Len(lock'[k]), NEW j \in 1..Len(lock'[k]), i < j,
                 lock'[k][i] = a, lock'[k][j] = b
          PROVE  Ahead(k, a, b)
      <4>1. i + 1 \in 1..Len(lock[k]) /\ j + 1 \in 1..Len(lock[k]) /\ i + 1 < j + 1
        BY <1>a, <3>1, <3>4
      <4>2. lock[k][i + 1] = a /\ lock[k][j + 1] = b
        BY <3>1, <3>4
      <4> QED
        BY <4>1, <4>2 DEF Ahead
    <3> QED
      BY <3>2, <3>3, <3>4 DEF Ahead
  <2> QED
    BY <2>2, <2>3
<1>2. CASE ~Returns
  <2>1. /\ place'[a][k] = "done" <=> place[a][k] = "done"
        /\ place'[b][k] = "done" <=> place[b][k] = "done"
    BY <1>0, <1>2, OtherSteps
  <2>2. CASE lock'[k] = lock[k]
    BY <2>1, <2>2 DEF Ahead
  <2>3. CASE lock'[k] # lock[k]
    <3>1. PICK r \in Requests : Begin(r)
      BY <1>0, <1>2, <2>3 DEF OneStep, Change, Expire, Miss, EnterSlot, Read, vars
    <3>2. k \in Wanted(r)
      BY <1>0, <2>3, <3>1, BeginEffect
    <3>3. /\ Len(lock'[k]) = Len(lock[k]) + 1
          /\ \A i \in 1..Len(lock[k]) : lock'[k][i] = lock[k][i]
          /\ lock'[k][Len(lock[k]) + 1] = r
      BY <1>0, <3>1, <3>2, BeginEffect
    <3>4. CASE b = r
      <4>1. \A q \in ToolKeys : place[b][q] = "idle"
        BY <1>0, <3>1, <3>4 DEF Begin, Begun
      <4> QED
        BY <4>1
    <3>5. CASE b # r
      <4>1. ASSUME NEW i \in 1..Len(lock'[k]), NEW j \in 1..Len(lock'[k]), i < j,
                   lock'[k][i] = a, lock'[k][j] = b
            PROVE  Ahead(k, a, b)
        <5>1. j # Len(lock[k]) + 1
          BY <3>3, <3>5, <4>1
        <5>2. i \in 1..Len(lock[k]) /\ j \in 1..Len(lock[k])
          BY <1>a, <3>3, <4>1, <5>1
        <5> QED
          BY <3>3, <4>1, <5>2 DEF Ahead
      <4> QED
        BY <2>1, <4>1 DEF Ahead
    <3> QED
      BY <3>4, <3>5
  <2> QED
    BY <2>2, <2>3
<1> QED
  BY <1>1, <1>2

LEMMA OrderedNext == CatalogInv /\ [Next]_vars => Ordered'
<1> SUFFICES ASSUME CatalogInv, [Next]_vars, NEW a \in Refreshes, NEW b \in Refreshes,
                    NEW k \in ToolKeys, NEW q \in ToolKeys, Ahead(k, a, b)'
             PROVE  /\ ~Ahead(q, b, a)'
                    /\ place'[a][q] = "done" /\ place'[b][q] = "done" /\ got'[b][q] # 0
                           => got'[a][q] <= got'[b][q]
  BY DEF Ordered
<1>0. /\ Typed /\ Together /\ Fresh /\ Ordered /\ q \in Keys /\ a \in Requests /\ b \in Requests
      /\ (OneStep \/ UNCHANGED vars)
  BY StepCases, KeysAndRequests DEF CatalogInv
<1>1. CASE \A x \in ToolKeys : place[b][x] = "idle"
  BY <1>1, IdleIsLast
<1>2. CASE Ahead(k, a, b)
  <2>1. ~Ahead(q, b, a)
    BY <1>0, <1>2 DEF Ordered
  <2>2. ~Ahead(q, b, a)'
    BY <2>1, AheadBefore, IdleIsLast
  <2>3. ASSUME place'[a][q] = "done", place'[b][q] = "done", got'[b][q] # 0
        PROVE  got'[a][q] <= got'[b][q]
    <3>1. place[a][q] = "done" \/ place[b][q] # "done"
      BY <2>1 DEF Ahead
    <3>2. CASE /\ place[a][q] = "done" /\ got'[a][q] = got[a][q]
               /\ place[b][q] = "done" /\ got'[b][q] = got[b][q]
      BY <1>0, <1>2, <2>3, <3>2 DEF Ordered
    <3>3. CASE \E r \in Requests : \E x \in Wanted(r) : \E v \in 0..MaxVersion : Returning(r, x, v)
      <4>1. PICK r \in Requests, x \in Keys, v \in 0..MaxVersion : x \in Wanted(r) /\ Returning(r, x, v)
        BY <3>3, KeysAndRequests
      <4>2. /\ place'[a][q] = IF a = r /\ q = x THEN "done" ELSE place[a][q]
            /\ place'[b][q] = IF b = r /\ q = x THEN "done" ELSE place[b][q]
            /\ got'[a][q] = IF a = r /\ q = x THEN v ELSE got[a][q]
            /\ got'[b][q] = IF b = r /\ q = x THEN v ELSE got[b][q]
            /\ place[r][x] \notin {"idle", "done"}
        BY <1>0, <4>1, ReturnEffect
      <4>3. CASE a = b
        BY <1>0, <4>1, <4>2, <4>3 DEF Typed
      <4>4. CASE a # b /\ a = r /\ q = x
        BY <2>3, <3>1, <4>2, <4>4
      <4>5. CASE a # b /\ b = r /\ q = x
        <5>1. place[a][q] = "done" /\ got'[a][q] = got[a][q] /\ got[a][q] \in 0..MaxVersion
          BY <1>0, <2>3, <4>2, <4>5 DEF Typed
        <5>2. AtLeast(q, got[a][q])
          BY <1>0, <5>1 DEF Fresh
        <5> QED
          BY <2>3, <4>1, <4>2, <4>5, <5>1, <5>2 DEF Returning
      <4>6. CASE q # x \/ (a # r /\ b # r)
        BY <2>3, <3>2, <4>2, <4>6
      <4> QED
        BY <4>3, <4>4, <4>5, <4>6
    <3>4. CASE ~\E r \in Requests : \E x \in Wanted(r) : \E v \in 0..MaxVersion : Returning(r, x, v)
      BY <1>0, <2>3, <3>2, <3>4, OtherSteps
    <3> QED
      BY <3>3, <3>4
  <2> QED
    BY <2>2, <2>3
<1> QED
  BY <1>1, <1>2, AheadBefore

\* The refresh that ends has waited for all that began before it.
LEMMA NewerNext == CatalogInv /\ [Next]_vars => Newer' /\ RegistryNeverGoesBack' /\ FromARefresh'
<1> SUFFICES ASSUME CatalogInv, [Next]_vars
             PROVE  Newer' /\ RegistryNeverGoesBack' /\ FromARefresh'
  OBVIOUS
<1>0. /\ Typed /\ Together /\ Fresh /\ Newer /\ RegistryNeverGoesBack /\ FromARefresh
      /\ (OneStep \/ UNCHANGED vars) /\ ToolKeys \subseteq Keys /\ MaxVersion \in Nat
      /\ \A r \in Refreshes : r \in Requests /\ Wanted(r) = ToolKeys
  BY StepCases, KeysAndRequests, CatalogParameters DEF CatalogInv
<1>o. Ordered' /\ Typed'
  BY OrderedNext, TypedNext
<1>e. \A r \in Refreshes : /\ Ended(r) <=> \A k \in ToolKeys : place[r][k] = "done"
                           /\ Ended(r)' <=> \A k \in ToolKeys : place'[r][k] = "done"
  BY <1>0 DEF Ended, Wanted
<1> DEFINE Returns == \E r \in Requests : \E q \in Wanted(r) : \E v \in 0..MaxVersion : Returning(r, q, v)
<1>1. CASE ~Returns
  <2>1. /\ UNCHANGED <<registry, newest>>
        /\ \A r \in Requests, k \in Keys :
              /\ place'[r][k] = "done" <=> place[r][k] = "done"
              /\ place[r][k] = "done" => got'[r][k] = got[r][k]
    BY <1>0, <1>1, OtherSteps
  <2>2. \A r \in Refreshes : Ended(r)' <=> Ended(r)
    BY <1>0, <1>e, <2>1
  <2>3. Newer'
    BY <1>0, <2>1, <2>2 DEF Newer
  <2>4. RegistryNeverGoesBack'
    BY <1>0, <2>1 DEF RegistryNeverGoesBack
  <2>5. FromARefresh'
    BY <1>0, <1>e, <2>1, <2>2 DEF FromARefresh, Registered
  <2> QED
    BY <2>3, <2>4, <2>5
<1>2. ASSUME NEW x \in Requests, NEW q \in Wanted(x), NEW v \in 0..MaxVersion, Returning(x, q, v)
      PROVE  Newer' /\ RegistryNeverGoesBack' /\ FromARefresh'
  <2>1. /\ q \in Keys /\ place[x][q] # "done"
        /\ \A r \in Requests, k \in Keys :
              /\ place'[r][k] = IF r = x /\ k = q THEN "done" ELSE place[r][k]
              /\ got'[r][k] = IF r = x /\ k = q THEN v ELSE got[r][k]
    BY <1>0, <1>2, ReturnEffect
  <2>2. \/ x \in Refreshes /\ Ended(x)' /\ ~Ended(x)
           /\ \A k \in ToolKeys :
                 /\ registry'[k] = Registered(got'[x])[k] /\ registry'[k] \in {0, got'[x][k]}
                 /\ newest'[k] = IF registry'[k] > newest[k] THEN registry'[k] ELSE newest[k]
        \/ (x \in Refreshes => ~Ended(x)') /\ UNCHANGED <<registry, newest>>
    BY <1>0, <1>2, RegistryEffect
  <2>3. ASSUME NEW k \in ToolKeys PROVE newest[k] \in 0..MaxVersion /\ newest'[k] \in 0..MaxVersion
               /\ registry'[k] \in 0..MaxVersion
    BY <1>0, <1>o DEF Typed
  <2>4. ASSUME NEW r \in Refreshes, NEW k \in ToolKeys, place'[r][k] = "done", got'[r][k] # 0,
               ~Ended(r)
        PROVE  newest[k] <= got'[r][k]
    <3>1. CASE r = x /\ k = q
      <4>1. AtLeast(k, newest[k]) /\ got'[r][k] = v
        BY <1>0, <2>1, <3>1 DEF Fresh
      <4> QED
        BY <1>2, <2>3, <2>4, <3>1, <4>1 DEF Returning
    <3>2. CASE ~(r = x /\ k = q)
      <4>1. place[r][k] = "done" /\ got'[r][k] = got[r][k]
        BY <1>0, <2>1, <2>4, <3>2
      <4> QED
        BY <1>0, <2>4, <4>1 DEF Newer
    <3> QED
      BY <3>1, <3>2
  <2>5. ASSUME NEW r \in Refreshes, NEW k \in ToolKeys, place'[r][k] = "done", got'[r][k] # 0,
               ~Ended(r)'
        PROVE  newest'[k] <= got'[r][k]
    <3>1. ~Ended(r)
      BY <1>0, <1>e, <2>1, <2>5
    <3>2. CASE newest'[k] = newest[k]
      BY <2>4, <2>5, <3>1, <3>2
    <3>3. CASE newest'[k] # newest[k]
      <4>1. x \in Refreshes /\ Ended(x)' /\ newest'[k] = got'[x][k]
        BY <2>2, <2>3, <3>3
      <4>2. PICK p \in ToolKeys : place'[r][p] # "done"
        BY <1>e, <2>5
      <4>3. Ahead(p, x, r)' /\ place'[x][k] = "done"
        BY <1>e, <4>1, <4>2 DEF Ahead
      <4> QED
        BY <1>o, <2>5, <4>1, <4>3 DEF Ordered
    <3> QED
      BY <3>2, <3>3
  <2>6. Newer'
    BY <2>5 DEF Newer
  <2>7. ASSUME NEW k \in ToolKeys PROVE registry'[k] \in {0, newest'[k]}
    <3>1. CASE UNCHANGED <<registry, newest>>
      BY <1>0, <3>1 DEF RegistryNeverGoesBack
    <3>2. CASE ~UNCHANGED <<registry, newest>> /\ registry'[k] # 0
      <4>1. /\ x \in Refreshes /\ Ended(x)' /\ ~Ended(x) /\ registry'[k] = got'[x][k]
            /\ newest'[k] = IF registry'[k] > newest[k] THEN registry'[k] ELSE newest[k]
        BY <2>2, <3>2
      <4>2. place'[x][k] = "done"
        BY <1>e, <4>1
      <4>3. newest[k] <= registry'[k]
        BY <2>4, <3>2, <4>1, <4>2
      <4> QED
        BY <2>3, <4>1, <4>3
    <3> QED
      BY <3>1, <3>2
  <2>8. FromARefresh'
    <3>1. CASE x \in Refreshes /\ Ended(x)'
      BY <2>2, <3>1 DEF FromARefresh
    <3>2. CASE ~(x \in Refreshes /\ Ended(x)')
      <4>1. UNCHANGED <<registry, newest>>
        BY <2>2, <3>2
      <4>2. \A r \in Refreshes : Ended(r)' => Ended(r) /\ r # x
        BY <1>0, <1>e, <2>1, <3>2
      <4>3. \A r \in Refreshes : Ended(r) =>
              Ended(r)' /\ \A k \in ToolKeys : got'[r][k] = got[r][k]
        BY <1>0, <1>e, <2>1
      <4> QED
        BY <1>0, <4>1, <4>2, <4>3 DEF FromARefresh, Registered
    <3> QED
      BY <3>1, <3>2
  <2> QED
    BY <2>6, <2>7, <2>8 DEF RegistryNeverGoesBack
<1> QED
  BY <1>1, <1>2

-----------------------------------------------------------------------------
(* The limits.                                                             *)

Taken == {x \in Requests \X Keys : place[x[1]][x[2]] \in InSlot}

\* A slot is taken by EnterSlot only, which looks first.
LEMMA SlotsNext == CatalogInv /\ SlotsTaken <= Slots /\ [Next]_vars => SlotsTaken' <= Slots
<1> SUFFICES ASSUME CatalogInv, SlotsTaken <= Slots, [Next]_vars PROVE SlotsTaken' <= Slots
  OBVIOUS
<1>0. /\ Typed /\ Together /\ Slots \in Nat /\ (OneStep \/ UNCHANGED vars)
      /\ \A r \in Requests : Wanted(r) \subseteq Keys
  BY StepCases, KeysAndRequests, CatalogParameters DEF CatalogInv
<1>1. IsFiniteSet(Requests \X Keys)
  BY CatalogParameters, FS_Product
<1>2. IsFiniteSet(Taken) /\ Cardinality(Taken) \in Nat
  BY <1>1, FS_Subset, FS_CardinalityType DEF Taken
<1>3. SlotsTaken = Cardinality(Taken) /\ SlotsTaken' = Cardinality(Taken')
  BY DEF SlotsTaken, Taken
<1>4. ASSUME Taken' \subseteq Taken PROVE SlotsTaken' <= Slots
  <2>1. IsFiniteSet(Taken') /\ Cardinality(Taken') <= Cardinality(Taken)
    BY <1>2, <1>4, FS_Subset
  <2>2. Cardinality(Taken') \in Nat
    BY <2>1, FS_CardinalityType
  <2> QED
    BY <1>0, <1>2, <1>3, <2>1, <2>2
<1>5. ASSUME \A r \in Requests, k \in Keys : place'[r][k] \in InSlot => place[r][k] \in InSlot
      PROVE  SlotsTaken' <= Slots
  BY <1>4, <1>5 DEF Taken
<1>6. CASE (\E q \in ToolKeys : Change(q)) \/ (\E q \in Keys : Expire(q)) \/ UNCHANGED vars
  BY <1>5, <1>6 DEF Change, Expire, vars
<1>7. ASSUME NEW r \in Requests, Begin(r) PROVE SlotsTaken' <= Slots
  <2>1. \A x \in Requests, k \in Keys :
           place'[x][k] = place[x][k] \/ place'[x][k] \in {"queued", "idle"}
    BY <1>0, <1>7, BeginEffect
  <2> QED
    BY <1>5, <2>1 DEF InSlot
<1>8. ASSUME NEW r \in Requests, NEW k \in Wanted(r), Miss(r, k) \/ Read(r, k)
      PROVE  SlotsTaken' <= Slots
  <2>1. PICK p \in Places : /\ place' = [place EXCEPT ![r][k] = p]
                            /\ p \in InSlot => place[r][k] \in InSlot
    BY <1>8 DEF Miss, Read, Places, InSlot
  <2>2. k \in Keys
    BY <1>0
  <2>3. \A x \in Requests, y \in Keys : place'[x][y] = IF x = r /\ y = k THEN p ELSE place[x][y]
    BY <1>0, <2>1, <2>2, Moves
  <2> QED
    BY <1>5, <2>1, <2>3
<1>9. ASSUME NEW r \in Requests, NEW k \in Wanted(r), EnterSlot(r, k)
      PROVE  SlotsTaken' <= Slots
  <2>1. k \in Keys /\ place' = [place EXCEPT ![r][k] = "reading"] /\ SlotsTaken < Slots
        /\ "reading" \in Places
    BY <1>0, <1>9 DEF EnterSlot, SlotFree, Places
  <2>2. \A x \in Requests, y \in Keys :
           place'[x][y] = IF x = r /\ y = k THEN "reading" ELSE place[x][y]
    BY <1>0, <2>1, Moves
  <2>3. Taken' \subseteq Taken \cup {<<r, k>>}
    BY <2>2 DEF Taken
  <2>4. IsFiniteSet(Taken \cup {<<r, k>>})
        /\ Cardinality(Taken \cup {<<r, k>>}) <= Cardinality(Taken) + 1
        /\ Cardinality(Taken \cup {<<r, k>>}) \in Nat
    <3>1. IsFiniteSet(Taken \cup {<<r, k>>})
          /\ Cardinality(Taken \cup {<<r, k>>})
                = IF <<r, k>> \in Taken THEN Cardinality(Taken) ELSE Cardinality(Taken) + 1
      BY <1>2, FS_AddElement
    <3>2. Cardinality(Taken \cup {<<r, k>>}) \in Nat
      BY <3>1, FS_CardinalityType
    <3> QED
      BY <1>2, <3>1, <3>2
  <2>5. IsFiniteSet(Taken') /\ Cardinality(Taken') <= Cardinality(Taken \cup {<<r, k>>})
    BY <2>3, <2>4, FS_Subset
  <2>6. Cardinality(Taken') \in Nat
    BY <2>5, FS_CardinalityType
  <2> QED
    BY <1>0, <1>2, <1>3, <2>1, <2>4, <2>5, <2>6
<1>10. ASSUME NEW r \in Requests, NEW k \in Wanted(r), NEW v \in 0..MaxVersion, Returning(r, k, v)
       PROVE  SlotsTaken' <= Slots
  <2>1. \A x \in Requests, y \in Keys : place'[x][y] = IF x = r /\ y = k THEN "done" ELSE place[x][y]
    BY <1>0, <1>10, ReturnEffect
  <2> QED
    BY <1>5, <2>1 DEF InSlot
<1> QED
  BY <1>0, <1>6, <1>7, <1>8, <1>9, <1>10 DEF OneStep

\* Nobody is twice in a queue, so it is no longer than there are requests.
LEMMA QueuesAreShort ==
    ASSUME Typed, NEW k \in Keys, Queue(k)
    PROVE  Len(lock[k]) <= Cardinality(Requests)
<1>1. lock[k] \in Seq(Requests) /\ Len(lock[k]) \in Nat /\ lock[k] \in [1..Len(lock[k]) -> Requests]
  BY DEF Typed
<1>2. IsFiniteSet(Requests) /\ Cardinality(Requests) \in Nat
  BY CatalogParameters, FS_CardinalityType
<1>3. IsFiniteSet(1..Len(lock[k])) /\ Cardinality(1..Len(lock[k])) = Len(lock[k])
  <2>1. PICK n \in Nat : n = Len(lock[k])
    BY <1>1
  <2>2. IsFiniteSet(1..n) /\ Cardinality(1..n) = IF 1 > n THEN 0 ELSE n - 1 + 1
    BY FS_Interval
  <2> QED
    BY <2>1, <2>2
<1>4. ASSUME Cardinality(Requests) < Len(lock[k]) PROVE FALSE
  <2>1. \E i, j \in 1..Len(lock[k]) : i # j /\ lock[k][i] = lock[k][j]
    BY <1>1, <1>2, <1>3, <1>4, FS_PigeonHole
  <2> QED
    BY <2>1 DEF Queue
<1> QED
  BY <1>1, <1>2, <1>4

-----------------------------------------------------------------------------
(* Theorems.                                                               *)

LEMMA CatalogInit == Init => CatalogInv /\ SlotsTaken <= Slots
<1> SUFFICES ASSUME Init PROVE CatalogInv /\ SlotsTaken <= Slots
  OBVIOUS
<1> USE CatalogParameters, KeysAndRequests
<1>0. 1 \in 1..MaxVersion /\ 0 \in 0..MaxVersion /\ "idle" \in Places /\ 0 <= Slots
  BY DEF Places
<1>1. Typed
  <2>1. lock \in [Keys -> Seq(Requests)]
    BY DEF Init
  <2> QED
    BY <1>0, <2>1 DEF Init, Typed, Versions
<1>2. \A r \in Requests, k \in Keys : place[r][k] = "idle"
  BY DEF Init
<1>3. \A k \in Keys : Len(lock[k]) = 0
  BY DEF Init
<1>4. \A k \in Keys : Queue(k)
  BY <1>2, <1>3 DEF Queue
<1>5. Together
  BY <1>2 DEF Together
<1>6. Fresh
  <2>1. \A k \in Keys : world[k] = 1 /\ cache[k] = 0 /\ began[k] = 0
    BY DEF Init
  <2>2. \A k \in ToolKeys : newest[k] = 0
    BY DEF Init
  <2> QED
    BY <1>2, <2>1, <2>2 DEF Fresh, AtLeast
<1>7. Ordered /\ Newer
  BY <1>2, <1>3 DEF Ordered, Newer, Ahead
<1>8. RegistryNeverGoesBack
  BY DEF Init, RegistryNeverGoesBack
<1>9. FromARefresh
  BY <1>2 DEF FromARefresh, Ended
<1>10. SlotsTaken = 0
  <2>1. {x \in Requests \X Keys : place[x[1]][x[2]] \in InSlot} = {}
    BY <1>2 DEF InSlot
  <2> QED
    BY <2>1, FS_EmptySet DEF SlotsTaken
<1> QED
  BY <1>0, <1>1, <1>4, <1>5, <1>6, <1>7, <1>8, <1>9, <1>10 DEF CatalogInv

LEMMA CatalogAlways == Spec => [](CatalogInv /\ SlotsTaken <= Slots)
<1>1. CatalogInv /\ SlotsTaken <= Slots /\ [Next]_vars => (CatalogInv /\ SlotsTaken <= Slots)'
  <2>1. ASSUME CatalogInv, [Next]_vars PROVE CatalogInv'
    BY <2>1, TypedNext, QueueNext, TogetherNext, FreshNext, OrderedNext, NewerNext DEF CatalogInv
  <2> QED
    BY <2>1, SlotsNext, CatalogParameters
<1> QED
  BY <1>1, CatalogInit, PTL DEF Spec

\* However refreshes overlap, fail and overtake each other on single servers, no
\* tool catalog older than a registered one is ever registered again
\* (UnifiedToolRegistry.refresh_mcp_tools under the locks of _catalog).
THEOREM RegistryOnlyMovesForward == Spec => []RegistryNeverGoesBack
<1>1. CatalogInv => RegistryNeverGoesBack
  BY DEF CatalogInv
<1> QED
  BY <1>1, CatalogAlways, PTL

\* What a refresh returns of a server was shown after it began or was read by
\* the one discovery under way then: invalidate_catalogs and the lock of the key
\* leave no older answer to it.
THEOREM RefreshesAreFresh == Spec => []AtMostOneDiscoveryLate
<1>1. CatalogInv => AtMostOneDiscoveryLate
  <2> SUFFICES ASSUME CatalogInv, NEW r \in Refreshes, NEW k \in ToolKeys,
                      place[r][k] = "done", got[r][k] # 0
               PROVE  got[r][k] >= asked[r][k]
    BY DEF AtMostOneDiscoveryLate
  <2>1. Typed /\ Fresh /\ r \in Requests /\ k \in Keys
    BY KeysAndRequests DEF CatalogInv
  <2>2. asked[r][k] <= got[r][k] /\ asked[r][k] \in Nat /\ got[r][k] \in Nat
    BY <2>1 DEF Fresh, Typed, Versions
  <2> QED
    BY <2>2
<1> QED
  BY <1>1, CatalogAlways, PTL

\* A server that every refresh has found healthy is registered once any refresh
\* has ended, whatever the others return; slots, queues and versions stay
\* within their limits.
THEOREM HealthyServersAreKept == Spec => []HealthyServersStay
<1>1. CatalogInv /\ SlotsTaken <= Slots => HealthyServersStay
  <2> SUFFICES ASSUME CatalogInv, SlotsTaken <= Slots PROVE HealthyServersStay
    OBVIOUS
  <2>1. Typed /\ FromARefresh /\ \A k \in Keys : Queue(k)
    BY DEF CatalogInv
  <2>2. TypeOK
    BY <2>1, QueuesAreShort DEF Typed, TypeOK
  <2>3. ASSUME NEW k \in ToolKeys, NEW x \in Refreshes, Ended(x),
               \A r \in Refreshes : place[r][k] = "done" => got[r][k] \notin Bad[k] \cup {0}
        PROVE  registry[k] # 0
    <3>1. PICK r \in Refreshes : Ended(r) /\ registry[k] = Registered(got[r])[k]
      BY <2>1, <2>3 DEF FromARefresh
    <3>2. place[r][k] = "done"
      BY <3>1, KeysAndRequests DEF Ended
    <3> QED
      BY <2>3, <3>1, <3>2 DEF Registered
  <2> QED
    BY <2>2, <2>3 DEF HealthyServersStay
<1> QED
  BY <1>1, CatalogAlways, PTL
=============================================================================
