--------------------------- MODULE TaskPoolProofs ---------------------------
(***************************************************************************)
(* Theorems about TaskPool, for any number of requests, tasks, jobs and    *)
(* attempts, and however often the process stops.                          *)
(***************************************************************************)
EXTENDS TaskPool, FiniteSetTheorems, WellFoundedInduction, TLAPS

Steps == {"free"} \cup Live \cup Over

\* The entry of a task is the job that was enqueued last, until its callback has
\* run; the one before it is over, and then the last has not begun yet.
Tracked(p, t) ==
    \A k, s \in Slots : k # s =>
        /\ p.jobs[t] = None => p.work[t][k] = "free"
        /\ p.jobs[t] = k =>
              /\ p.work[t][k] # "free"
              /\ \/ p.work[t][s] = "free"
                 \/ p.work[t][s] \in Over /\ p.work[t][k] \in {"waiting", "dropped"}

Held(p) == {j \in Requests \X Slots : p.work[j[1]][j[2]] \in Holding}

PoolTyped(p) ==
    /\ p = [jobs |-> p.jobs, work |-> p.work]
    /\ p.jobs \in [Requests -> Slots \cup {None}]
    /\ p.work \in [Requests -> [Slots -> Steps]]

GoodPool(p) ==
    /\ PoolTyped(p)
    /\ \A t \in Requests : Tracked(p, t)
    /\ Cardinality(Entries(p)) <= Capacity
    /\ Cardinality(Held(p)) <= MaxConcurrency

\* TypeOK, but for the pool.
TypedRows ==
    /\ legacy \subseteq Requests
    /\ req \in [Requests -> {"new", "missed", "inserted", "conflict", "answered",
                             "refused", "failed", "lost"}]
    /\ answer \in [Requests -> Requests \cup {None}]
    /\ status \in [Requests -> {"absent", "queued", "running", "ended", "cancelled"}]
    /\ attempts \in [Requests -> Nat] /\ \A t \in Requests : attempts[t] <= MaxAttempts[t]
    /\ queue \in Seq(Requests) /\ cancels \subseteq Requests
    /\ process \in {"up", "closing", "down"}
    /\ asked \in 0..MaxCancels /\ stops \in 0..MaxStops
    /\ picked \in Seq(Requests)

\* The row of a key is there once; what has been said of a request stays true,
\* for no row goes away.
OneRow ==
    \A r, s \in Requests :
        /\ status[r] # "absent" /\ status[s] # "absent"
        /\ Key[r] = Key[s] /\ Key[r] # NoKey
        => r = s

Answered(r) ==
    /\ answer[r] \in Requests /\ status[answer[r]] # "absent"
    /\ SameRequest(answer[r], r) /\ Key[answer[r]] = Key[r]
    /\ Key[r] = NoKey => answer[r] = r

Said(r) ==
    /\ req[r] = "inserted" => status[r] # "absent"
    /\ req[r] = "answered" => Answered(r)
    /\ req[r] = "refused" => \E t \in WithKey(Key[r]) : ~SameRequest(t, r)

KeyInv == OneRow /\ \A r \in Requests : Said(r)

PoolInv == TypedRows /\ GoodPool(Pool) /\ KeyInv

-----------------------------------------------------------------------------
(* Sets, sequences and functions.                                          *)

\* A set of natural numbers that is not empty has a least element.
LEMMA LeastNumber ==
    ASSUME NEW S \in SUBSET Nat, S # {}
    PROVE  \E x \in S : \A y \in S : x <= y
<1>1. PICK x \in S : \A y \in S : ~(<<y, x>> \in OpToRel(<, Nat))
  BY WFMin, NatLessThanWellFounded
<1>2. ASSUME NEW y \in S PROVE x <= y
  <2>1. <<y, x>> \in Nat \X Nat /\ ~(<<y, x>> \in {ss \in Nat \X Nat : ss[1] < ss[2]})
    BY <1>1, Zenon DEF OpToRel
  <2> QED
    BY <2>1
<1> QED
  BY <1>2

LEMMA RemoveFirstType ==
    ASSUME NEW S, NEW q \in Seq(S), NEW t
    PROVE  RemoveFirst(q, t) \in Seq(S)
<1>1. CASE \E i \in 1..Len(q) : q[i] = t
  <2> DEFINE I == {i \in 1..Len(q) : q[i] = t}
  <2>1. I # {} /\ I \in SUBSET Nat
    BY <1>1
  <2>2. \E m \in I : \A y \in I : m <= y
    <3> HIDE DEF I
    <3> QED
      BY <2>1, LeastNumber
  <2>3. SelectInSeq(q, LAMBDA v : v = t) \in I
    BY <2>1, <2>2 DEF SelectInSeq, Min
  <2>4. RemoveFirst(q, t) = RemoveAt(q, SelectInSeq(q, LAMBDA v : v = t))
    BY <1>1 DEF RemoveFirst
  <2>5. \A i \in 1..Len(q) : RemoveAt(q, i) \in Seq(S)
    BY DEF RemoveAt
  <2> QED
    BY <2>3, <2>4, <2>5
<1>2. CASE ~\E i \in 1..Len(q) : q[i] = t
  BY <1>2 DEF RemoveFirst
<1> QED
  BY <1>1, <1>2

LEMMA SetToSeqType ==
    ASSUME NEW S, IsFiniteSet(S)
    PROVE  SetToSeq(S) \in Seq(S)
<1>1. Cardinality(S) \in Nat /\ ExistsBijection(1..Cardinality(S), S)
  BY FS_CardinalityType
<1>2. \E f \in [1..Cardinality(S) -> S] : IsInjective(f)
  BY <1>1 DEF ExistsBijection, Bijection, Injection, Surjection, IsInjective
<1>3. SetToSeq(S) \in [1..Cardinality(S) -> S]
  BY <1>2 DEF SetToSeq
<1> QED
  BY <1>1, <1>3

\* Updating one entry of a function of two arguments.
LEMMA OneEntry ==
    ASSUME NEW A, NEW B, NEW C, NEW f \in [A -> [B -> C]], NEW a \in A, NEW b \in B, NEW c \in C
    PROVE  /\ [f EXCEPT ![a][b] = c] \in [A -> [B -> C]]
           /\ \A x \in A, y \in B :
                 [f EXCEPT ![a][b] = c][x][y] = IF x = a /\ y = b THEN c ELSE f[x][y]
OBVIOUS

\* One element more, at most.
LEMMA OneMore ==
    ASSUME NEW S, IsFiniteSet(S), NEW x, NEW T, T \subseteq S \cup {x}
    PROVE  /\ IsFiniteSet(T) /\ Cardinality(T) \in Nat /\ Cardinality(S) \in Nat
           /\ Cardinality(T) <= Cardinality(S) + 1
<1>1. /\ IsFiniteSet(S \cup {x})
      /\ Cardinality(S \cup {x}) = IF x \in S THEN Cardinality(S) ELSE Cardinality(S) + 1
  BY FS_AddElement
<1>2. IsFiniteSet(T) /\ Cardinality(T) <= Cardinality(S \cup {x})
  BY <1>1, FS_Subset
<1>3. Cardinality(T) \in Nat /\ Cardinality(S) \in Nat
  BY <1>2, FS_CardinalityType
<1> QED
  BY <1>1, <1>2, <1>3

LEMMA NoMore ==
    ASSUME NEW S, IsFiniteSet(S), NEW T, T \subseteq S
    PROVE  /\ IsFiniteSet(T) /\ Cardinality(T) \in Nat /\ Cardinality(S) \in Nat
           /\ Cardinality(T) <= Cardinality(S)
<1>1. IsFiniteSet(T) /\ Cardinality(T) <= Cardinality(S)
  BY FS_Subset
<1> QED
  BY <1>1, FS_CardinalityType

LEMMA PoolSetsAreFinite ==
    ASSUME NEW p
    PROVE  IsFiniteSet(Entries(p)) /\ IsFiniteSet(Held(p)) /\ Capacity \in Nat
           /\ MaxConcurrency \in Nat
<1>1. IsFiniteSet(Slots)
  <2>1. PICK n \in Int : n = 2
    OBVIOUS
  <2>2. Slots = 1..n
    BY <2>1 DEF Slots
  <2>3. IsFiniteSet(1..n)
    BY FS_Interval
  <2> QED
    BY <2>2, <2>3
<1>2. IsFiniteSet(Requests \X Slots)
  BY <1>1, PoolParameters, FS_Product
<1>3. IsFiniteSet(Entries(p))
  <2>1. Entries(p) \subseteq Requests
    BY DEF Entries
  <2> QED
    BY <2>1, PoolParameters, FS_Subset
<1>4. IsFiniteSet(Held(p))
  <2>1. Held(p) \subseteq Requests \X Slots
    BY DEF Held
  <2> QED
    BY <1>2, <2>1, FS_Subset
<1>5. Capacity \in Nat /\ MaxConcurrency \in Nat
  BY PoolParameters DEF Capacity
<1> QED
  BY <1>3, <1>4, <1>5

-----------------------------------------------------------------------------
(* Enqueueing.                                                             *)

LEMMA EnqueueKeeps ==
    ASSUME NEW p, GoodPool(p), NEW t \in Requests
    PROVE  GoodPool(Enqueue(p, t))
<1>1. CASE Refused(p, t)
  BY <1>1 DEF Enqueue
<1>2. CASE ~Refused(p, t)
  <2> DEFINE k == CHOOSE s \in Slots : p.work[t][s] = "free"
             n == Enqueue(p, t)
  <2>0. PoolTyped(p) /\ Tracked(p, t)
    BY DEF GoodPool
  <2>1. \E s \in Slots : p.work[t][s] = "free"
    <3>1. p.jobs[t] \in Slots \cup {None} /\ 1 \in Slots /\ 2 \in Slots
      BY <2>0 DEF PoolTyped, Slots
    <3>2. CASE p.jobs[t] = None
      BY <2>0, <3>1, <3>2 DEF Tracked
    <3>3. CASE p.jobs[t] # None
      <4>1. p.jobs[t] \in Slots /\ p.work[t][p.jobs[t]] \notin Live
        BY <1>2, <3>1, <3>3 DEF Refused
      <4>2. PICK s \in Slots : s # p.jobs[t]
        BY <4>1 DEF Slots
      <4> QED
        BY <2>0, <4>1, <4>2 DEF Tracked, Live
    <3> QED
      BY <3>2, <3>3
  <2>2. k \in Slots /\ p.work[t][k] = "free"
    BY <2>1
  <2>3. n = [jobs |-> [p.jobs EXCEPT ![t] = k], work |-> [p.work EXCEPT ![t][k] = "waiting"]]
    BY <1>2 DEF Enqueue
  <2> HIDE DEF k, n
  <2>4. /\ n.jobs \in [Requests -> Slots \cup {None}]
        /\ \A x \in Requests : n.jobs[x] = IF x = t THEN k ELSE p.jobs[x]
    BY <2>0, <2>2, <2>3 DEF PoolTyped
  <2>5. /\ n.work \in [Requests -> [Slots -> Steps]]
        /\ \A x \in Requests, y \in Slots :
              n.work[x][y] = IF x = t /\ y = k THEN "waiting" ELSE p.work[x][y]
    <3>1. "waiting" \in Steps
      BY DEF Steps, Live
    <3>2. n.work = [p.work EXCEPT ![t][k] = "waiting"] /\ p.work \in [Requests -> [Slots -> Steps]]
      BY <2>0, <2>3 DEF PoolTyped
    <3> QED
      BY <2>2, <3>1, <3>2, OneEntry
  <2>6. PoolTyped(n)
    BY <2>3, <2>4, <2>5 DEF PoolTyped
  <2>7. ASSUME NEW x \in Requests PROVE Tracked(n, x)
    <3>0. Tracked(p, x)
      BY DEF GoodPool
    <3>1. CASE x # t
      BY <2>4, <2>5, <3>0, <3>1 DEF Tracked
    <3>2. CASE x = t
      <4>1. n.jobs[t] = k /\ n.work[t][k] = "waiting" /\ k # None
        BY <2>2, <2>4, <2>5 DEF Slots, None
      <4>2. ASSUME NEW s \in Slots, s # k PROVE n.work[t][s] = "free" \/ n.work[t][s] \in Over
        <5>1. n.work[t][s] = p.work[t][s] /\ p.jobs[t] \in Slots \cup {None}
          BY <2>0, <2>5, <4>2 DEF PoolTyped
        <5>2. p.jobs[t] \in {None, s, k}
          BY <2>2, <4>2, <5>1 DEF Slots
        <5>3. p.jobs[t] # k
          BY <2>0, <2>2, <4>2 DEF Tracked
        <5>4. CASE p.jobs[t] = None
          BY <2>0, <2>2, <4>2, <5>1, <5>4 DEF Tracked
        <5>5. CASE p.jobs[t] = s
          <6>1. p.work[t][s] \in Steps /\ p.work[t][s] \notin Live
            BY <1>2, <2>0, <4>2, <5>5 DEF Refused, PoolTyped, None, Slots
          <6> QED
            BY <5>1, <6>1 DEF Steps
        <5> QED
          BY <5>2, <5>3, <5>4, <5>5
      <4> QED
        BY <2>2, <3>2, <4>1, <4>2 DEF Tracked
    <3> QED
      BY <3>1, <3>2
  <2>8. Cardinality(Entries(n)) <= Capacity
    <3>1. Entries(n) \subseteq Entries(p) \cup {t}
      BY <2>4 DEF Entries
    <3>2. /\ Cardinality(Entries(n)) \in Nat /\ Cardinality(Entries(p)) \in Nat
          /\ Cardinality(Entries(n)) <= Cardinality(Entries(p)) + 1
      BY <3>1, OneMore, PoolSetsAreFinite
    <3>3. ~(Cardinality(Entries(p)) >= Capacity)
      BY <1>2 DEF Refused
    <3> QED
      BY <3>2, <3>3, PoolSetsAreFinite
  <2>9. Cardinality(Held(n)) <= MaxConcurrency
    <3>1. Held(n) \subseteq Held(p)
      BY <2>5 DEF Held, Holding
    <3>2. /\ Cardinality(Held(n)) \in Nat /\ Cardinality(Held(p)) \in Nat
          /\ Cardinality(Held(n)) <= Cardinality(Held(p))
      BY <3>1, NoMore, PoolSetsAreFinite
    <3> QED
      BY <3>2, PoolSetsAreFinite DEF GoodPool
  <2> QED
    BY <2>6, <2>7, <2>8, <2>9 DEF GoodPool, n
<1> QED
  BY <1>1, <1>2

\* The pool after each of the ids: the recursion of EnqueueAll has a solution.
Solves(f, p, ids, m) ==
    f = [n \in 0..m |-> IF n = 0 THEN p ELSE Enqueue(f[n - 1], ids[n])]

LEMMA AfterEach ==
    ASSUME NEW p, NEW ids \in Seq(Requests)
    PROVE  \E f : Solves(f, p, ids, Len(ids))
<1> USE DEF Solves
<1> DEFINE Bad == {m \in 0..Len(ids) : ~\E f : Solves(f, p, ids, m)}
<1>1. Bad \in SUBSET Nat /\ Len(ids) \in Nat
  OBVIOUS
<1>2. ASSUME Bad # {} PROVE FALSE
  <2>1. PICK m \in Bad : \A y \in Bad : m <= y
    <3> HIDE DEF Bad
    <3> QED
      BY <1>1, <1>2, LeastNumber
  <2>2. m \in 0..Len(ids) /\ ~\E f : Solves(f, p, ids, m)
    BY <2>1
  <2>3. CASE m = 0
    <3> DEFINE g == [n \in 0..0 |-> p]
    <3>1. Solves(g, p, ids, 0)
      OBVIOUS
    <3> QED
      BY <2>2, <2>3, <3>1
  <2>4. CASE m # 0
    <3>1. m - 1 \in 0..Len(ids) /\ ~(m <= m - 1)
      BY <1>1, <2>2, <2>4
    <3>2. m - 1 \notin Bad
      BY <2>1, <3>1
    <3>3. PICK f : Solves(f, p, ids, m - 1)
      BY <3>1, <3>2
    <3> DEFINE g == [n \in 0..m |-> IF n = m THEN Enqueue(f[m - 1], ids[m]) ELSE f[n]]
    <3>4. ASSUME NEW n \in 0..m
          PROVE  g[n] = IF n = 0 THEN p ELSE Enqueue(g[n - 1], ids[n])
      <4>1. CASE n = m
        BY <1>1, <2>2, <2>4, <4>1
      <4>2. CASE n # m
        <5>1. n \in 0..(m - 1) /\ g[n] = f[n] /\ (n # 0 => n - 1 \in 0..m /\ g[n - 1] = f[n - 1])
          BY <1>1, <2>2, <2>4, <4>2
        <5>2. f[n] = IF n = 0 THEN p ELSE Enqueue(f[n - 1], ids[n])
          BY <3>3, <5>1
        <5> QED
          BY <5>1, <5>2
      <4> QED
        BY <4>1, <4>2
    <3>5. Solves(g, p, ids, m)
      <4>1. g = [n \in 0..m |-> g[n]]
        OBVIOUS
      <4> HIDE DEF g
      <4> QED
        BY <3>4, <4>1
    <3> QED
      BY <2>2, <3>5
  <2> QED
    BY <2>3, <2>4
<1>3. Len(ids) \notin Bad
  BY <1>2
<1>4. \E f : Solves(f, p, ids, Len(ids))
  BY <1>1, <1>3
<1> QED
  BY <1>4

LEMMA EnqueueAllKeeps ==
    ASSUME NEW p, GoodPool(p), NEW ids \in Seq(Requests)
    PROVE  GoodPool(EnqueueAll(p, ids))
<1> DEFINE after == CHOOSE f : Solves(f, p, ids, Len(ids))
           Bad == {m \in 0..Len(ids) : ~GoodPool(after[m])}
<1>1. EnqueueAll(p, ids) = after[Len(ids)]
  BY DEF EnqueueAll, Solves
<1>2. Solves(after, p, ids, Len(ids))
  BY AfterEach
<1>3. \A n \in 0..Len(ids) : after[n] = IF n = 0 THEN p ELSE Enqueue(after[n - 1], ids[n])
  <2> HIDE DEF after
  <2> QED
    BY <1>2 DEF Solves
<1> HIDE DEF after
<1>4. Bad \in SUBSET Nat /\ Len(ids) \in Nat
  OBVIOUS
<1>5. ASSUME Bad # {} PROVE FALSE
  <2>1. PICK m \in Bad : \A y \in Bad : m <= y
    <3> HIDE DEF Bad
    <3> QED
      BY <1>4, <1>5, LeastNumber
  <2>2. m \in 0..Len(ids) /\ ~GoodPool(after[m])
    BY <2>1
  <2>3. m # 0
    BY <1>3, <2>2
  <2>4. m - 1 \in 0..Len(ids) /\ ~(m <= m - 1) /\ ids[m] \in Requests
    BY <1>4, <2>2, <2>3
  <2>5. GoodPool(after[m - 1])
    BY <2>1, <2>4
  <2>6. after[m] = Enqueue(after[m - 1], ids[m])
    BY <1>3, <2>2, <2>3
  <2>7. GoodPool(Enqueue(after[m - 1], ids[m]))
    BY <2>4, <2>5, EnqueueKeeps
  <2> QED
    BY <2>2, <2>6, <2>7
<1> QED
  BY <1>1, <1>4, <1>5
-----------------------------------------------------------------------------
(* Jobs.                                                                   *)

PoolNext == [jobs |-> jobs', work |-> work']

\* A job that can still run is the entry of its id.
LEMMA LiveIsEntry ==
    ASSUME NEW p, GoodPool(p), NEW t \in Requests, NEW k \in Slots, p.work[t][k] \in Live
    PROVE  p.jobs[t] = k
<1>1. p.jobs[t] \in Slots \cup {None} /\ Tracked(p, t)
  BY DEF GoodPool, PoolTyped
<1>2. PICK s \in Slots : s # k
  BY DEF Slots
<1>3. p.jobs[t] \in {None, k, s}
  BY <1>1, <1>2 DEF Slots
<1>4. p.work[t][k] # "free" /\ p.work[t][k] \notin Over
  BY DEF Live, Over
<1>5. p.jobs[t] # None
  BY <1>1, <1>2, <1>4 DEF Tracked
<1>6. p.jobs[t] # s
  BY <1>1, <1>2, <1>4 DEF Tracked
<1> QED
  BY <1>3, <1>5, <1>6

\* A pool with no more entries and no more running jobs.
LEMMA NoMoreJobs ==
    ASSUME NEW p, GoodPool(p), NEW q, PoolTyped(q), \A t \in Requests : Tracked(q, t),
           Entries(q) \subseteq Entries(p), Held(q) \subseteq Held(p)
    PROVE  GoodPool(q)
<1>1. /\ Cardinality(Entries(q)) \in Nat /\ Cardinality(Entries(p)) \in Nat
      /\ Cardinality(Entries(q)) <= Cardinality(Entries(p))
  BY NoMore, PoolSetsAreFinite
<1>2. /\ Cardinality(Held(q)) \in Nat /\ Cardinality(Held(p)) \in Nat
      /\ Cardinality(Held(q)) <= Cardinality(Held(p))
  BY NoMore, PoolSetsAreFinite
<1>3. /\ Capacity \in Nat /\ MaxConcurrency \in Nat
      /\ Cardinality(Entries(p)) <= Capacity /\ Cardinality(Held(p)) <= MaxConcurrency
  BY PoolSetsAreFinite DEF GoodPool
<1>4. Cardinality(Entries(q)) <= Capacity /\ Cardinality(Held(q)) <= MaxConcurrency
  BY <1>1, <1>2, <1>3
<1> QED
  BY <1>4 DEF GoodPool

\* The entry of a task goes on to another step.
LEMMA EntryStepEffect ==
    ASSUME NEW p, GoodPool(p), NEW t \in Requests, NEW k \in Slots, p.jobs[t] = k,
           NEW step \in Steps \ {"free"},
           \/ step \in {"waiting", "dropped"}
           \/ \A s \in Slots \ {k} : p.work[t][s] = "free",
           NEW q, q = [jobs |-> p.jobs, work |-> [p.work EXCEPT ![t][k] = step]]
    PROVE  /\ PoolTyped(q) /\ \A x \in Requests : Tracked(q, x)
           /\ Entries(q) = Entries(p)
           /\ Held(q) \subseteq Held(p) \cup {<<t, k>>}
           /\ (step \in Holding => p.work[t][k] \in Holding)
                => Held(q) \subseteq Held(p)
<1>0. PoolTyped(p)
  BY DEF GoodPool
<1>1. /\ q.work \in [Requests -> [Slots -> Steps]]
      /\ \A x \in Requests, y \in Slots :
            q.work[x][y] = IF x = t /\ y = k THEN step ELSE p.work[x][y]
  <2>1. q.work = [p.work EXCEPT ![t][k] = step] /\ p.work \in [Requests -> [Slots -> Steps]]
        /\ step \in Steps
    BY <1>0 DEF PoolTyped
  <2> QED
    BY <2>1, OneEntry
<1>2. q.jobs = p.jobs /\ PoolTyped(q)
  BY <1>0, <1>1 DEF PoolTyped
<1>3. ASSUME NEW x \in Requests PROVE Tracked(q, x)
  <2>0. Tracked(p, x) /\ Tracked(p, t)
    BY DEF GoodPool
  <2>1. CASE x # t
    BY <1>1, <1>2, <2>0, <2>1 DEF Tracked
  <2>2. CASE x = t
    <3>1. q.jobs[t] = k /\ q.work[t][k] # "free" /\ q.work[t][k] = step /\ k # None
      BY <1>1, <1>2 DEF Slots, None
    <3>2. ASSUME NEW s \in Slots, s # k
          PROVE  \/ q.work[t][s] = "free"
                 \/ q.work[t][s] \in Over /\ q.work[t][k] \in {"waiting", "dropped"}
      <4>1. q.work[t][s] = p.work[t][s]
        BY <1>1, <3>2
      <4>2. p.work[t][s] = "free" \/ p.work[t][s] \in Over
        BY <2>0, <3>2 DEF Tracked
      <4> QED
        BY <3>1, <3>2, <4>1, <4>2
    <3> QED
      BY <2>2, <3>1, <3>2 DEF Tracked
  <2> QED
    BY <2>1, <2>2
<1>4. Entries(q) = Entries(p)
  BY <1>2 DEF Entries
<1>5. /\ Held(q) \subseteq Held(p) \cup {<<t, k>>}
      /\ (step \in Holding => p.work[t][k] \in Holding)
           => Held(q) \subseteq Held(p)
  BY <1>1 DEF Held
<1> QED
  BY <1>2, <1>3, <1>4, <1>5
LEMMA BeginPool ==
    ASSUME GoodPool(Pool), NEW t \in Requests, NEW k \in Slots, Begin(t, k)
    PROVE  GoodPool(PoolNext)
<1>1. PICK p : p = Pool
  OBVIOUS
<1>2. /\ GoodPool(p) /\ p.jobs = jobs /\ p.work = work
      /\ p.work[t][k] = "waiting" /\ Turn(t, k)
      /\ Cardinality(Held(p)) < MaxConcurrency
  BY <1>1 DEF Pool, Begin, Held
<1>3. PICK step \in {"running", "done"} :
         work' = [work EXCEPT ![t][k] = step] /\ jobs' = jobs
  BY DEF Begin, SetStep
<1>4. p.jobs[t] = k
  BY <1>2, LiveIsEntry DEF Live
<1>5. ASSUME NEW s \in Slots \ {k} PROVE p.work[t][s] = "free"
  <2>1. Tracked(p, t) /\ p.work[t][s] \notin Over
    BY <1>2 DEF GoodPool, Turn
  <2> QED
    BY <1>4, <2>1 DEF Tracked
<1>6. step \in Steps \ {"free"}
  BY DEF Steps, Live, Over
<1>7. PICK n : n = PoolNext
  OBVIOUS
<1>8. n = [jobs |-> p.jobs, work |-> [p.work EXCEPT ![t][k] = step]]
  BY <1>2, <1>3, <1>7 DEF PoolNext
<1>9. /\ PoolTyped(n) /\ \A x \in Requests : Tracked(n, x)
      /\ Entries(n) = Entries(p) /\ Held(n) \subseteq Held(p) \cup {<<t, k>>}
  BY <1>2, <1>4, <1>5, <1>6, <1>8, EntryStepEffect
<1>10. Cardinality(Held(n)) <= MaxConcurrency
  <2>1. /\ Cardinality(Held(n)) \in Nat /\ Cardinality(Held(p)) \in Nat
        /\ Cardinality(Held(n)) <= Cardinality(Held(p)) + 1
    BY <1>9, OneMore, PoolSetsAreFinite
  <2>2. MaxConcurrency \in Nat
    BY PoolSetsAreFinite
  <2> QED
    BY <1>2, <2>1, <2>2
<1>11. Cardinality(Entries(n)) <= Capacity
  BY <1>2, <1>9 DEF GoodPool
<1> QED
  BY <1>7, <1>9, <1>10, <1>11 DEF GoodPool

\* The entry of a task goes on, and does not begin to hold the semaphore.
LEMMA EntryGoesOn ==
    ASSUME GoodPool(Pool), NEW t \in Requests, NEW k \in Slots, jobs[t] = k,
           NEW step \in Steps \ {"free"}, SetStep(t, k, step),
           step \in Holding => work[t][k] \in Holding,
           \/ step \in {"waiting", "dropped"}
           \/ \A s \in Slots \ {k} : work[t][s] = "free"
    PROVE  GoodPool(PoolNext)
<1>1. PICK p : p = Pool
  OBVIOUS
<1>2. GoodPool(p) /\ p.jobs = jobs /\ p.work = work
  BY <1>1 DEF Pool
<1>3. PICK n : n = PoolNext
  OBVIOUS
<1>4. n = [jobs |-> p.jobs, work |-> [p.work EXCEPT ![t][k] = step]]
  BY <1>2, <1>3 DEF PoolNext, SetStep
<1>5. /\ PoolTyped(n) /\ \A x \in Requests : Tracked(n, x)
      /\ Entries(n) = Entries(p) /\ Held(n) \subseteq Held(p)
  BY <1>2, <1>4, EntryStepEffect
<1>6. GoodPool(n)
  BY <1>2, <1>5, NoMoreJobs
<1> QED
  BY <1>3, <1>6

\* What is in the other slot of a task whose job has begun or has its turn.
LEMMA OtherSlotIsFree ==
    ASSUME GoodPool(Pool), NEW t \in Requests, NEW k \in Slots, work[t][k] \in Live,
           work[t][k] \notin {"waiting", "dropped"} \/ Turn(t, k)
    PROVE  jobs[t] = k /\ \A s \in Slots \ {k} : work[t][s] = "free"
<1>1. PICK p : p = Pool
  OBVIOUS
<1>2. GoodPool(p) /\ p.jobs = jobs /\ p.work = work
  BY <1>1 DEF Pool
<1>3. jobs[t] = k
  BY <1>2, LiveIsEntry
<1>4. Tracked(p, t)
  BY <1>2 DEF GoodPool
<1>5. ASSUME NEW s \in Slots \ {k} PROVE work[t][s] = "free"
  BY <1>2, <1>3, <1>4 DEF Tracked, Turn
<1> QED
  BY <1>3, <1>5

LEMMA FinishPool ==
    ASSUME GoodPool(Pool), NEW t \in Requests, NEW k \in Slots, Finish(t, k)
    PROVE  GoodPool(PoolNext)
<1>1. PICK step \in Over : SetStep(t, k, step)
  BY DEF Finish, Over
<1>2. /\ work[t][k] \in Live
      /\ work[t][k] \notin {"waiting", "dropped"} \/ Turn(t, k)
  BY DEF Finish, Live
<1>3. jobs[t] = k /\ \A s \in Slots \ {k} : work[t][s] = "free"
  BY <1>2, OtherSlotIsFree
<1>4. step \in Steps \ {"free"} /\ step \notin Holding
  BY DEF Steps, Over, Holding
<1> QED
  BY <1>1, <1>3, <1>4, EntryGoesOn

LEMMA DoomedStep ==
    ASSUME NEW w \in Steps
    PROVE  /\ Doomed(w) \in Steps /\ (Doomed(w) = "free" <=> w = "free")
           /\ Doomed(w) \in Holding <=> w \in Holding
           /\ Doomed(w) \in Over <=> w \in Over
           /\ w \in {"waiting", "dropped"} => Doomed(w) \in {"waiting", "dropped"}
BY DEF Doomed, Steps, Live, Over, Holding

LEMMA CancelJobPool ==
    ASSUME GoodPool(Pool), NEW t \in Requests, CancelJob(t)
    PROVE  GoodPool(PoolNext)
<1>1. CASE jobs[t] = None
  <2>1. jobs' = jobs /\ work' = work
    BY <1>1 DEF CancelJob, poolVars
  <2> QED
    BY <2>1 DEF Pool, PoolNext
<1>2. CASE jobs[t] # None
  <2>1. PICK p : p = Pool
    OBVIOUS
  <2>2. /\ PoolTyped(p) /\ Tracked(p, t) /\ p.jobs = jobs /\ p.work = work
    BY <2>1 DEF GoodPool, Pool
  <2>3. PICK k \in Slots : k = jobs[t]
    BY <1>2, <2>2 DEF PoolTyped
  <2>4. work[t][k] \in Steps
    BY <2>2 DEF PoolTyped
  <2>5. PICK step : step = Doomed(work[t][k])
    OBVIOUS
  <2>6. SetStep(t, k, step)
    BY <1>2, <2>3, <2>5 DEF CancelJob
  <2>7. /\ step \in Steps /\ (step = "free" <=> work[t][k] = "free")
        /\ step \in Holding <=> work[t][k] \in Holding
        /\ work[t][k] \in {"waiting", "dropped"} => step \in {"waiting", "dropped"}
    BY <2>4, <2>5, DoomedStep
  <2>8. /\ work[t][k] # "free"
        /\ \/ work[t][k] \in {"waiting", "dropped"}
           \/ \A s \in Slots \ {k} : work[t][s] = "free"
    <3>1. PICK s \in Slots : s # k
      BY DEF Slots
    <3>2. \A x \in Slots \ {k} : x = s
      BY <3>1 DEF Slots
    <3> QED
      BY <2>2, <2>3, <3>1, <3>2 DEF Tracked
  <2> QED
    BY <2>3, <2>6, <2>7, <2>8, EntryGoesOn
<1> QED
  BY <1>1, <1>2
LEMMA JobFinishedPool ==
    ASSUME GoodPool(Pool), NEW t \in Requests, NEW k \in Slots, JobFinished(t, k)
    PROVE  GoodPool(PoolNext)
<1>1. PICK p : p = Pool
  OBVIOUS
<1>2. /\ GoodPool(p) /\ PoolTyped(p) /\ Tracked(p, t) /\ p.jobs = jobs /\ p.work = work
      /\ p.work[t][k] \in Over
  BY <1>1 DEF GoodPool, Pool, JobFinished
<1>3. PICK n : n = PoolNext
  OBVIOUS
<1>4. /\ n = [jobs |-> n.jobs, work |-> n.work]
      /\ n.work = [p.work EXCEPT ![t][k] = "free"]
      /\ n.jobs = IF p.jobs[t] = k THEN [p.jobs EXCEPT ![t] = None] ELSE p.jobs
  BY <1>2, <1>3 DEF PoolNext, JobFinished, Pops
<1>5. /\ n.work \in [Requests -> [Slots -> Steps]]
      /\ \A x \in Requests, y \in Slots :
            n.work[x][y] = IF x = t /\ y = k THEN "free" ELSE p.work[x][y]
  <2>1. p.work \in [Requests -> [Slots -> Steps]] /\ "free" \in Steps
    BY <1>2 DEF PoolTyped, Steps
  <2> QED
    BY <1>4, <2>1, OneEntry
<1>6. /\ n.jobs \in [Requests -> Slots \cup {None}]
      /\ \A x \in Requests :
            n.jobs[x] = IF x = t /\ p.jobs[t] = k THEN None ELSE p.jobs[x]
  BY <1>2, <1>4 DEF PoolTyped
<1>7. PoolTyped(n)
  BY <1>4, <1>5, <1>6 DEF PoolTyped
<1>8. ASSUME NEW x \in Requests PROVE Tracked(n, x)
  <2>0. Tracked(p, x)
    BY <1>2 DEF GoodPool
  <2>1. CASE x # t
    BY <1>5, <1>6, <2>0, <2>1 DEF Tracked
  <2>2. CASE x = t /\ p.jobs[t] = k
    <3>1. n.jobs[t] = None /\ n.work[t][k] = "free" /\ None \notin Slots
      BY <1>5, <1>6, <2>2 DEF Slots, None
    <3>2. ASSUME NEW s \in Slots, s # k PROVE n.work[t][s] = "free"
      <4>1. p.work[t][k] \notin {"waiting", "dropped"}
        BY <1>2 DEF Over
      <4> QED
        BY <1>2, <1>5, <2>2, <3>2, <4>1 DEF Tracked
    <3> QED
      BY <2>2, <3>1, <3>2 DEF Tracked
  <2>3. CASE x = t /\ p.jobs[t] # k
    <3>1. n.jobs[t] = p.jobs[t] /\ n.work[t][k] = "free" /\ p.jobs[t] # None
      <4>1. PICK s \in Slots : s # k
        BY DEF Slots
      <4>2. p.work[t][k] # "free"
        BY <1>2 DEF Over
      <4> QED
        BY <1>2, <1>5, <1>6, <2>3, <4>1, <4>2 DEF Tracked
    <3>2. \A s \in Slots : s # k => n.work[t][s] = p.work[t][s]
      BY <1>5
    <3> QED
      BY <1>2, <2>3, <3>1, <3>2 DEF Tracked
  <2> QED
    BY <2>1, <2>2, <2>3
<1>9. Entries(n) \subseteq Entries(p)
  BY <1>6 DEF Entries
<1>10. Held(n) \subseteq Held(p)
  BY <1>5 DEF Held, Holding
<1>11. GoodPool(n)
  BY <1>2, <1>7, <1>8, <1>9, <1>10, NoMoreJobs
<1> QED
  BY <1>3, <1>11

LEMMA ShutdownPool ==
    ASSUME GoodPool(Pool), Shutdown
    PROVE  GoodPool(PoolNext)
<1>1. PICK p : p = Pool
  OBVIOUS
<1>2. GoodPool(p) /\ PoolTyped(p) /\ p.jobs = jobs /\ p.work = work
  BY <1>1 DEF GoodPool, Pool
<1>3. PICK n : n = PoolNext
  OBVIOUS
<1>4. /\ n = [jobs |-> n.jobs, work |-> n.work] /\ n.jobs = p.jobs
      /\ n.work = [t \in Requests |-> [k \in Slots |->
                     IF p.jobs[t] = k THEN Doomed(p.work[t][k]) ELSE p.work[t][k]]]
  BY <1>2, <1>3 DEF PoolNext, Shutdown
<1>5. ASSUME NEW t \in Requests, NEW k \in Slots
      PROVE  /\ n.work[t][k] = IF p.jobs[t] = k THEN Doomed(p.work[t][k]) ELSE p.work[t][k]
             /\ n.work[t][k] \in Steps /\ (n.work[t][k] = "free" <=> p.work[t][k] = "free")
             /\ n.work[t][k] \in Holding <=> p.work[t][k] \in Holding
             /\ p.work[t][k] \in {"waiting", "dropped"} => n.work[t][k] \in {"waiting", "dropped"}
  <2>1. n.work[t][k] = IF p.jobs[t] = k THEN Doomed(p.work[t][k]) ELSE p.work[t][k]
    BY <1>4
  <2>2. p.work[t][k] \in Steps
    BY <1>2 DEF PoolTyped
  <2> QED
    BY <2>1, <2>2, DoomedStep
<1>6. n.work \in [Requests -> [Slots -> Steps]]
  <2>1. \A t \in Requests : n.work[t] = [k \in Slots |-> n.work[t][k]]
    BY <1>4
  <2>2. n.work = [t \in Requests |-> n.work[t]]
    BY <1>4
  <2>3. \A t \in Requests : n.work[t] \in [Slots -> Steps]
    BY <1>5, <2>1
  <2> QED
    BY <2>2, <2>3
<1>7. PoolTyped(n)
  BY <1>2, <1>4, <1>6 DEF PoolTyped
<1>8. ASSUME NEW t \in Requests PROVE Tracked(n, t)
  <2>1. Tracked(p, t)
    BY <1>2 DEF GoodPool
  <2>2. ASSUME NEW k \in Slots, NEW s \in Slots, k # s, n.jobs[t] = k
        PROVE  /\ n.work[t][k] # "free"
               /\ \/ n.work[t][s] = "free"
                  \/ n.work[t][s] \in Over /\ n.work[t][k] \in {"waiting", "dropped"}
    BY <1>4, <1>5, <2>1, <2>2 DEF Tracked
  <2>3. ASSUME NEW k \in Slots, n.jobs[t] = None PROVE n.work[t][k] = "free"
    <3>1. PICK s \in Slots : s # k
      BY DEF Slots
    <3> QED
      BY <1>4, <1>5, <2>1, <2>3, <3>1 DEF Tracked
  <2> QED
    BY <2>2, <2>3 DEF Tracked
<1>9. Entries(n) \subseteq Entries(p)
  BY <1>4 DEF Entries
<1>10. Held(n) \subseteq Held(p)
  BY <1>5 DEF Held
<1>11. GoodPool(n)
  BY <1>2, <1>7, <1>8, <1>9, <1>10, NoMoreJobs
<1> QED
  BY <1>3, <1>11

\* The pool of a process that has just started.
LEMMA EmptyPool ==
    ASSUME NEW n, n = [jobs |-> [t \in Requests |-> None],
                       work |-> [t \in Requests |-> [k \in Slots |-> "free"]]]
    PROVE  GoodPool(n)
<1>1. /\ \A t \in Requests : n.jobs[t] = None
      /\ \A t \in Requests, k \in Slots : n.work[t][k] = "free"
  OBVIOUS
<1>2. PoolTyped(n)
  BY DEF PoolTyped, Steps
<1>3. \A t \in Requests : Tracked(n, t)
  BY <1>1 DEF Tracked, None, Slots
<1>4. Entries(n) = {} /\ Held(n) = {}
  BY <1>1 DEF Entries, Held, Holding
<1>5. Cardinality(Entries(n)) = 0 /\ Cardinality(Held(n)) = 0
  BY <1>4, FS_EmptySet
<1>6. Capacity \in Nat /\ MaxConcurrency \in Nat
  BY PoolSetsAreFinite
<1> QED
  BY <1>2, <1>3, <1>5, <1>6 DEF GoodPool

\* What a request, or the maintenance loop, makes of the pool.
LEMMA PoolBecomes ==
    ASSUME NEW q, GoodPool(q), PoolIs(q)
    PROVE  GoodPool(PoolNext)
<1>1. q = [jobs |-> q.jobs, work |-> q.work]
  BY DEF GoodPool, PoolTyped
<1>2. PoolNext = q
  BY <1>1 DEF PoolIs, PoolNext
<1> QED
  BY <1>2

LEMMA ReplyPool ==
    ASSUME GoodPool(Pool), NEW r \in Requests, NEW t \in Requests, Reply(r, t)
    PROVE  GoodPool(PoolNext)
<1>1. PICK p : p = Pool
  OBVIOUS
<1>2. GoodPool(Enqueue(p, t)) /\ GoodPool(p)
  BY <1>1, EnqueueKeeps
<1>3. PoolIs(Enqueue(p, t)) \/ PoolIs(p)
  BY <1>1 DEF Reply
<1> QED
  BY <1>2, <1>3, PoolBecomes
LEMMA StepCases ==
    ASSUME [Next]_vars
    PROVE  \/ \E r \in Requests : \/ LookUp(r) \/ Insert(r) \/ Inserted(r) \/ LookUpWinner(r)
                                  \/ CancelRow(r) \/ CancelJob(r) \/ ComesDue(r)
           \/ \E t \in Requests, k \in Slots :
                  Begin(t, k) \/ Finish(t, k) \/ JobFinished(t, k)
           \/ Poll \/ EnqueuePicked \/ Shutdown \/ Closed \/ Crash \/ Start
           \/ UNCHANGED vars
BY DEF Next, Request, Cancel, JobStep, Maintenance, BackOffEnds, Restart

LEMMA UnchangedPool ==
    ASSUME GoodPool(Pool), UNCHANGED poolVars
    PROVE  GoodPool(PoolNext)
BY DEF poolVars, Pool, PoolNext

LEMMA RequestPool ==
    ASSUME TypedRows, GoodPool(Pool), NEW r \in Requests,
           LookUp(r) \/ Insert(r) \/ Inserted(r) \/ LookUpWinner(r)
    PROVE  GoodPool(PoolNext)
<1>1. CASE UNCHANGED poolVars
  BY <1>1, UnchangedPool
<1>2. CASE \E t \in Requests : Reply(r, t)
  BY <1>2, ReplyPool
<1>3. CASE Inserted(r)
  <2>1. PICK p : p = Pool
    OBVIOUS
  <2>2. GoodPool(Enqueue(p, r)) /\ PoolIs(Enqueue(p, r))
    BY <1>3, <2>1, EnqueueKeeps DEF Inserted
  <2> QED
    BY <2>2, PoolBecomes
<1>4. WithKey(Key[r]) \subseteq Requests
  BY DEF WithKey
<1>5. CASE LookUp(r) \/ LookUpWinner(r)
  <2>1. \/ UNCHANGED poolVars
        \/ \E t \in WithKey(Key[r]) : Reply(r, t)
    BY <1>5 DEF LookUp, LookUpWinner, Repeat
  <2> QED
    BY <1>1, <1>2, <1>4, <2>1
<1>6. CASE Insert(r)
  BY <1>1, <1>6 DEF Insert
<1> QED
  BY <1>3, <1>5, <1>6

LEMMA PoolStep ==
    ASSUME TypedRows, GoodPool(Pool), [Next]_vars
    PROVE  GoodPool(Pool)'
<1>1. ASSUME NEW r \in Requests,
             LookUp(r) \/ Insert(r) \/ Inserted(r) \/ LookUpWinner(r)
      PROVE  GoodPool(PoolNext)
  BY <1>1, RequestPool
<1>2. ASSUME NEW t \in Requests, CancelJob(t) PROVE GoodPool(PoolNext)
  BY <1>2, CancelJobPool
<1>3. ASSUME NEW t \in Requests, NEW k \in Slots,
             Begin(t, k) \/ Finish(t, k) \/ JobFinished(t, k)
      PROVE  GoodPool(PoolNext)
  BY <1>3, BeginPool, FinishPool, JobFinishedPool
<1>4. CASE EnqueuePicked
  <2>1. PICK p : p = Pool
    OBVIOUS
  <2>2. PICK ids \in Seq(Requests) : ids = picked
    BY DEF TypedRows
  <2>3. GoodPool(EnqueueAll(p, ids)) /\ PoolIs(EnqueueAll(p, ids))
    BY <1>4, <2>1, <2>2, EnqueueAllKeeps DEF EnqueuePicked
  <2> QED
    BY <2>3, PoolBecomes DEF Pool, PoolNext
<1>5. CASE Shutdown
  BY <1>5, ShutdownPool DEF Pool, PoolNext
<1>6. CASE Closed \/ Crash
  <2>1. PoolNext = [jobs |-> [t \in Requests |-> None],
                    work |-> [t \in Requests |-> [k \in Slots |-> "free"]]]
    BY <1>6 DEF Closed, Crash, PoolNext
  <2>2. PICK n : n = PoolNext
    OBVIOUS
  <2>3. GoodPool(n)
    BY <2>1, <2>2, EmptyPool
  <2> QED
    BY <2>2, <2>3 DEF Pool, PoolNext
<1>7. CASE (\E r \in Requests : CancelRow(r) \/ ComesDue(r)) \/ Poll \/ Start \/ UNCHANGED vars
  <2>1. UNCHANGED poolVars
    BY <1>7 DEF CancelRow, ComesDue, Poll, Start, vars, poolVars
  <2> QED
    BY <2>1 DEF Pool, poolVars
<1>8. PoolNext = [jobs |-> jobs, work |-> work]'
  BY DEF PoolNext
<1> QED
  BY <1>1, <1>2, <1>3, <1>4, <1>5, <1>6, <1>7, <1>8, StepCases DEF Pool

-----------------------------------------------------------------------------
(* Rows.                                                                   *)

LEMMA PrefixType ==
    ASSUME NEW S, NEW q \in Seq(S), NEW m \in Nat, m <= Len(q)
    PROVE  SubSeq(q, 1, m) \in Seq(S)
OBVIOUS

LEMMA RequestRows ==
    ASSUME TypedRows, NEW r \in Requests,
           LookUp(r) \/ Insert(r) \/ Inserted(r) \/ LookUpWinner(r)
    PROVE  TypedRows'
<1>1. CASE Insert(r)
  <2>1. queue' \in Seq(Requests)
    <3>1. queue' = Append(queue, r) \/ queue' = queue
      BY <1>1 DEF Insert
    <3>2. queue \in Seq(Requests) /\ Append(queue, r) \in Seq(Requests)
      BY DEF TypedRows
    <3> QED
      BY <3>1, <3>2
  <2>2. /\ req' \in [Requests -> {"new", "missed", "inserted", "conflict", "answered",
                                  "refused", "failed", "lost"}]
        /\ status' \in [Requests -> {"absent", "queued", "running", "ended", "cancelled"}]
    BY <1>1 DEF Insert, TypedRows
  <2> QED
    BY <1>1, <2>1, <2>2 DEF Insert, TypedRows
<1>2. CASE Inserted(r)
  BY <1>2 DEF Inserted, TypedRows, rowVars
<1>3. CASE LookUp(r) \/ LookUpWinner(r)
  <2>1. WithKey(Key[r]) \subseteq Requests
    BY DEF WithKey
  <2>2. \/ UNCHANGED answer
        \/ \E t \in Requests : answer' = [answer EXCEPT ![r] = t]
    BY <1>3, <2>1 DEF LookUp, LookUpWinner, Repeat, Reply
  <2>3. \E to \in {"missed", "answered", "refused", "failed"} : req' = [req EXCEPT ![r] = to]
    BY <1>3 DEF LookUp, LookUpWinner, Repeat, Reply
  <2>4. /\ answer' \in [Requests -> Requests \cup {None}]
        /\ req' \in [Requests -> {"new", "missed", "inserted", "conflict", "answered",
                                  "refused", "failed", "lost"}]
    BY <2>2, <2>3 DEF TypedRows
  <2>5. UNCHANGED <<legacy, status, attempts, queue, cancels, process, asked, stops, picked>>
    BY <1>3 DEF LookUp, LookUpWinner, rowVars
  <2> QED
    BY <2>4, <2>5 DEF TypedRows
<1> QED
  BY <1>1, <1>2, <1>3
LEMMA JobRows ==
    ASSUME TypedRows, NEW t \in Requests, NEW k \in Slots,
           Begin(t, k) \/ Finish(t, k) \/ JobFinished(t, k)
    PROVE  TypedRows'
<1>1. UNCHANGED <<legacy, req, answer, cancels, process, asked, stops, picked>>
  BY DEF Begin, Finish, JobFinished, Settle
<1>2. queue' \in Seq(Requests)
  <2>1. RemoveFirst(queue, t) \in Seq(Requests)
    BY RemoveFirstType DEF TypedRows
  <2>2. queue' = RemoveFirst(queue, t) \/ queue' = queue
    BY DEF Begin, Finish, JobFinished, Leave, Settle, rowVars
  <2> QED
    BY <2>1, <2>2 DEF TypedRows
<1>3. status' \in [Requests -> {"absent", "queued", "running", "ended", "cancelled"}]
  <2>1. \/ status' = status
        \/ \E to \in {"queued", "running", "ended"} : status' = [status EXCEPT ![t] = to]
    BY DEF Begin, Finish, JobFinished, Leave, Settle, rowVars
  <2> QED
    BY <2>1 DEF TypedRows
<1>4. attempts' \in [Requests -> Nat] /\ \A x \in Requests : attempts'[x] <= MaxAttempts[x]
  <2>1. \/ attempts' = attempts
        \/ attempts[t] < MaxAttempts[t] /\ attempts' = [attempts EXCEPT ![t] = @ + 1]
    BY DEF Begin, Finish, JobFinished, Settle, rowVars
  <2>2. attempts[t] \in Nat /\ MaxAttempts[t] \in Nat
    BY PoolParameters DEF TypedRows
  <2>3. CASE attempts' = attempts
    BY <2>3 DEF TypedRows
  <2>4. CASE attempts[t] < MaxAttempts[t] /\ attempts' = [attempts EXCEPT ![t] = @ + 1]
    <3>1. attempts[t] + 1 \in Nat /\ attempts[t] + 1 <= MaxAttempts[t]
      BY <2>2, <2>4
    <3> QED
      BY <2>4, <3>1 DEF TypedRows
  <2> QED
    BY <2>1, <2>3, <2>4
<1> QED
  BY <1>1, <1>2, <1>3, <1>4 DEF TypedRows

LEMMA PollRows ==
    ASSUME TypedRows, Poll
    PROVE  TypedRows'
<1>1. PICK again \in SUBSET Requests : queue' = queue \o SetToSeq(again)
  BY DEF Poll
<1>2. queue' \in Seq(Requests)
  <2>1. IsFiniteSet(again)
    BY PoolParameters, FS_Subset
  <2>2. SetToSeq(again) \in Seq(again)
    BY <2>1, SetToSeqType
  <2>3. SetToSeq(again) \in Seq(Requests)
    BY <2>2
  <2> QED
    BY <1>1, <2>3 DEF TypedRows
<1>3. picked' \in Seq(Requests)
  <2>1. PICK q \in Seq(Requests) : q = queue'
    BY <1>2
  <2>2. picked' = SubSeq(q, 1, IF Len(q) > Capacity THEN Capacity ELSE Len(q))
    BY <2>1 DEF Poll, Selected
  <2>3. Capacity \in Nat
    BY PoolSetsAreFinite
  <2>4. PICK m \in Nat : m = (IF Len(q) > Capacity THEN Capacity ELSE Len(q)) /\ m <= Len(q)
    BY <2>3
  <2>5. SubSeq(q, 1, m) \in Seq(Requests)
    BY <2>4, PrefixType
  <2> QED
    BY <2>2, <2>4, <2>5
<1>4. status' \in [Requests -> {"absent", "queued", "running", "ended", "cancelled"}]
  BY DEF Poll, TypedRows
<1> QED
  BY <1>2, <1>3, <1>4 DEF TypedRows, Poll

LEMMA RowStep ==
    ASSUME TypedRows, [Next]_vars
    PROVE  TypedRows'
<1>1. ASSUME NEW r \in Requests, CancelRow(r) PROVE TypedRows'
  <2>1. RemoveFirst(queue, r) \in Seq(Requests)
    BY RemoveFirstType DEF TypedRows
  <2>2. asked' \in 0..MaxCancels
    BY <1>1, PoolParameters DEF CancelRow, TypedRows
  <2> QED
    BY <1>1, <2>1, <2>2 DEF CancelRow, TypedRows
<1>2. ASSUME NEW r \in Requests, CancelJob(r) PROVE TypedRows'
  BY <1>2 DEF CancelJob, TypedRows, rowVars
<1>3. ASSUME NEW r \in Requests, ComesDue(r) PROVE TypedRows'
  BY <1>3 DEF ComesDue, TypedRows
<1>4. CASE EnqueuePicked
  BY <1>4 DEF EnqueuePicked, TypedRows, rowVars
<1>5. ASSUME Shutdown \/ Crash PROVE stops' \in 0..MaxStops
  BY <1>5, PoolParameters DEF Shutdown, Crash, TypedRows
<1>6. CASE Shutdown
  BY <1>5, <1>6 DEF Shutdown, TypedRows, rowVars
<1>7. CASE Crash
  <2>1. req' \in [Requests -> {"new", "missed", "inserted", "conflict", "answered",
                              "refused", "failed", "lost"}]
    BY <1>7 DEF Crash, TypedRows
  <2> QED
    BY <1>5, <1>7, <2>1 DEF Crash, TypedRows, rowVars
<1>8. CASE Closed
  BY <1>8 DEF Closed, TypedRows, rowVars
<1>9. CASE Start
  BY <1>9 DEF Start, TypedRows, rowVars
<1>10. CASE UNCHANGED vars
  BY <1>10 DEF vars, TypedRows, rowVars
<1> QED
  BY <1>1, <1>2, <1>3, <1>4, <1>6, <1>7, <1>8, <1>9, <1>10, RequestRows, JobRows, PollRows,
     StepCases

-----------------------------------------------------------------------------
(* Keys.                                                                   *)

\* What there is stays there, and what has been said stays true.
LEMMA SaidStays ==
    ASSUME NEW r \in Requests, Said(r), req'[r] = req[r], answer'[r] = answer[r],
           legacy' = legacy,
           \A t \in Requests : status[t] # "absent" => status'[t] # "absent"
    PROVE  Said(r)'
<1>1. req[r] = "answered" => Answered(r)'
  BY DEF Said, Answered, SameRequest
<1>2. req[r] = "refused" => (\E t \in WithKey(Key[r]) : ~SameRequest(t, r))'
  BY DEF Said, WithKey, SameRequest
<1> QED
  BY <1>1, <1>2 DEF Said

LEMMA NoNewRow ==
    ASSUME OneRow, \A t \in Requests : status'[t] # "absent" => status[t] # "absent"
    PROVE  OneRow'
BY DEF OneRow

\* The request is answered with a row of its key, or refused because of it.
LEMMA RepeatSays ==
    ASSUME TypedRows, KeyInv, NEW r \in Requests, Repeat(r), UNCHANGED <<legacy, status>>
    PROVE  KeyInv'
<1>1. OneRow'
  BY NoNewRow DEF KeyInv
<1>2. PICK t \in WithKey(Key[r]) :
         \/ SameRequest(t, r) /\ Reply(r, t)
         \/ /\ ~SameRequest(t, r)
            /\ req' = [req EXCEPT ![r] = "refused"] /\ UNCHANGED answer
  BY DEF Repeat
<1>3. t \in Requests /\ Key[t] = Key[r] /\ Key[r] # NoKey /\ status[t] # "absent"
  BY DEF WithKey
<1>4. Said(r)'
  <2>1. CASE SameRequest(t, r) /\ Reply(r, t)
    <3>1. req'[r] = "answered" /\ answer'[r] = t
      BY <2>1 DEF Reply, TypedRows
    <3>2. Answered(r)'
      BY <1>3, <2>1, <3>1 DEF Answered, SameRequest
    <3> QED
      BY <3>1, <3>2 DEF Said
  <2>2. CASE ~SameRequest(t, r) /\ req' = [req EXCEPT ![r] = "refused"]
    <3>1. req'[r] = "refused"
      BY <2>2 DEF TypedRows
    <3>2. (\E x \in WithKey(Key[r]) : ~SameRequest(x, r))'
      BY <1>3, <2>2 DEF WithKey, SameRequest
    <3> QED
      BY <3>1, <3>2 DEF Said
  <2> QED
    BY <1>2, <2>1, <2>2
<1>5. ASSUME NEW s \in Requests, s # r PROVE Said(s)'
  <2>1. req'[s] = req[s] /\ answer'[s] = answer[s]
    BY <1>2, <1>5 DEF Reply, TypedRows
  <2> QED
    BY <2>1, SaidStays DEF KeyInv
<1> QED
  BY <1>1, <1>4, <1>5 DEF KeyInv
\* Nothing is said, and no row is added.
LEMMA NothingSaid ==
    ASSUME KeyInv, UNCHANGED <<legacy, answer>>,
           \A t \in Requests : status'[t] = "absent" <=> status[t] = "absent",
           \A r \in Requests : \/ req'[r] = req[r]
                              \/ req'[r] \in {"missed", "conflict", "failed", "lost"}
    PROVE  KeyInv'
<1>1. OneRow'
  BY NoNewRow DEF KeyInv
<1>2. ASSUME NEW r \in Requests PROVE Said(r)'
  <2>1. CASE req'[r] = req[r]
    BY <2>1, SaidStays DEF KeyInv
  <2>2. CASE req'[r] \in {"missed", "conflict", "failed", "lost"}
    BY <2>2 DEF Said
  <2> QED
    BY <2>1, <2>2
<1> QED
  BY <1>1, <1>2 DEF KeyInv

LEMMA InsertSays ==
    ASSUME TypedRows, KeyInv, NEW r \in Requests, Insert(r)
    PROVE  KeyInv'
<1>1. CASE req' = [req EXCEPT ![r] = "conflict"] /\ UNCHANGED status
  <2>1. \A s \in Requests : req'[s] = req[s] \/ req'[s] = "conflict"
    BY <1>1 DEF TypedRows
  <2> QED
    BY <1>1, <2>1, NothingSaid DEF Insert
<1>2. CASE /\ WithKey(Key[r]) = {} /\ req' = [req EXCEPT ![r] = "inserted"]
           /\ status' = [status EXCEPT ![r] = "queued"]
  <2>1. /\ req'[r] = "inserted" /\ status'[r] = "queued"
        /\ \A s \in Requests : s # r => req'[s] = req[s] /\ status'[s] = status[s]
    BY <1>2 DEF TypedRows
  <2>2. OneRow'
    <3>1. \A s \in Requests :
             status[s] # "absent" /\ Key[s] = Key[r] /\ Key[r] # NoKey => FALSE
      BY <1>2 DEF WithKey
    <3> QED
      BY <2>1, <3>1 DEF KeyInv, OneRow
  <2>3. Said(r)'
    BY <2>1 DEF Said
  <2>4. ASSUME NEW s \in Requests, s # r PROVE Said(s)'
    <3>1. \A t \in Requests : status[t] # "absent" => status'[t] # "absent"
      BY <2>1
    <3>2. req'[s] = req[s] /\ answer'[s] = answer[s] /\ legacy' = legacy
      BY <2>1, <2>4 DEF Insert
    <3> QED
      BY <3>1, <3>2, SaidStays DEF KeyInv
  <2> QED
    BY <2>2, <2>3, <2>4 DEF KeyInv
<1> QED
  BY <1>1, <1>2 DEF Insert

LEMMA InsertedSays ==
    ASSUME TypedRows, KeyInv, NEW r \in Requests, Inserted(r)
    PROVE  KeyInv'
<1>1. status[r] # "absent"
  BY DEF KeyInv, Said, Inserted
<1>2. /\ legacy' = legacy /\ status' = status
      /\ req' = [req EXCEPT ![r] = "answered"] /\ answer' = [answer EXCEPT ![r] = r]
  BY DEF Inserted, rowVars
<1>3. /\ req'[r] = "answered" /\ answer'[r] = r
      /\ \A s \in Requests : s # r => req'[s] = req[s] /\ answer'[s] = answer[s]
  BY <1>2 DEF TypedRows
<1>4. OneRow'
  BY <1>2, NoNewRow DEF KeyInv
<1>5. Said(r)'
  <2>1. Answered(r)'
    BY <1>1, <1>2, <1>3 DEF Answered, SameRequest
  <2> QED
    BY <1>3, <2>1 DEF Said
<1>6. ASSUME NEW s \in Requests, s # r PROVE Said(s)'
  BY <1>2, <1>3, <1>6, SaidStays DEF KeyInv
<1> QED
  BY <1>4, <1>5, <1>6 DEF KeyInv

LEMMA LookedUpSays ==
    ASSUME TypedRows, KeyInv, NEW r \in Requests, LookUp(r) \/ LookUpWinner(r)
    PROVE  KeyInv'
<1>1. UNCHANGED <<legacy, status>>
  BY DEF LookUp, LookUpWinner, rowVars
<1>2. CASE Repeat(r)
  BY <1>1, <1>2, RepeatSays
<1>3. CASE /\ UNCHANGED answer
           /\ \E to \in {"missed", "failed"} : req' = [req EXCEPT ![r] = to]
  <2>1. \A s \in Requests : req'[s] = req[s] \/ req'[s] \in {"missed", "failed"}
    BY <1>3 DEF TypedRows
  <2> QED
    BY <1>1, <1>3, <2>1, NothingSaid
<1> QED
  BY <1>2, <1>3 DEF LookUp, LookUpWinner

LEMMA KeyStep ==
    ASSUME TypedRows, KeyInv, [Next]_vars
    PROVE  KeyInv'
<1>1. ASSUME UNCHANGED <<legacy, answer, req>>,
             \A t \in Requests : status'[t] = "absent" <=> status[t] = "absent"
      PROVE  KeyInv'
  BY <1>1, NothingSaid
<1>2. ASSUME NEW r \in Requests, CancelRow(r) PROVE KeyInv'
  <2>1. \A t \in Requests : status'[t] = "absent" <=> status[t] = "absent"
    BY <1>2 DEF CancelRow, TypedRows
  <2> QED
    BY <1>1, <1>2, <2>1 DEF CancelRow
<1>3. ASSUME NEW t \in Requests, NEW k \in Slots,
             Begin(t, k) \/ Finish(t, k) \/ JobFinished(t, k)
      PROVE  KeyInv'
  <2>1. \/ status' = status
        \/ /\ status[t] \in {"queued", "running"}
           /\ \E to \in {"queued", "running", "ended"} : status' = [status EXCEPT ![t] = to]
    BY <1>3 DEF Begin, Finish, JobFinished, Leave, Settle, rowVars
  <2>2. \A x \in Requests : status'[x] = "absent" <=> status[x] = "absent"
    BY <2>1 DEF TypedRows
  <2> QED
    BY <1>1, <1>3, <2>2 DEF Begin, Finish, JobFinished, Settle
<1>4. CASE Poll
  <2>1. PICK lapsed \in SUBSET {t \in Requests : status[t] = "running"},
             again \in SUBSET Requests :
          /\ again \subseteq lapsed
          /\ status' = [t \in Requests |-> IF t \in again THEN "queued"
                         ELSE IF t \in lapsed \ again THEN "ended" ELSE status[t]]
    BY <1>4 DEF Poll
  <2>2. \A t \in Requests : status'[t] = "absent" <=> status[t] = "absent"
    BY <2>1
  <2> QED
    BY <1>1, <1>4, <2>2 DEF Poll
<1>5. CASE Crash
  <2>1. \A r \in Requests : req'[r] = req[r] \/ req'[r] = "lost"
    BY <1>5 DEF Crash
  <2> QED
    BY <1>5, <2>1, NothingSaid DEF Crash, rowVars
<1>6. CASE \/ \E r \in Requests : CancelJob(r) \/ ComesDue(r)
           \/ EnqueuePicked \/ Shutdown \/ Closed \/ Start \/ UNCHANGED vars
  <2>1. UNCHANGED <<legacy, answer, req, status>>
    BY <1>6 DEF CancelJob, ComesDue, EnqueuePicked, Shutdown, Closed, Start, vars, rowVars
  <2> QED
    BY <1>1, <2>1
<1> QED
  BY <1>2, <1>3, <1>4, <1>5, <1>6, InsertSays, InsertedSays, LookedUpSays, StepCases

-----------------------------------------------------------------------------
(* Theorems.                                                               *)

LEMMA PoolInit ==
    ASSUME Init
    PROVE  PoolInv
<1>1. PICK c \in Scenarios : legacy = c.legacy
                /\ req = [r \in Requests |-> IF r \in c.sent THEN "new" ELSE "lost"]
  BY DEF Init
<1>2. /\ legacy \subseteq Requests
      /\ \A r, s \in legacy : r # s /\ Key[r] # NoKey => Key[r] # Key[s]
  BY <1>1, PoolParameters
<1>3. TypedRows
  <2>1. queue \in Seq(Requests)
    <3>1. IsFiniteSet(legacy)
      BY <1>2, PoolParameters, FS_Subset
    <3>2. SetToSeq(legacy) \in Seq(legacy)
      BY <3>1, SetToSeqType
    <3>3. queue = SetToSeq(legacy)
      BY DEF Init
    <3> QED
      BY <1>2, <3>2, <3>3
  <2>2. /\ asked \in 0..MaxCancels /\ stops \in 0..MaxStops
        /\ attempts \in [Requests -> Nat] /\ \A t \in Requests : attempts[t] <= MaxAttempts[t]
    BY PoolParameters DEF Init
  <2> QED
    BY <1>1, <1>2, <2>1, <2>2 DEF Init, TypedRows
<1>4. GoodPool(Pool)
  <2>1. PICK n : n = Pool
    OBVIOUS
  <2>2. GoodPool(n)
    BY <2>1, EmptyPool DEF Init, Pool
  <2> QED
    BY <2>1, <2>2
<1>5. \A r \in Requests : /\ req[r] \in {"new", "lost"}
                          /\ status[r] # "absent" => r \in legacy
  BY <1>1 DEF Init
<1>6. KeyInv
  BY <1>2, <1>5 DEF KeyInv, OneRow, Said
<1> QED
  BY <1>3, <1>4, <1>6 DEF PoolInv

LEMMA PoolAlways == Spec => []PoolInv
<1>1. Init => PoolInv
  BY PoolInit
<1>2. PoolInv /\ [Next]_vars => PoolInv'
  BY RowStep, PoolStep, KeyStep DEF PoolInv
<1> QED
  BY <1>1, <1>2, PTL DEF Spec

\* A job that can still run is the entry of its id, where cancel and shutdown find
\* it, whatever comes between a job's end and its callback; the entries and the
\* running jobs stay within their limits.
THEOREM JobsAreTracked == Spec => []PoolKeepsTrack
<1>1. PoolInv => PoolKeepsTrack
  <2> SUFFICES ASSUME PoolInv PROVE PoolKeepsTrack
    OBVIOUS
  <2>1. PICK p : p = Pool
    OBVIOUS
  <2>2. /\ GoodPool(p) /\ PoolTyped(p) /\ p.jobs = jobs /\ p.work = work
    BY <2>1 DEF PoolInv, GoodPool, Pool
  <2>3. TypeOK
    BY <2>2 DEF PoolInv, TypedRows, TypeOK, PoolTyped, Steps
  <2>4. \A t \in Requests, k \in Slots : work[t][k] \in Live => jobs[t] = k
    BY <2>2, LiveIsEntry
  <2>5. /\ Cardinality(Entries(Pool)) <= Capacity
        /\ Cardinality({j \in Requests \X Slots : work[j[1]][j[2]] \in Holding}) <= MaxConcurrency
    BY <2>1, <2>2 DEF GoodPool, Held
  <2> QED
    BY <2>3, <2>4, <2>5 DEF PoolKeepsTrack
<1> QED
  BY <1>1, PoolAlways, PTL

\* However the requests with one key interleave, one row is created; who asks for
\* the same thing is answered with it, and nobody else.
THEOREM KeysAreKept == Spec => []KeyHasOneTask
<1>1. PoolInv => KeyHasOneTask
  <2> SUFFICES ASSUME PoolInv PROVE KeyHasOneTask
    OBVIOUS
  <2>0. OneRow /\ \A r \in Requests : Said(r)
    BY DEF PoolInv, KeyInv
  <2>1. ASSUME NEW r \in Requests, Key[r] # NoKey PROVE Cardinality(WithKey(Key[r])) <= 1
    <3>1. CASE WithKey(Key[r]) = {}
      <4>1. Cardinality(WithKey(Key[r])) = 0
        BY <3>1, FS_EmptySet
      <4> QED
        BY <4>1
    <3>2. CASE WithKey(Key[r]) # {}
      <4>1. PICK t \in WithKey(Key[r]) : TRUE
        BY <3>2
      <4>2. WithKey(Key[r]) = {t}
        BY <2>0, <4>1 DEF WithKey, OneRow
      <4>3. Cardinality(WithKey(Key[r])) = 1
        BY <4>2, FS_Singleton
      <4> QED
        BY <4>3
    <3> QED
      BY <3>1, <3>2
  <2>2. ASSUME NEW r \in Requests, req[r] = "refused", NEW t \in WithKey(Key[r])
        PROVE  ~SameRequest(t, r)
    <3>1. PICK x \in WithKey(Key[r]) : ~SameRequest(x, r)
      BY <2>0, <2>2 DEF Said
    <3>2. x = t
      BY <2>0, <2>2, <3>1 DEF WithKey, OneRow
    <3> QED
      BY <3>1, <3>2
  <2>3. ASSUME NEW r \in Requests, req[r] = "answered"
        PROVE  SameRequest(answer[r], r) /\ (Key[r] = NoKey => answer[r] = r)
    BY <2>0, <2>3 DEF Said, Answered
  <2>4. ASSUME NEW r \in Requests, NEW s \in Requests, req[r] = "answered", req[s] = "answered",
               Key[r] = Key[s], Key[r] # NoKey
        PROVE  answer[r] = answer[s]
    BY <2>0, <2>4 DEF Said, Answered, OneRow
  <2> QED
    BY <2>1, <2>2, <2>3, <2>4 DEF KeyHasOneTask
<1> QED
  BY <1>1, PoolAlways, PTL
=============================================================================
