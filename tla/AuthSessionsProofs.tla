------------------------- MODULE AuthSessionsProofs -------------------------
(***************************************************************************)
(* Theorems about AuthSessions, for any users, sign-ins, requests, limits  *)
(* and number of threads.                                                  *)
(***************************************************************************)
EXTENDS AuthSessions, FiniteSetTheorems, WellFoundedInduction, TLAPS

Places == {"new", "admitted", "queued", "hashing", "checked", "locked",
           "counted", "in", "refused"}
Hashes == {"none", "legacy", "strong"}
Visiting ==
    [step : {"new"}] \cup
    [step : {"seen", "inside", "locked", "gone"}, session : SignIns]

\* TypeOK, and the types of the variables it leaves out.
Typed ==
    /\ TypeOK
    /\ read \in [SignIns -> SUBSET (SignIns \cup Hashes)]
    /\ visit \in [Visits -> Visiting]
    /\ passed \in [Buckets -> Nat]

\* Who is past the lock on a user's row holds it, and its transaction has begun.
InTransaction(c) == pc[c] \in {"locked", "counted"}
Locks ==
    /\ \A c \in SignIns : InTransaction(c) => lock[NameOf[c]] = c /\ c \in Range(begun)
    /\ \A v \in Visits : visit[v].step = "locked" => lock[NameOf[visit[v].session]] = v

\* Under the lock no session is added: those a log-in has counted are all there are.
Counts ==
    /\ there \subseteq Range(begun)
    /\ \A c \in SignIns : pc[c] = "counted" =>
          /\ Active(NameOf[c]) \subseteq read[c]
          /\ read[c] \subseteq SignIns /\ read[c] \subseteq Range(begun)

SessionCap == \A n \in Names : Cardinality(Active(n)) <= MaxSessions

\* Whoever is admitted has been counted, in the window that is open.
Limit(b) == IF b = "ip" THEN IpLimit ELSE AccountLimit
Admissions ==
    \A b \in Buckets : /\ b \in fresh => passed[b] <= count[b]
                       /\ passed[b] <= Limit(b)

Hashing == {c \in SignIns : pc[c] = "hashing"}
Threads == Cardinality(Hashing) <= Workers

AuthInv == Typed /\ Locks /\ Counts /\ SessionCap /\ Admissions /\ Threads
-----------------------------------------------------------------------------
(* Sets and sequences.                                                     *)

\* A set of natural numbers that is not empty has a least element.
LEMMA LeastNumber ==
    ASSUME NEW S \in SUBSET Nat, S # {}
    PROVE  \E x \in S : \A y \in S : x <= y
<1>1. PICK x \in S : \A y \in S : ~(<<y, x>> \in OpToRel(<, Nat))
  BY WFMin, NatLessThanWellFounded
<1>2. ASSUME NEW y \in S PROVE x <= y
  <2>1. <<y, x>> \in Nat \X Nat /\ ~(<<y, x>> \in {ss \in Nat \X Nat : ss[1] < ss[2]})
    BY <1>1, Zenon DEF OpToRel
  <2> QED
    BY <2>1
<1> QED
  BY <1>2

LEMMA AppendRange ==
    ASSUME NEW S, NEW q \in Seq(S), NEW x \in S
    PROVE  Append(q, x) \in Seq(S) /\ Range(Append(q, x)) = Range(q) \cup {x}
<1>1. /\ Append(q, x) \in Seq(S) /\ Len(q) \in Nat
      /\ DOMAIN q = 1..Len(q) /\ DOMAIN Append(q, x) = 1..(Len(q) + 1)
      /\ \A i \in 1..Len(q) : Append(q, x)[i] = q[i]
      /\ Append(q, x)[Len(q) + 1] = x
  OBVIOUS
<1>2. ASSUME NEW y \in Range(q) PROVE y \in Range(Append(q, x))
  <2>1. PICK i \in 1..Len(q) : q[i] = y
    BY <1>1 DEF Range
  <2>2. i \in 1..(Len(q) + 1) /\ Append(q, x)[i] = y
    BY <1>1, <2>1
  <2> QED
    BY <1>1, <2>2 DEF Range
<1>3. x \in Range(Append(q, x))
  <2>1. Len(q) + 1 \in 1..(Len(q) + 1)
    BY <1>1
  <2> QED
    BY <1>1, <2>1 DEF Range
<1>4. ASSUME NEW y \in Range(Append(q, x)) PROVE y \in Range(q) \cup {x}
  <2>1. PICK i \in 1..(Len(q) + 1) : Append(q, x)[i] = y
    BY <1>1 DEF Range
  <2>2. CASE i = Len(q) + 1
    BY <1>1, <2>1, <2>2
  <2>3. CASE i # Len(q) + 1
    <3>1. i \in 1..Len(q) /\ q[i] = y
      BY <1>1, <2>1, <2>3
    <3> QED
      BY <1>1, <3>1 DEF Range
  <2> QED
    BY <2>2, <2>3
<1> QED
  BY <1>1, <1>2, <1>3, <1>4

\* One element more, at most.
LEMMA OneMore ==
    ASSUME NEW S, IsFiniteSet(S), NEW x, NEW T, T \subseteq S \cup {x}
    PROVE  /\ IsFiniteSet(T) /\ Cardinality(T) \in Nat /\ Cardinality(S) \in Nat
           /\ Cardinality(T) <= Cardinality(S) + 1
<1>1. /\ IsFiniteSet(S \cup {x})
      /\ Cardinality(S \cup {x}) = IF x \in S THEN Cardinality(S) ELSE Cardinality(S) + 1
  BY FS_AddElement
<1>2. IsFiniteSet(T) /\ Cardinality(T) <= Cardinality(S \cup {x})
  BY <1>1, FS_Subset
<1>3. Cardinality(T) \in Nat /\ Cardinality(S) \in Nat
  BY <1>2, FS_CardinalityType
<1> QED
  BY <1>1, <1>2, <1>3

LEMMA NoMore ==
    ASSUME NEW S, IsFiniteSet(S), NEW T, T \subseteq S
    PROVE  /\ IsFiniteSet(T) /\ Cardinality(T) \in Nat /\ Cardinality(S) \in Nat
           /\ Cardinality(T) <= Cardinality(S)
<1>1. IsFiniteSet(T) /\ Cardinality(T) <= Cardinality(S)
  BY FS_Subset
<1> QED
  BY <1>1, FS_CardinalityType

LEMMA SessionSetsAreFinite ==
    ASSUME NEW S, S \subseteq SignIns
    PROVE  IsFiniteSet(S) /\ Cardinality(S) \in Nat
BY AuthParameters, FS_Subset, FS_CardinalityType

LEMMA LimitsAreNumbers ==
    /\ MaxSessions \in Nat \ {0} /\ IpLimit \in Nat \ {0}
    /\ AccountLimit \in Nat \ {0} /\ Workers \in Nat \ {0}
BY AuthParameters

\* All but the newest sessions are in excess: what is left makes room for one.
LEMMA RoomForOne ==
    ASSUME NEW ids, ids \subseteq SignIns, ids \subseteq Range(begun), begun \in Seq(SignIns)
    PROVE  Cardinality(ids \ Excess(ids)) <= MaxSessions - 1
<1> DEFINE kept == ids \ Excess(ids)
           Pos == {Position(s) : s \in kept}
<1>0. /\ IsFiniteSet(ids) /\ Cardinality(ids) \in Nat
      /\ IsFiniteSet(kept) /\ Cardinality(kept) \in Nat /\ MaxSessions \in Nat \ {0}
  BY SessionSetsAreFinite, LimitsAreNumbers
<1>1. CASE Cardinality(ids) < MaxSessions
  <2>1. kept = ids
    BY <1>1 DEF Excess
  <2>2. Cardinality(kept) = Cardinality(ids)
    BY <2>1, Zenon
  <2>3. Cardinality(kept) <= MaxSessions - 1
    <3> HIDE DEF kept
    <3> QED
      BY <1>0, <1>1, <2>2
  <2> QED
    BY <2>3, Zenon
<1>2. CASE ~(Cardinality(ids) < MaxSessions)
  <2>1. \A s \in kept : ~(Cardinality(Newer(s, ids)) >= MaxSessions - 1)
    BY <1>2 DEF Excess
  <2>2. ASSUME NEW s \in ids PROVE Position(s) \in Nat /\ begun[Position(s)] = s
    <3>1. \E i \in DOMAIN begun : begun[i] = s
      BY DEF Range
    <3>2. Position(s) \in DOMAIN begun /\ begun[Position(s)] = s
      BY <3>1 DEF Position
    <3>3. DOMAIN begun \subseteq Nat
      OBVIOUS
    <3> QED
      BY <3>2, <3>3
  <2>3. CASE kept = {}
    <3>1. Cardinality(kept) = 0
      BY <2>3, FS_EmptySet
    <3> QED
      BY <1>0, <3>1
  <2>4. CASE kept # {}
    <3>1. Pos \in SUBSET Nat /\ Pos # {}
      BY <2>2, <2>4
    <3>2. PICK m \in Pos : \A y \in Pos : m <= y
      <4> HIDE DEF Pos
      <4> QED
        BY <3>1, LeastNumber
    <3>3. PICK s \in kept : Position(s) = m
      BY <3>2
    <3>4. kept \subseteq Newer(s, ids) \cup {s}
      <4> SUFFICES ASSUME NEW x \in kept, x # s PROVE x \in Newer(s, ids)
        OBVIOUS
      <4>1. Position(s) <= Position(x)
        BY <3>2, <3>3
      <4>2. Position(s) # Position(x)
        BY <2>2
      <4>3. Position(s) \in Nat /\ Position(x) \in Nat
        BY <2>2
      <4>4. Position(x) > Position(s)
        BY <4>1, <4>2, <4>3
      <4> QED
        BY <4>4 DEF Newer
    <3>5. Newer(s, ids) \subseteq SignIns
      BY DEF Newer
    <3>6. IsFiniteSet(Newer(s, ids))
      BY <3>5, SessionSetsAreFinite
    <3>7. /\ Cardinality(Newer(s, ids)) \in Nat
          /\ Cardinality(kept) <= Cardinality(Newer(s, ids)) + 1
      <4> HIDE DEF kept
      <4> QED
        BY <3>4, <3>6, OneMore
    <3>8. ~(Cardinality(Newer(s, ids)) >= MaxSessions - 1)
      BY <2>1, <3>3
    <3> QED
      BY <1>0, <3>7, <3>8
  <2> QED
    BY <2>3, <2>4
<1> QED
  BY <1>1, <1>2
-----------------------------------------------------------------------------
(* Types.                                                                  *)

LEMMA StepCases ==
    ASSUME [Next]_vars
    PROVE  \/ \E c \in SignIns :
                  \/ Admit(c) \/ ReadHash(c) \/ TakeWorker(c) \/ WorkDone(c) \/ BeginTransaction(c)
                  \/ LockUser(c) \/ CountSessions(c) \/ Grant(c) \/ Abandon(c)
                  \/ Logout(c) \/ Idles(c) \/ Expires(c)
           \/ \E v \in Visits :
                  Enter(v) \/ Touch(v) \/ LockForLogoutAll(v) \/ LogoutAll(v) \/ BreakOff(v)
           \/ \E b \in Buckets : WindowEnds(b)
           \/ UNCHANGED vars
BY DEF Next, SignIn, Visit

\* The session of a request that has looked one up.
LEMMA VisitTypes ==
    ASSUME visit \in [Visits -> Visiting], NEW v \in Visits, visit[v].step # "new"
    PROVE  visit[v].session \in SignIns
<1>1. visit[v] \in Visiting
  OBVIOUS
<1>2. CASE visit[v] \in [step : {"new"}]
  BY <1>2
<1>3. CASE visit[v] \in [step : {"seen", "inside", "locked", "gone"}, session : SignIns]
  BY <1>3
<1> QED
  BY <1>1, <1>2, <1>3 DEF Visiting

LEMMA SetVisitType ==
    ASSUME visit \in [Visits -> Visiting], NEW v \in Visits, NEW s \in SignIns,
           NEW step \in {"seen", "inside", "locked", "gone"}, SetVisit(v, step, s)
    PROVE  /\ visit' \in [Visits -> Visiting]
           /\ visit'[v].step = step /\ visit'[v].session = s
           /\ \A w \in Visits \ {v} : visit'[w] = visit[w]
<1>1. PICK r : r = [step |-> step, session |-> s]
  OBVIOUS
<1>2. r \in Visiting
  BY <1>1 DEF Visiting
<1>3. visit' = [visit EXCEPT ![v] = r]
  BY <1>1 DEF SetVisit
<1> QED
  BY <1>1, <1>2, <1>3

LEMMA AdmitTyped ==
    ASSUME Typed, NEW c \in SignIns, Admit(c)
    PROVE  Typed'
<1>1. pc' \in [SignIns -> Places]
  BY DEF Admit, Typed, TypeOK, Places
<1>2. ASSUME NEW b \in Buckets PROVE Counted(b) \in Nat
  BY DEF Counted, Typed, TypeOK
<1>3. count' \in [Buckets -> Nat]
  <2>1. PICK used : count' = [b \in Buckets |-> IF b \in used THEN Counted(b) ELSE count[b]]
    BY DEF Admit
  <2> QED
    BY <1>2, <2>1 DEF Typed, TypeOK
<1>4. passed' \in [Buckets -> Nat]
  <2>1. PICK F \in [Buckets -> BOOLEAN], G \in [Buckets -> BOOLEAN] :
           passed' = [b \in Buckets |-> (IF F[b] THEN 0 ELSE passed[b]) + (IF G[b] THEN 1 ELSE 0)]
    <3> DEFINE account == NameOf[c]
               limited == Over("ip", IpLimit) \/ Over(account, AccountLimit)
               used == IF Over("ip", IpLimit) THEN {"ip"} ELSE {"ip", account}
               F == [b \in Buckets |-> b \in used \ fresh]
               G == [b \in Buckets |-> b \in used /\ ~limited]
    <3>1. passed' = [b \in Buckets |->
                    (IF b \in used \ fresh THEN 0 ELSE passed[b])
                    + (IF b \in used /\ ~limited THEN 1 ELSE 0)]
      BY DEF Admit
    <3> HIDE DEF used, limited
    <3>2. passed' = [b \in Buckets |-> (IF F[b] THEN 0 ELSE passed[b]) + (IF G[b] THEN 1 ELSE 0)]
      BY <3>1
    <3>3. F \in [Buckets -> BOOLEAN] /\ G \in [Buckets -> BOOLEAN]
      OBVIOUS
    <3> HIDE DEF F, G
    <3> QED
      BY <3>2, <3>3
  <2>2. \A b \in Buckets : passed[b] \in Nat
    BY DEF Typed
  <2>3. ASSUME NEW b \in Buckets
        PROVE  (IF F[b] THEN 0 ELSE passed[b]) + (IF G[b] THEN 1 ELSE 0) \in Nat
    BY <2>2
  <2> QED
    BY <2>1, <2>3
<1>5. fresh' \subseteq Buckets
  <2>1. {"ip", NameOf[c]} \subseteq Buckets
    BY AuthParameters DEF Buckets
  <2>2. fresh' \subseteq fresh \cup {"ip", NameOf[c]}
    BY DEF Admit
  <2> QED
    BY <2>1, <2>2 DEF Typed, TypeOK
<1>6. UNCHANGED <<read, hash, lock, begun, there, revoked, expired, idle, visit, windows, ended>>
  BY DEF Admit, sessions
<1> QED
  BY <1>1, <1>3, <1>4, <1>5, <1>6 DEF Typed, TypeOK, Places

LEMMA SignInTyped ==
    ASSUME Typed, Counts, NEW c \in SignIns,
           \/ ReadHash(c) \/ TakeWorker(c) \/ WorkDone(c) \/ BeginTransaction(c)
           \/ LockUser(c) \/ CountSessions(c) \/ Grant(c) \/ Abandon(c)
    PROVE  Typed'
<1>1. \E place \in Places : pc' = [pc EXCEPT ![c] = place]
  BY DEF ReadHash, TakeWorker, WorkDone, BeginTransaction, LockUser, CountSessions, Grant,
         Abandon, Goto, Places, Typed, TypeOK
<1>2. pc' \in [SignIns -> Places]
  BY <1>1 DEF Typed, TypeOK, Places
<1>3. NameOf[c] \in Names
  BY AuthParameters
<1>4. lock' \in [Names -> {None} \cup SignIns \cup Visits]
  <2>1. \/ lock' = lock \/ lock' = [lock EXCEPT ![NameOf[c]] = c]
        \/ lock' = [lock EXCEPT ![NameOf[c]] = None]
        \/ lock' = [n \in Names |-> IF lock[n] = c THEN None ELSE lock[n]]
    BY DEF ReadHash, TakeWorker, WorkDone, BeginTransaction, LockUser, CountSessions, Grant,
           Abandon
  <2> QED
    BY <1>3, <2>1 DEF Typed, TypeOK
<1>5. hash' \in [Names -> Hashes]
  <2>1. hash' = hash \/ hash' = [hash EXCEPT ![NameOf[c]] = "strong"]
    BY DEF ReadHash, TakeWorker, WorkDone, BeginTransaction, LockUser, CountSessions, Grant,
           Abandon
  <2> QED
    BY <2>1 DEF Typed, TypeOK, Hashes
<1>6. read' \in [SignIns -> SUBSET (SignIns \cup Hashes)]
  <2>1. hash[NameOf[c]] \in Hashes /\ Active(NameOf[c]) \subseteq SignIns
    BY <1>3 DEF Typed, TypeOK, Hashes, Active, Of
  <2>2. \/ read' = read \/ read' = [read EXCEPT ![c] = {hash[NameOf[c]]}]
        \/ read' = [read EXCEPT ![c] = {}] \/ read' = [read EXCEPT ![c] = Active(NameOf[c])]
    BY DEF ReadHash, TakeWorker, WorkDone, BeginTransaction, LockUser, CountSessions, Grant,
           Abandon
  <2> QED
    BY <2>1, <2>2 DEF Typed
<1>7. begun' \in Seq(SignIns)
  <2>1. begun' = begun \/ begun' = Append(begun, c)
    BY DEF ReadHash, TakeWorker, WorkDone, BeginTransaction, LockUser, CountSessions, Grant,
           Abandon
  <2>2. begun \in Seq(SignIns)
    BY DEF Typed, TypeOK
  <2>3. Append(begun, c) \in Seq(SignIns)
    BY <2>2, AppendRange
  <2> QED
    BY <2>1, <2>2, <2>3
<1>8. there' \subseteq SignIns /\ revoked' \subseteq SignIns
  <2>1. CASE Grant(c)
    <3>1. there' \subseteq there \cup {c} /\ revoked' = revoked \cup Excess(read[c])
      BY <2>1 DEF Grant
    <3>2. read[c] \subseteq SignIns
      BY <2>1 DEF Grant, Counts
    <3>3. Excess(read[c]) \subseteq SignIns
      BY <3>2 DEF Excess
    <3> QED
      BY <3>1, <3>3 DEF Typed, TypeOK
  <2>2. CASE ~Grant(c)
    <3>1. there' = there /\ revoked' = revoked
      BY <2>2 DEF ReadHash, TakeWorker, WorkDone, BeginTransaction, LockUser, CountSessions,
                  Abandon, sessions
    <3> QED
      BY <3>1 DEF Typed, TypeOK
  <2> QED
    BY <2>1, <2>2
<1>9. UNCHANGED <<expired, idle, visit, count, fresh, windows, passed, ended>>
  BY DEF ReadHash, TakeWorker, WorkDone, BeginTransaction, LockUser, CountSessions, Grant,
         Abandon, sessions, limits
<1> QED
  BY <1>2, <1>4, <1>5, <1>6, <1>7, <1>8, <1>9 DEF Typed, TypeOK, Places, Hashes
LEMMA VisitTyped ==
    ASSUME Typed, NEW v \in Visits,
           Enter(v) \/ Touch(v) \/ LockForLogoutAll(v) \/ LogoutAll(v) \/ BreakOff(v)
    PROVE  Typed'
<1>1. ASSUME NEW w \in Visits, visit[w].step # "new"
      PROVE  visit[w].session \in SignIns /\ NameOf[visit[w].session] \in Names
  BY <1>1, VisitTypes, AuthParameters DEF Typed
<1>2. PICK step \in {"seen", "inside", "locked", "gone"}, s \in SignIns : SetVisit(v, step, s)
  <2>1. CASE Enter(v)
    BY <2>1 DEF Enter, Typed, TypeOK
  <2>2. CASE ~Enter(v)
    <3>1. visit[v].session \in SignIns
      BY <1>1, <2>2 DEF Touch, LockForLogoutAll, LogoutAll, BreakOff
    <3> QED
      BY <2>2, <3>1 DEF Touch, LockForLogoutAll, LogoutAll, BreakOff
  <2> QED
    BY <2>1, <2>2
<1>3. visit' \in [Visits -> Visiting]
  BY <1>2, SetVisitType DEF Typed
<1>4. lock' \in [Names -> {None} \cup SignIns \cup Visits]
  <2>1. \/ lock' = lock
        \/ lock' = [lock EXCEPT ![NameOf[visit[v].session]] = v]
        \/ lock' = [lock EXCEPT ![NameOf[visit[v].session]] = None]
        \/ lock' = [n \in Names |-> IF lock[n] = v THEN None ELSE lock[n]]
    BY DEF Enter, Touch, LockForLogoutAll, LogoutAll, BreakOff, signIn
  <2> QED
    BY <2>1 DEF Typed, TypeOK
<1>5. revoked' \subseteq SignIns /\ idle' \subseteq SignIns /\ ended' \subseteq SignIns
  <2>1. \A n \in Names : Of(n) \subseteq SignIns
    BY DEF Of, Typed, TypeOK
  <2>2. CASE LogoutAll(v)
    <3>1. \/ revoked' = revoked
          \/ revoked' = revoked \cup Of(NameOf[visit[v].session])
      BY <2>2 DEF LogoutAll
    <3>2. Of(NameOf[visit[v].session]) \subseteq SignIns
      BY DEF Of, Typed, TypeOK
    <3> QED
      BY <2>2, <3>1, <3>2 DEF LogoutAll, Typed, TypeOK
  <2>3. CASE ~LogoutAll(v)
    <3>1. revoked' = revoked /\ idle' \subseteq idle /\ ended' = ended
      BY <2>3 DEF Enter, Touch, TouchRow, LockForLogoutAll, BreakOff, sessions
    <3> QED
      BY <3>1 DEF Typed, TypeOK
  <2> QED
    BY <2>2, <2>3
<1>6. UNCHANGED <<pc, read, hash, begun, there, expired, count, fresh, windows, passed>>
  BY DEF Enter, Touch, LockForLogoutAll, LogoutAll, BreakOff, signIn, sessions, limits
<1> QED
  BY <1>3, <1>4, <1>5, <1>6 DEF Typed, TypeOK

LEMMA TypedNext ==
    ASSUME Typed, Counts, [Next]_vars
    PROVE  Typed'
<1>1. ASSUME NEW s \in SignIns, Logout(s) \/ Idles(s) \/ Expires(s) PROVE Typed'
  BY <1>1 DEF Logout, Idles, Expires, Typed, TypeOK, signIn, limits
<1>2. ASSUME NEW b \in Buckets, WindowEnds(b) PROVE Typed'
  <2>1. windows' \in 0..MaxWindows
    BY <1>2, AuthParameters DEF WindowEnds, Typed, TypeOK
  <2> QED
    BY <1>2, <2>1 DEF WindowEnds, Typed, TypeOK, signIn, sessions
<1>3. CASE UNCHANGED vars
  BY <1>3 DEF vars, signIn, sessions, limits, Typed, TypeOK
<1> QED
  BY <1>1, <1>2, <1>3, AdmitTyped, SignInTyped, VisitTyped, StepCases
-----------------------------------------------------------------------------
(* The lock on a user's row.                                               *)

\* Whoever holds a lock keeps it, and nobody joins them.
LEMMA LocksStay ==
    ASSUME Locks, Range(begun) \subseteq Range(begun'),
           \A c \in SignIns : InTransaction(c)' =>
               InTransaction(c) /\ lock'[NameOf[c]] = lock[NameOf[c]],
           \A v \in Visits : visit'[v].step = "locked" =>
               /\ visit[v].step = "locked" /\ visit'[v].session = visit[v].session
               /\ lock'[NameOf[visit[v].session]] = lock[NameOf[visit[v].session]]
    PROVE  Locks'
<1>1. ASSUME NEW c \in SignIns, InTransaction(c)'
      PROVE  lock'[NameOf[c]] = c /\ c \in Range(begun')
  BY <1>1 DEF Locks
<1>2. ASSUME NEW v \in Visits, visit'[v].step = "locked"
      PROVE  lock'[NameOf[visit'[v].session]] = v
  BY <1>2 DEF Locks
<1> QED
  BY <1>1, <1>2 DEF Locks, InTransaction

\* The row of the name of a session.
LEMMA NamesOfSessions ==
    ASSUME Typed
    PROVE  /\ \A c \in SignIns : NameOf[c] \in Names
           /\ \A v \in Visits : visit[v].step = "locked" =>
                 visit[v].session \in SignIns /\ NameOf[visit[v].session] \in Names
           /\ \A v \in Visits : v \notin SignIns /\ v # None
           /\ \A c \in SignIns : c # None
BY AuthParameters, VisitTypes DEF Typed

LEMMA OutsideLocks ==
    ASSUME Typed, Locks, NEW c \in SignIns,
           \E place \in Places \ {"locked", "counted"} : pc' = [pc EXCEPT ![c] = place],
           UNCHANGED <<lock, begun, visit>>
    PROVE  Locks'
<1>1. \A d \in SignIns : InTransaction(d)' => InTransaction(d)
  BY DEF InTransaction, Typed, TypeOK
<1> QED
  BY <1>1, LocksStay

LEMMA SignInLocks ==
    ASSUME Typed, Locks, NEW c \in SignIns,
           \/ Admit(c) \/ ReadHash(c) \/ TakeWorker(c) \/ WorkDone(c) \/ BeginTransaction(c)
           \/ LockUser(c) \/ CountSessions(c) \/ Grant(c) \/ Abandon(c)
    PROVE  Locks'
<1>0. NameOf[c] \in Names /\ c # None
  BY NamesOfSessions
<1>1. CASE Admit(c) \/ ReadHash(c) \/ TakeWorker(c) \/ WorkDone(c)
  <2>1. \E place \in Places \ {"locked", "counted"} : pc' = [pc EXCEPT ![c] = place]
    BY <1>1 DEF Admit, ReadHash, TakeWorker, WorkDone, Goto, Places
  <2>2. UNCHANGED <<lock, begun, visit>>
    BY <1>1 DEF Admit, ReadHash, TakeWorker, WorkDone
  <2> QED
    BY <2>1, <2>2, OutsideLocks
<1>2. CASE BeginTransaction(c)
  <2>1. begun \in Seq(SignIns) /\ begun' = Append(begun, c) /\ UNCHANGED <<pc, lock, visit>>
    BY <1>2 DEF BeginTransaction, Typed, TypeOK
  <2>2. Range(begun) \subseteq Range(begun')
    BY <2>1, AppendRange
  <2>3. \A d \in SignIns : InTransaction(d)' => InTransaction(d)
    BY <2>1 DEF InTransaction
  <2> QED
    BY <2>1, <2>2, <2>3, LocksStay
<1>3. CASE LockUser(c)
  <2>1. CASE pc' = [pc EXCEPT ![c] = "refused"] /\ UNCHANGED lock
    <3>1. "refused" \in Places \ {"locked", "counted"} /\ UNCHANGED <<lock, begun, visit>>
      BY <1>3, <2>1 DEF LockUser, Places
    <3> QED
      BY <2>1, <3>1, OutsideLocks
  <2>2. CASE pc' = [pc EXCEPT ![c] = "locked"] /\ lock' = [lock EXCEPT ![NameOf[c]] = c]
    <3>1. lock[NameOf[c]] = None /\ c \in Range(begun) /\ UNCHANGED <<begun, visit>>
      BY <1>3 DEF LockUser, MayLock
    <3>2. \A n \in Names : lock'[n] = IF n = NameOf[c] THEN c ELSE lock[n]
      BY <2>2 DEF Typed, TypeOK
    <3>3. ASSUME NEW d \in SignIns, InTransaction(d)'
          PROVE  lock'[NameOf[d]] = d /\ d \in Range(begun')
      <4>1. CASE d = c
        BY <1>0, <3>1, <3>2, <4>1
      <4>2. CASE d # c
        <5>1. InTransaction(d)
          BY <2>2, <3>3, <4>2 DEF InTransaction, Typed, TypeOK
        <5>2. lock[NameOf[d]] = d /\ d \in Range(begun) /\ d # None /\ NameOf[d] \in Names
          BY <5>1, NamesOfSessions DEF Locks
        <5> QED
          BY <3>1, <3>2, <5>2
      <4> QED
        BY <4>1, <4>2
    <3>4. ASSUME NEW v \in Visits, visit'[v].step = "locked"
          PROVE  lock'[NameOf[visit'[v].session]] = v
      <4>1. /\ visit[v].step = "locked" /\ lock[NameOf[visit[v].session]] = v /\ v # None
            /\ NameOf[visit[v].session] \in Names
        BY <3>1, <3>4, NamesOfSessions DEF Locks
      <4> QED
        BY <3>1, <3>2, <4>1
    <3> QED
      BY <3>3, <3>4 DEF Locks, InTransaction
  <2> QED
    BY <1>3, <2>1, <2>2 DEF LockUser, Goto
<1>4. CASE CountSessions(c)
  <2>1. InTransaction(c) /\ pc' = [pc EXCEPT ![c] = "counted"] /\ UNCHANGED <<lock, begun, visit>>
    BY <1>4 DEF CountSessions, Goto, InTransaction
  <2>2. \A d \in SignIns : InTransaction(d)' => InTransaction(d)
    BY <2>1 DEF InTransaction, Typed, TypeOK
  <2> QED
    BY <2>1, <2>2, LocksStay
<1>5. CASE Grant(c) \/ Abandon(c)
  <2>1. /\ \E place \in {"in", "refused"} : pc' = [pc EXCEPT ![c] = place]
        /\ UNCHANGED <<begun, visit>>
    BY <1>5 DEF Grant, Abandon, Goto
  <2>2. ASSUME NEW n \in Names, lock[n] # c PROVE lock'[n] = lock[n]
    <3>1. CASE Grant(c)
      <4>1. lock[NameOf[c]] = c /\ lock' = [lock EXCEPT ![NameOf[c]] = None]
        BY <3>1 DEF Grant, Locks, InTransaction
      <4> QED
        BY <2>2, <4>1 DEF Typed, TypeOK
    <3>2. CASE Abandon(c)
      BY <2>2, <3>2 DEF Abandon
    <3> QED
      BY <1>5, <3>1, <3>2
  <2>3. ASSUME NEW d \in SignIns, InTransaction(d)'
        PROVE  InTransaction(d) /\ lock'[NameOf[d]] = lock[NameOf[d]]
    <3>1. InTransaction(d) /\ d # c
      BY <2>1, <2>3 DEF InTransaction, Typed, TypeOK
    <3>2. lock[NameOf[d]] = d /\ NameOf[d] \in Names
      BY <3>1, NamesOfSessions DEF Locks
    <3> QED
      BY <2>2, <3>1, <3>2
  <2>4. ASSUME NEW v \in Visits, visit[v].step = "locked"
        PROVE  lock'[NameOf[visit[v].session]] = lock[NameOf[visit[v].session]]
    <3>1. /\ lock[NameOf[visit[v].session]] = v /\ v # c
          /\ NameOf[visit[v].session] \in Names
      BY <2>4, NamesOfSessions DEF Locks
    <3> QED
      BY <2>2, <3>1
  <2> QED
    BY <2>1, <2>3, <2>4, LocksStay
<1> QED
  BY <1>1, <1>2, <1>3, <1>4, <1>5
LEMMA VisitLocks ==
    ASSUME Typed, Locks, NEW v \in Visits,
           Enter(v) \/ Touch(v) \/ LockForLogoutAll(v) \/ LogoutAll(v) \/ BreakOff(v)
    PROVE  Locks'
<1>0. UNCHANGED <<pc, begun>>
  BY DEF Enter, Touch, LockForLogoutAll, LogoutAll, BreakOff, signIn
<1>1. CASE Enter(v) \/ Touch(v) \/ LogoutAll(v) \/ BreakOff(v)
  <2>1. PICK step \in {"seen", "inside", "gone"}, s \in SignIns : SetVisit(v, step, s)
    <3>1. CASE Enter(v)
      BY <3>1 DEF Enter, Typed, TypeOK
    <3>2. CASE ~Enter(v)
      <4>1. visit[v].session \in SignIns
        BY <1>1, <3>2, VisitTypes DEF Touch, LogoutAll, BreakOff, Typed
      <4> QED
        BY <1>1, <3>2, <4>1 DEF Touch, LogoutAll, BreakOff
    <3> QED
      BY <3>1, <3>2
  <2>2. visit'[v].step # "locked" /\ \A w \in Visits \ {v} : visit'[w] = visit[w]
    BY <2>1, SetVisitType DEF Typed
  <2>3. ASSUME NEW n \in Names, lock[n] # v PROVE lock'[n] = lock[n]
    <3>1. CASE LogoutAll(v)
      <4>1. /\ lock[NameOf[visit[v].session]] = v
            /\ lock' = [lock EXCEPT ![NameOf[visit[v].session]] = None]
        BY <3>1 DEF LogoutAll, Locks
      <4> QED
        BY <2>3, <4>1 DEF Typed, TypeOK
    <3>2. CASE BreakOff(v)
      BY <2>3, <3>2 DEF BreakOff
    <3>3. CASE Enter(v) \/ Touch(v)
      BY <3>3 DEF Enter, Touch, signIn
    <3> QED
      BY <1>1, <3>1, <3>2, <3>3
  <2>4. ASSUME NEW c \in SignIns, InTransaction(c)'
        PROVE  InTransaction(c) /\ lock'[NameOf[c]] = lock[NameOf[c]]
    <3>1. InTransaction(c)
      BY <1>0, <2>4 DEF InTransaction
    <3>2. lock[NameOf[c]] = c /\ NameOf[c] \in Names /\ c # v
      BY <3>1, NamesOfSessions DEF Locks
    <3> QED
      BY <2>3, <3>1, <3>2
  <2>5. ASSUME NEW w \in Visits, visit'[w].step = "locked"
        PROVE  /\ visit[w].step = "locked" /\ visit'[w].session = visit[w].session
               /\ lock'[NameOf[visit[w].session]] = lock[NameOf[visit[w].session]]
    <3>1. w # v /\ visit'[w] = visit[w]
      BY <2>2, <2>5
    <3>2. /\ visit[w].step = "locked" /\ lock[NameOf[visit[w].session]] = w
          /\ NameOf[visit[w].session] \in Names
      BY <2>5, <3>1, NamesOfSessions DEF Locks
    <3> QED
      BY <2>3, <3>1, <3>2
  <2> QED
    BY <1>0, <2>4, <2>5, LocksStay
<1>2. CASE LockForLogoutAll(v)
  <2>1. PICK s \in SignIns : s = visit[v].session
    BY <1>2, VisitTypes DEF LockForLogoutAll, Typed
  <2>2. /\ lock[NameOf[s]] = None /\ lock' = [lock EXCEPT ![NameOf[s]] = v]
        /\ SetVisit(v, "locked", s)
    BY <1>2, <2>1 DEF LockForLogoutAll
  <2>3. /\ visit'[v].session = s /\ \A w \in Visits \ {v} : visit'[w] = visit[w]
    BY <2>2, SetVisitType DEF Typed
  <2>4. NameOf[s] \in Names /\ \A n \in Names : lock'[n] = IF n = NameOf[s] THEN v ELSE lock[n]
    BY <2>2, NamesOfSessions DEF Typed, TypeOK
  <2>5. ASSUME NEW c \in SignIns, InTransaction(c)'
        PROVE  lock'[NameOf[c]] = c /\ c \in Range(begun')
    <3>1. InTransaction(c)
      BY <1>0, <2>5 DEF InTransaction
    <3>2. lock[NameOf[c]] = c /\ c \in Range(begun) /\ NameOf[c] \in Names /\ c # None
      BY <3>1, NamesOfSessions DEF Locks
    <3> QED
      BY <1>0, <2>2, <2>4, <3>2
  <2>6. ASSUME NEW w \in Visits, visit'[w].step = "locked"
        PROVE  lock'[NameOf[visit'[w].session]] = w
    <3>1. CASE w = v
      BY <2>3, <2>4, <3>1
    <3>2. CASE w # v
      <4>1. visit'[w] = visit[w]
        BY <2>3, <3>2
      <4>2. /\ lock[NameOf[visit[w].session]] = w /\ w # None
            /\ NameOf[visit[w].session] \in Names
        BY <2>6, <4>1, NamesOfSessions DEF Locks
      <4> QED
        BY <2>2, <2>4, <4>1, <4>2
    <3> QED
      BY <3>1, <3>2
  <2> QED
    BY <2>5, <2>6 DEF Locks, InTransaction
<1> QED
  BY <1>1, <1>2

LEMMA LocksNext ==
    ASSUME Typed, Locks, [Next]_vars
    PROVE  Locks'
<1>1. CASE \/ \E s \in SignIns : Logout(s) \/ Idles(s) \/ Expires(s)
           \/ \E b \in Buckets : WindowEnds(b)
           \/ UNCHANGED vars
  <2>1. UNCHANGED <<pc, lock, begun, visit>>
    BY <1>1 DEF Logout, Idles, Expires, WindowEnds, vars, signIn
  <2> QED
    BY <2>1 DEF Locks, InTransaction
<1> QED
  BY <1>1, SignInLocks, VisitLocks, StepCases

-----------------------------------------------------------------------------
(* The cap on the sessions of a user.                                      *)

\* Sessions become fewer, and nobody has counted them just now.
LEMMA CountsStay ==
    ASSUME Counts, there' \subseteq there, revoked \subseteq revoked', expired \subseteq expired',
           Range(begun) \subseteq Range(begun'),
           \A c \in SignIns : pc'[c] = "counted" => pc[c] = "counted" /\ read'[c] = read[c]
    PROVE  Counts'
<1>1. \A n : Active(n)' \subseteq Active(n)
  BY DEF Active, Of
<1>2. there' \subseteq Range(begun')
  BY DEF Counts
<1>3. ASSUME NEW c \in SignIns, pc'[c] = "counted"
      PROVE  /\ Active(NameOf[c])' \subseteq read'[c]
             /\ read'[c] \subseteq SignIns /\ read'[c] \subseteq Range(begun')
  BY <1>1, <1>3 DEF Counts
<1> QED
  BY <1>2, <1>3 DEF Counts

LEMMA CapStays ==
    ASSUME Typed, SessionCap,
           there' \subseteq there, revoked \subseteq revoked', expired \subseteq expired'
    PROVE  SessionCap'
<1> SUFFICES ASSUME NEW n \in Names PROVE Cardinality(Active(n)') <= MaxSessions
  BY DEF SessionCap
<1>1. PICK A \in SUBSET SignIns : A = Active(n)
  BY DEF Active, Of, Typed, TypeOK
<1>2. PICK B : B = Active(n)'
  OBVIOUS
<1>3. B \subseteq A
  BY <1>1, <1>2 DEF Active, Of
<1>4. IsFiniteSet(A)
  BY SessionSetsAreFinite
<1>5. /\ Cardinality(A) \in Nat /\ Cardinality(B) \in Nat
      /\ Cardinality(B) <= Cardinality(A)
  BY <1>3, <1>4, NoMore
<1>6. Cardinality(A) <= MaxSessions
  BY <1>1 DEF SessionCap
<1> QED
  BY <1>2, <1>5, <1>6, LimitsAreNumbers
\* Only a log-in or a registration adds a session, and none comes back.
LEMMA SessionsGo ==
    ASSUME [Next]_vars, \A c \in SignIns : ~Grant(c)
    PROVE  there' = there /\ revoked \subseteq revoked' /\ expired \subseteq expired'
<1>1. CASE \E c \in SignIns :
              \/ Admit(c) \/ ReadHash(c) \/ TakeWorker(c) \/ WorkDone(c) \/ BeginTransaction(c)
              \/ LockUser(c) \/ CountSessions(c) \/ Abandon(c)
  BY <1>1 DEF Admit, ReadHash, TakeWorker, WorkDone, BeginTransaction, LockUser, CountSessions,
              Abandon, sessions
<1>2. CASE \E s \in SignIns : Logout(s) \/ Idles(s) \/ Expires(s)
  BY <1>2 DEF Logout, Idles, Expires
<1>3. CASE \E v \in Visits :
              Enter(v) \/ Touch(v) \/ LockForLogoutAll(v) \/ LogoutAll(v) \/ BreakOff(v)
  BY <1>3 DEF Enter, Touch, TouchRow, LockForLogoutAll, LogoutAll, BreakOff, sessions
<1>4. CASE (\E b \in Buckets : WindowEnds(b)) \/ UNCHANGED vars
  BY <1>4 DEF WindowEnds, vars, sessions
<1> QED
  BY <1>1, <1>2, <1>3, <1>4, StepCases

\* Who counts the sessions of a user, and who has counted them.
LEMMA CountingSteps ==
    ASSUME Typed, [Next]_vars, \A c \in SignIns : ~Grant(c) /\ ~CountSessions(c)
    PROVE  /\ Range(begun) \subseteq Range(begun')
           /\ \A d \in SignIns : pc'[d] = "counted" => pc[d] = "counted" /\ read'[d] = read[d]
<1>1. ASSUME NEW c \in SignIns,
             Admit(c) \/ TakeWorker(c) \/ WorkDone(c) \/ LockUser(c) \/ Abandon(c) \/ ReadHash(c)
      PROVE  /\ begun' = begun
             /\ \A d \in SignIns : pc'[d] = "counted" => pc[d] = "counted" /\ read'[d] = read[d]
  <2>1. \E place \in Places \ {"counted"} : pc' = [pc EXCEPT ![c] = place]
    BY <1>1 DEF Admit, ReadHash, TakeWorker, WorkDone, LockUser, Abandon, Goto, Places
  <2>2. \A d \in SignIns : pc'[d] = "counted" => d # c /\ pc[d] = "counted"
    BY <2>1 DEF Typed, TypeOK
  <2>3. \A d \in SignIns \ {c} : read'[d] = read[d]
    BY <1>1 DEF Admit, ReadHash, TakeWorker, WorkDone, LockUser, Abandon, Typed
  <2> QED
    BY <1>1, <2>2, <2>3 DEF Admit, ReadHash, TakeWorker, WorkDone, LockUser, Abandon
<1>2. ASSUME NEW c \in SignIns, BeginTransaction(c)
      PROVE  Range(begun) \subseteq Range(begun') /\ UNCHANGED <<pc, read>>
  <2>1. begun \in Seq(SignIns) /\ begun' = Append(begun, c)
    BY <1>2 DEF BeginTransaction, Typed, TypeOK
  <2>2. Range(begun) \subseteq Range(begun')
    BY <2>1, AppendRange
  <2> QED
    BY <1>2, <2>2 DEF BeginTransaction
<1>3. CASE \/ \E s \in SignIns : Logout(s) \/ Idles(s) \/ Expires(s)
           \/ \E v \in Visits :
                  Enter(v) \/ Touch(v) \/ LockForLogoutAll(v) \/ LogoutAll(v) \/ BreakOff(v)
           \/ \E b \in Buckets : WindowEnds(b)
           \/ UNCHANGED vars
  <2>1. UNCHANGED <<pc, read, begun>>
    BY <1>3 DEF Logout, Idles, Expires, Enter, Touch, LockForLogoutAll, LogoutAll, BreakOff,
                WindowEnds, vars, signIn
  <2> QED
    BY <2>1
<1> QED
  BY <1>1, <1>2, <1>3, StepCases

\* A log-in that has counted the sessions replaces the oldest by its own.
LEMMA GrantSessions ==
    ASSUME Typed, Locks, Counts, SessionCap, NEW c \in SignIns, Grant(c)
    PROVE  Counts' /\ SessionCap'
<1>1. PICK n \in Names : n = NameOf[c]
  BY AuthParameters
<1>2. PICK ids \in SUBSET SignIns : ids = read[c]
  BY DEF Grant, Counts
<1>3. /\ Active(n) \subseteq ids /\ ids \subseteq Range(begun) /\ c \in Range(begun)
      /\ lock[n] = c
  BY <1>1, <1>2 DEF Grant, Counts, Locks, InTransaction
<1>4. /\ there' \subseteq there \cup {c} /\ revoked' = revoked \cup Excess(ids)
      /\ UNCHANGED <<read, begun, expired>> /\ pc' = [pc EXCEPT ![c] = "in"]
  BY <1>2 DEF Grant, Goto
<1>5. ASSUME NEW d \in SignIns, pc'[d] = "counted"
      PROVE  /\ Active(NameOf[d])' \subseteq read'[d]
             /\ read'[d] \subseteq SignIns /\ read'[d] \subseteq Range(begun')
  <2>1. d # c /\ pc[d] = "counted"
    BY <1>4, <1>5 DEF Typed, TypeOK
  <2>2. NameOf[d] # n
    BY <1>3, <2>1 DEF Locks, InTransaction
  <2>3. Active(NameOf[d])' \subseteq Active(NameOf[d])
    BY <1>1, <1>4, <2>2 DEF Active, Of
  <2> QED
    BY <1>4, <2>1, <2>3 DEF Counts
<1>6. Counts'
  BY <1>3, <1>4, <1>5 DEF Counts
<1>7. ASSUME NEW m \in Names PROVE Cardinality(Active(m)') <= MaxSessions
  <2>1. CASE m = n
    <3>1. PICK kept : kept = ids \ Excess(ids)
      OBVIOUS
    <3>2. kept \subseteq SignIns /\ IsFiniteSet(kept)
      BY <3>1, SessionSetsAreFinite
    <3>3. Cardinality(kept) <= MaxSessions - 1
      <4>1. begun \in Seq(SignIns)
        BY DEF Typed, TypeOK
      <4> QED
        BY <1>3, <3>1, <4>1, RoomForOne
    <3>4. PICK B : B = Active(m)'
      OBVIOUS
    <3>5. B \subseteq kept \cup {c}
      BY <1>3, <1>4, <2>1, <3>1, <3>4 DEF Active, Of
    <3>6. /\ Cardinality(B) \in Nat /\ Cardinality(kept) \in Nat
          /\ Cardinality(B) <= Cardinality(kept) + 1
      BY <3>2, <3>5, OneMore
    <3> QED
      BY <3>3, <3>4, <3>6, LimitsAreNumbers
  <2>2. CASE m # n
    <3>1. PICK A \in SUBSET SignIns : A = Active(m)
      BY DEF Active, Of, Typed, TypeOK
    <3>2. PICK B : B = Active(m)'
      OBVIOUS
    <3>3. B \subseteq A
      BY <1>1, <1>4, <2>2, <3>1, <3>2 DEF Active, Of
    <3>4. IsFiniteSet(A)
      BY SessionSetsAreFinite
    <3>5. /\ Cardinality(A) \in Nat /\ Cardinality(B) \in Nat
          /\ Cardinality(B) <= Cardinality(A)
      BY <3>3, <3>4, NoMore
    <3>6. Cardinality(A) <= MaxSessions
      BY <3>1 DEF SessionCap
    <3> QED
      BY <3>2, <3>5, <3>6, LimitsAreNumbers
  <2> QED
    BY <2>1, <2>2
<1> QED
  BY <1>6, <1>7 DEF SessionCap

LEMMA CountedSessions ==
    ASSUME Typed, Locks, Counts, NEW c \in SignIns, CountSessions(c)
    PROVE  Counts'
<1>1. /\ read' = [read EXCEPT ![c] = Active(NameOf[c])] /\ pc' = [pc EXCEPT ![c] = "counted"]
      /\ UNCHANGED <<begun, there, revoked, expired>>
  BY DEF CountSessions, Goto, sessions
<1>2. \A n : Active(n)' = Active(n)
  BY <1>1 DEF Active, Of
<1>3. ASSUME NEW d \in SignIns, pc'[d] = "counted"
      PROVE  /\ Active(NameOf[d])' \subseteq read'[d]
             /\ read'[d] \subseteq SignIns /\ read'[d] \subseteq Range(begun')
  <2>1. CASE d = c
    <3>1. read'[c] = Active(NameOf[c])
      BY <1>1 DEF Typed
    <3>2. Active(NameOf[c]) \subseteq there /\ there \subseteq SignIns
      BY DEF Active, Of, Typed, TypeOK
    <3> QED
      BY <1>1, <1>2, <2>1, <3>1, <3>2 DEF Counts
  <2>2. CASE d # c
    <3>1. pc[d] = "counted" /\ read'[d] = read[d]
      BY <1>1, <1>3, <2>2 DEF Typed, TypeOK
    <3> QED
      BY <1>1, <1>2, <3>1 DEF Counts
  <2> QED
    BY <2>1, <2>2
<1> QED
  BY <1>1, <1>3 DEF Counts

LEMMA SessionsNext ==
    ASSUME Typed, Locks, Counts, SessionCap, [Next]_vars
    PROVE  Counts' /\ SessionCap'
<1>1. CASE \E c \in SignIns : Grant(c)
  BY <1>1, GrantSessions
<1>2. CASE \A c \in SignIns : ~Grant(c)
  <2>1. there' = there /\ revoked \subseteq revoked' /\ expired \subseteq expired'
    BY <1>2, SessionsGo
  <2>2. SessionCap'
    BY <2>1, CapStays
  <2>3. CASE \E c \in SignIns : CountSessions(c)
    BY <2>2, <2>3, CountedSessions
  <2>4. CASE \A c \in SignIns : ~CountSessions(c)
    <3>1. /\ Range(begun) \subseteq Range(begun')
          /\ \A d \in SignIns : pc'[d] = "counted" => pc[d] = "counted" /\ read'[d] = read[d]
      BY <1>2, <2>4, CountingSteps
    <3> QED
      BY <2>1, <2>2, <3>1, CountsStay
  <2> QED
    BY <2>3, <2>4
<1> QED
  BY <1>1, <1>2
-----------------------------------------------------------------------------
(* The limits of a window, and the threads.                                *)

LEMMA AdmitWithinLimits ==
    ASSUME Typed, Admissions, NEW c \in SignIns, Admit(c)
    PROVE  Admissions'
<1>1. PICK account \in Names : account = NameOf[c]
  BY AuthParameters
<1>2. PICK limited \in BOOLEAN : limited <=> Over("ip", IpLimit) \/ Over(account, AccountLimit)
  OBVIOUS
<1>3. PICK used : used = IF Over("ip", IpLimit) THEN {"ip"} ELSE {"ip", account}
  OBVIOUS
<1>4. ASSUME NEW b \in Buckets
      PROVE  /\ passed'[b] = (IF b \in used \ fresh THEN 0 ELSE passed[b])
                             + (IF b \in used /\ ~limited THEN 1 ELSE 0)
             /\ count'[b] = IF b \in used THEN Counted(b) ELSE count[b]
             /\ b \in fresh' <=> b \in fresh \/ b \in used
  BY <1>1, <1>2, <1>3 DEF Admit
<1>5. ASSUME NEW b \in Buckets
      PROVE  /\ passed[b] \in Nat /\ count[b] \in Nat
             /\ b \in fresh => passed[b] <= count[b]
             /\ Counted(b) = IF b \in fresh THEN count[b] + 1 ELSE 1
  BY DEF Typed, TypeOK, Admissions, Counted
<1>6. ASSUME NEW b \in Buckets, b \in used, ~limited
      PROVE  Counted(b) <= Limit(b)
  <2>1. ~Over("ip", IpLimit) /\ ~Over(account, AccountLimit)
    BY <1>2, <1>6
  <2>2. b \in {"ip", account} /\ account # "ip"
    BY <1>3, <1>6, AuthParameters
  <2>3. Counted(b) \in Nat
    BY <1>5
  <2> QED
    BY <2>1, <2>2, <2>3, LimitsAreNumbers DEF Over, Limit
<1>7. ASSUME NEW b \in Buckets
      PROVE  (b \in fresh' => passed'[b] <= count'[b]) /\ passed'[b] <= Limit(b)
  <2>1. passed[b] <= Limit(b) /\ Limit(b) \in Nat
    BY LimitsAreNumbers DEF Admissions, Limit
  <2>2. CASE b \notin used
    <3>1. passed'[b] = passed[b] /\ count'[b] = count[b] /\ (b \in fresh' => b \in fresh)
      BY <1>4, <1>5, <2>2
    <3> QED
      BY <1>5, <2>1, <3>1
  <2>3. CASE b \in used
    <3>1. /\ count'[b] = (IF b \in fresh THEN count[b] + 1 ELSE 1)
          /\ passed'[b] = (IF b \in fresh THEN passed[b] ELSE 0) + (IF ~limited THEN 1 ELSE 0)
      BY <1>4, <1>5, <2>3
    <3>2. passed'[b] <= count'[b]
      BY <1>5, <3>1
    <3>3. CASE limited
      <4>1. passed'[b] \in {0, passed[b]}
        BY <1>5, <3>1, <3>3
      <4> QED
        BY <2>1, <3>2, <4>1
    <3>4. CASE ~limited
      <4>1. count'[b] <= Limit(b) /\ count'[b] \in Nat /\ passed'[b] \in Nat
        BY <1>4, <1>5, <1>6, <2>3, <3>1, <3>4
      <4> QED
        BY <2>1, <3>2, <4>1
    <3> QED
      BY <3>3, <3>4
  <2> QED
    BY <2>2, <2>3
<1> QED
  BY <1>7 DEF Admissions, Limit

LEMMA AdmissionsNext ==
    ASSUME Typed, Admissions, [Next]_vars
    PROVE  Admissions'
<1>1. ASSUME UNCHANGED <<count, passed>>, fresh' \subseteq fresh PROVE Admissions'
  BY <1>1 DEF Admissions, Limit
<1>2. CASE \E b \in Buckets : WindowEnds(b)
  BY <1>1, <1>2 DEF WindowEnds
<1>3. CASE \E c \in SignIns :
              \/ ReadHash(c) \/ TakeWorker(c) \/ WorkDone(c) \/ BeginTransaction(c)
              \/ LockUser(c) \/ CountSessions(c) \/ Grant(c) \/ Abandon(c)
              \/ Logout(c) \/ Idles(c) \/ Expires(c)
  <2>1. UNCHANGED limits
    BY <1>3 DEF ReadHash, TakeWorker, WorkDone, BeginTransaction, LockUser, CountSessions, Grant,
                Abandon, Logout, Idles, Expires
  <2> QED
    BY <1>1, <2>1 DEF limits
<1>4. CASE \E v \in Visits :
              Enter(v) \/ Touch(v) \/ LockForLogoutAll(v) \/ LogoutAll(v) \/ BreakOff(v)
  <2>1. UNCHANGED limits
    BY <1>4 DEF Enter, Touch, LockForLogoutAll, LogoutAll, BreakOff
  <2> QED
    BY <1>1, <2>1 DEF limits
<1>5. CASE UNCHANGED vars
  BY <1>1, <1>5 DEF vars, limits
<1> QED
  BY <1>2, <1>3, <1>4, <1>5, AdmitWithinLimits, StepCases

\* A thread is taken when one is free; nothing else begins password work.
LEMMA ThreadsNext ==
    ASSUME Typed, Threads, [Next]_vars
    PROVE  Threads'
<1>1. PICK A \in SUBSET SignIns : A = Hashing
  BY DEF Hashing
<1>2. PICK B : B = Hashing'
  OBVIOUS
<1>3. IsFiniteSet(A) /\ Cardinality(A) <= Workers /\ Workers \in Nat
  BY <1>1, SessionSetsAreFinite, LimitsAreNumbers DEF Threads
<1>4. ASSUME NEW c \in SignIns, TakeWorker(c) PROVE Cardinality(B) <= Workers
  <2>1. Cardinality(A) < Workers
    BY <1>1, <1>4 DEF TakeWorker, Hashing
  <2>2. B \subseteq A \cup {c}
    BY <1>1, <1>2, <1>4 DEF TakeWorker, Goto, Hashing, Typed, TypeOK
  <2>3. /\ Cardinality(A) \in Nat /\ Cardinality(B) \in Nat
        /\ Cardinality(B) <= Cardinality(A) + 1
    BY <1>3, <2>2, OneMore
  <2> QED
    BY <1>3, <2>1, <2>3
<1>5. ASSUME B \subseteq A PROVE Cardinality(B) <= Workers
  <2>1. /\ Cardinality(A) \in Nat /\ Cardinality(B) \in Nat
        /\ Cardinality(B) <= Cardinality(A)
    BY <1>3, <1>5, NoMore
  <2> QED
    BY <1>3, <2>1
<1>6. ASSUME NEW c \in SignIns, NEW place \in Places \ {"hashing"},
             pc' = pc \/ pc' = [pc EXCEPT ![c] = place]
      PROVE  B \subseteq A
  BY <1>1, <1>2, <1>6 DEF Hashing, Typed, TypeOK
<1>7. CASE \E c \in SignIns :
              \/ Admit(c) \/ ReadHash(c) \/ WorkDone(c) \/ BeginTransaction(c)
              \/ LockUser(c) \/ CountSessions(c) \/ Grant(c) \/ Abandon(c)
  <2>1. PICK c \in SignIns, place \in Places \ {"hashing"} :
           pc' = pc \/ pc' = [pc EXCEPT ![c] = place]
    BY <1>7 DEF Admit, ReadHash, WorkDone, BeginTransaction, LockUser, CountSessions, Grant,
                Abandon, Goto, Places
  <2> QED
    BY <1>2, <1>5, <1>6, <2>1 DEF Threads
<1>8. CASE \/ \E s \in SignIns : Logout(s) \/ Idles(s) \/ Expires(s)
           \/ \E v \in Visits :
                  Enter(v) \/ Touch(v) \/ LockForLogoutAll(v) \/ LogoutAll(v) \/ BreakOff(v)
           \/ \E b \in Buckets : WindowEnds(b)
           \/ UNCHANGED vars
  <2>1. pc' = pc
    BY <1>8 DEF Logout, Idles, Expires, Enter, Touch, LockForLogoutAll, LogoutAll, BreakOff,
                WindowEnds, vars, signIn
  <2>2. B \subseteq A
    BY <1>1, <1>2, <2>1 DEF Hashing
  <2> QED
    BY <1>2, <1>5, <2>2 DEF Threads
<1> QED
  BY <1>2, <1>4, <1>7, <1>8, StepCases DEF Threads

-----------------------------------------------------------------------------
(* Theorems.                                                               *)

LEMMA AuthInit ==
    ASSUME Init
    PROVE  AuthInv
<1>1. Typed
  <2>1. visit \in [Visits -> Visiting]
    BY DEF Init, Visiting
  <2>2. 0 \in 0..MaxWindows /\ <<>> \in Seq(SignIns)
    BY AuthParameters
  <2> QED
    BY <2>1, <2>2 DEF Init, Typed, TypeOK, Hashes
<1>2. \A c \in SignIns : pc[c] = "new"
  BY DEF Init
<1>3. Locks /\ Counts
  BY <1>2 DEF Init, Locks, Counts, InTransaction
<1>4. SessionCap
  <2>1. \A n \in Names : Active(n) = {}
    BY DEF Init, Active, Of
  <2>2. Cardinality({}) = 0
    BY FS_EmptySet
  <2>3. \A n \in Names : Cardinality(Active(n)) = 0
    BY <2>1, <2>2
  <2> QED
    BY <2>3, LimitsAreNumbers DEF SessionCap
<1>5. Admissions
  BY LimitsAreNumbers DEF Init, Admissions, Limit
<1>6. Threads
  <2>1. Hashing = {}
    BY <1>2 DEF Hashing
  <2>2. Cardinality(Hashing) = 0
    BY <2>1, FS_EmptySet
  <2> QED
    BY <2>2, LimitsAreNumbers DEF Threads
<1> QED
  BY <1>1, <1>3, <1>4, <1>5, <1>6 DEF AuthInv

LEMMA AuthAlways == Spec => []AuthInv
<1>1. Init => AuthInv
  BY AuthInit
<1>2. AuthInv /\ [Next]_vars => AuthInv'
  BY TypedNext, LocksNext, SessionsNext, AdmissionsNext, ThreadsNext DEF AuthInv
<1> QED
  BY <1>1, <1>2, PTL DEF Spec

\* However many log-ins of a user overlap, the user's row serialises them between
\* counting the sessions and adding one, so the cap holds; the limits of a window
\* and the threads for password work are kept as well.
THEOREM LimitsAreKept == Spec => []AuthWithinLimits
<1>1. AuthInv => AuthWithinLimits
  <2> SUFFICES ASSUME AuthInv PROVE AuthWithinLimits
    OBVIOUS
  <2>1. "ip" \in Buckets /\ Names \subseteq Buckets /\ \A n \in Names : n # "ip"
    BY AuthParameters DEF Buckets
  <2>2. passed["ip"] <= IpLimit /\ \A n \in Names : passed[n] <= AccountLimit
    BY <2>1 DEF AuthInv, Admissions, Limit
  <2> QED
    BY <2>2 DEF AuthInv, Typed, SessionCap, Threads, Hashing, AuthWithinLimits
<1> QED
  BY <1>1, AuthAlways, PTL

\* A session that was logged out, alone or with all others of its user, stays
\* revoked, also when a request that found it usable touches it afterwards.
THEOREM LogOutIsFinal == Spec => []LoggedOutStaysOut
<1> DEFINE Inv == ended \subseteq revoked
<1>1. Init => Inv
  BY DEF Init
<1>2. Inv /\ [Next]_vars => Inv'
  <2> SUFFICES ASSUME Inv, [Next]_vars PROVE Inv'
    OBVIOUS
  <2>1. revoked \subseteq revoked'
    BY SessionsGo DEF Grant
  <2>2. ended' = ended \/ ended' \ ended \subseteq revoked'
    <3>1. CASE \E c \in SignIns :
                  \/ Admit(c) \/ ReadHash(c) \/ TakeWorker(c) \/ WorkDone(c)
                  \/ BeginTransaction(c) \/ LockUser(c) \/ CountSessions(c) \/ Grant(c)
                  \/ Abandon(c) \/ Idles(c) \/ Expires(c)
      BY <3>1 DEF Admit, ReadHash, TakeWorker, WorkDone, BeginTransaction, LockUser,
                  CountSessions, Grant, Abandon, Idles, Expires
    <3>2. CASE \E s \in SignIns : Logout(s)
      BY <3>2 DEF Logout
    <3>3. CASE \E v \in Visits :
                  Enter(v) \/ Touch(v) \/ LockForLogoutAll(v) \/ LogoutAll(v) \/ BreakOff(v)
      BY <3>3 DEF Enter, Touch, LockForLogoutAll, LogoutAll, BreakOff
    <3>4. CASE (\E b \in Buckets : WindowEnds(b)) \/ UNCHANGED vars
      BY <3>4 DEF WindowEnds, vars
    <3> QED
      BY <3>1, <3>2, <3>3, <3>4, StepCases
  <2> QED
    BY <2>1, <2>2
<1>3. Inv => LoggedOutStaysOut
  BY DEF LoggedOutStaysOut, Usable
<1> QED
  BY <1>1, <1>2, <1>3, PTL DEF Spec
=============================================================================
