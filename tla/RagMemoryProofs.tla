-------------------------- MODULE RagMemoryProofs --------------------------
(***************************************************************************)
(* Theorems about the two halves of docs/rag-memory.md: the compaction of  *)
(* a conversation into its memory (MemoryCompaction), for conversations,   *)
(* budgets and numbers of summaries of any size, and the knowledge base    *)
(* (Knowledge, Retrieval): its index, for any number of documents and      *)
(* requests, texts, chunk sizes, overlaps and batches, and its searches,   *)
(* for any lists, scores, pool and limit.                                  *)
(***************************************************************************)
EXTENDS MemoryCompaction, Knowledge, FiniteSetTheorems, SequenceTheorems,
        WellFoundedInduction, TLAPS

States == {"absent", "active", "disabled", "deleted"}

\* The part of the types that the proofs need: no arithmetic.
RowsTyped ==
    /\ state \in [Summaries -> States]
    /\ DOMAIN covers = Summaries
    /\ job = [phase |-> job.phase, batch |-> job.batch, next |-> job.next,
              existing |-> job.existing]
    /\ job.existing \in Summaries \cup {NoSummary}

\* Compaction holds the row of the summary it extends, and it extends the
\* active one if there is any; nobody else makes a summary active meanwhile.
LockedIsActive ==
    /\ job.phase # "summarizing" => job.existing = NoSummary
    /\ job.existing # NoSummary => state[job.existing] = "active"
    /\ job.phase = "summarizing" /\ job.existing = NoSummary => Active = {}

SummaryInv == RowsTyped /\ LockedIsActive /\ OneActiveSummary

-----------------------------------------------------------------------------

LEMMA SummaryInit == Init => SummaryInv
<1> SUFFICES ASSUME Init PROVE SummaryInv
  OBVIOUS
<1>1. PICK old \in SUBSET Summaries, s \in {"active", "disabled"} :
        /\ \A i, j \in old : i = j
        /\ state = [i \in Summaries |-> IF i \in old THEN s ELSE "absent"]
        /\ covers = [i \in Summaries |-> IF i \in old THEN 1..messages * Size ELSE {}]
  BY DEF Init
<1>2. job = Idle
  BY DEF Init
<1>3. RowsTyped /\ LockedIsActive
  BY <1>1, <1>2 DEF RowsTyped, LockedIsActive, Idle, States
<1>4. OneActiveSummary
  BY <1>1 DEF OneActiveSummary, Active
<1> QED
  BY <1>3, <1>4 DEF SummaryInv

\* One step per action. Committing extends the summary whose row is held or makes
\* a new one where none is active; the routes wait for that row or for the
\* whole compaction.
LEMMA SummaryNext == SummaryInv /\ [Next]_vars => SummaryInv'
<1> SUFFICES ASSUME SummaryInv, [Next]_vars PROVE SummaryInv'
  OBVIOUS
<1> USE MemoryParameters DEF SummaryInv, RowsTyped, LockedIsActive, OneActiveSummary, Active, States
<1>1. CASE ReadBatch
  <2>1. UNCHANGED <<state, covers>> /\ job'.phase = "batched" /\ job'.existing = NoSummary
        /\ job' = [phase |-> job'.phase, batch |-> job'.batch, next |-> job'.next,
                   existing |-> job'.existing]
    BY <1>1 DEF ReadBatch, rows
  <2> QED
    BY <2>1
<1>2. CASE PickExisting
  <2>1. UNCHANGED <<state, covers>>
    BY <1>2 DEF PickExisting, rows
  <2>2. CASE \E i \in Summaries :
               state[i] = "active" /\ job' = [job EXCEPT !.phase = "summarizing", !.existing = i]
    BY <2>1, <2>2
  <2>3. CASE /\ \A i \in Summaries : state[i] # "active"
             /\ job' = [job EXCEPT !.phase = "summarizing"]
    BY <2>1, <2>3, <1>2 DEF PickExisting
  <2> QED
    BY <1>2, <2>2, <2>3 DEF PickExisting, IsActive
<1>3. CASE Commit
  <2>1. job' = Idle
    BY <1>3 DEF Commit
  <2>2. CASE job.existing # NoSummary
    BY <1>3, <2>1, <2>2 DEF Commit, Idle
  <2>3. CASE job.existing = NoSummary
    BY <1>3, <2>1, <2>3 DEF Commit, Idle
  <2> QED
    BY <2>2, <2>3
<1>4. CASE RollBack
  BY <1>4 DEF RollBack, rows, Idle
<1>5. CASE Say
  BY <1>5 DEF Say, rows
<1>6. ASSUME NEW i \in Summaries, BeginDisable(i) PROVE SummaryInv'
  BY <1>6 DEF BeginDisable, rows
<1>7. ASSUME NEW i \in Summaries, Disable(i) PROVE SummaryInv'
  BY <1>7 DEF Disable, RowFree
<1>8. ASSUME NEW i \in Summaries, BeginDelete(i) PROVE SummaryInv'
  BY <1>8 DEF BeginDelete, rows
<1>9. ASSUME NEW i \in Summaries, Delete(i) PROVE SummaryInv'
  BY <1>9 DEF Delete
<1>10. CASE UNCHANGED vars
  BY <1>10 DEF vars, rows
<1> QED
  BY <1>1, <1>2, <1>3, <1>4, <1>5, <1>6, <1>7, <1>8, <1>9, <1>10 DEF Next

LEMMA SummaryInvariant == Spec => []SummaryInv
BY SummaryInit, SummaryNext, PTL DEF Spec

-----------------------------------------------------------------------------

\* A conversation never has two active summaries, whatever is disabled, deleted
\* or rolled back while the model writes (MemoryService._update under its locks).
THEOREM OneSummaryIsActive == Spec => []OneActiveSummary
<1>1. SummaryInv => OneActiveSummary
  BY DEF SummaryInv
<1> QED
  BY <1>1, SummaryInvariant, PTL

\* No step adds to a summary that is disabled or deleted, or makes it active
\* again: the text of a compaction that began before goes elsewhere.
THEOREM ForgottenIsLeftAlone == Spec => ForgottenIsNotExtended
<1> DEFINE Kept == \A i \in Summaries : state[i] \in {"disabled", "deleted"} =>
                       covers'[i] = covers[i] /\ state'[i] # "active"
<1>1. SummaryInv /\ [Next]_vars => [Kept]_vars
  <2> SUFFICES ASSUME SummaryInv, Next, NEW i \in Summaries,
                      state[i] \in {"disabled", "deleted"}
               PROVE  covers'[i] = covers[i] /\ state'[i] # "active"
    OBVIOUS
  <2> USE DEF SummaryInv, RowsTyped, LockedIsActive, States
  <2>1. CASE Commit
    BY <2>1 DEF Commit
  <2>2. CASE ReadBatch \/ PickExisting \/ RollBack \/ Say
    BY <2>2 DEF ReadBatch, PickExisting, RollBack, Say, rows
  <2>3. ASSUME NEW j \in Summaries, BeginDisable(j) \/ Disable(j) \/ BeginDelete(j) \/ Delete(j)
        PROVE  covers'[i] = covers[i] /\ state'[i] # "active"
    BY <2>3 DEF BeginDisable, Disable, BeginDelete, Delete, rows
  <2> QED
    BY <2>1, <2>2, <2>3 DEF Next
<1> QED
  BY <1>1, SummaryInvariant, PTL DEF Spec, ForgottenIsNotExtended

-----------------------------------------------------------------------------
\* Where a cursor comes from, and what has been folded up to it.
CursorInv ==
    /\ cursor.kind = "none" => cursor = NoCursor
    /\ cursor.kind = "after" => cursor.message \in lines /\ cursor.offset = 0
    /\ cursor.kind = "at" =>
          /\ cursor.message >= 1
          /\ \E start \in {0} \cup lines :
                start * Size <= UpTo(cursor) /\ folded = (start * Size + 1)..UpTo(cursor)
    /\ cursor.kind # "at" => folded = {}
    /\ \A i \in Summaries : state[i] = "disabled" => retired[i] \in lines

\* Forgotten before compaction began.
Lost(i) == state[i] \in {"disabled", "deleted"} /\ i \notin late

\* Where the batch of the compaction in progress begins.
BatchFrom(lo) ==
    /\ lo <= UpTo(job.next) /\ job.batch = (lo + 1)..UpTo(job.next)
    /\ IF cursor.kind = "at" THEN lo = UpTo(cursor)
       ELSE \E start \in {0} \cup lines : lo = start * Size
    /\ \A i \in Summaries : Lost(i) => covers[i] \subseteq 1..lo

JobInv ==
    IF job.phase = "idle" THEN job.batch = {}
    ELSE /\ job.next.kind = "at" /\ job.next.message >= 1
         /\ \E lo \in Nat : BatchFrom(lo)

\* Before the first cursor there is one summary at most, a legacy one.
LegacyInv ==
    cursor.kind = "none" =>
        /\ \A i, j \in Summaries : state[i] # "absent" /\ state[j] # "absent" => i = j
        /\ \A i \in Summaries : state[i] # "absent" =>
              /\ state[i] # "deleted" /\ covers[i] \subseteq 1..messages * Size
              /\ disabling[i] # NoTime => covers[i] \subseteq 1..disabling[i] * Size
              /\ state[i] = "disabled" => covers[i] \subseteq 1..retired[i] * Size

\* What was forgotten lies before the cursor and in no active summary.
LostInv ==
    /\ \A i \in Summaries : i \in deleting \/ disabling[i] # NoTime => state[i] # "absent"
    /\ cursor.kind # "none" => \A i \in Summaries : Lost(i) =>
          /\ covers[i] \subseteq 1..UpTo(cursor)
          /\ \A j \in Active : covers[i] \cap covers[j] = {}

FoldInv == TypeOK /\ CursorInv /\ JobInv /\ LegacyInv /\ LostInv

-----------------------------------------------------------------------------
(* Numbers.                                                                *)

LEMMA Product ==
    ASSUME NEW a \in Nat, NEW b \in Nat, NEW n \in Nat
    PROVE  /\ a * n \in Nat /\ (a + b) * n = a * n + b * n
           /\ a <= b => a * n <= b * n
           /\ a >= 1 => a * n >= n
<1>1. a * n \in Nat /\ (a + b) * n = a * n + b * n
  OBVIOUS
<1>2. ASSUME a <= b PROVE a * n <= b * n
  <2>1. PICK c \in Nat : b = a + c
    <3>1. b - a \in Nat /\ b = a + (b - a)
      BY <1>2
    <3> QED
      BY <3>1
  <2>2. b * n = a * n + c * n /\ c * n \in Nat /\ a * n \in Nat
    BY <2>1
  <2> QED
    BY <2>2
<1>3. ASSUME a >= 1 PROVE a * n >= n
  <2>1. PICK c \in Nat : a = 1 + c
    <3>1. a - 1 \in Nat /\ a = 1 + (a - 1)
      BY <1>3
    <3> QED
      BY <3>1
  <2>2. a * n = n + c * n /\ c * n \in Nat
    BY <2>1
  <2> QED
    BY <2>2
<1> QED
  BY <1>1, <1>2, <1>3

LEMMA Quotient ==
    ASSUME NEW a \in Nat, NEW n \in Nat \ {0}
    PROVE  a \div n \in Nat /\ a % n \in 0..(n - 1) /\ a = (a \div n) * n + (a % n)
<1>1. a \div n \in Nat
  OBVIOUS
<1>2. a % n \in 0..(n - 1)
  OBVIOUS
<1>3. a = (a \div n) * n + (a % n)
  OBVIOUS
<1> QED
  BY <1>1, <1>2, <1>3

LEMMA OneQuotient ==
    ASSUME NEW n \in Nat \ {0}, NEW p \in Nat, NEW q \in Nat,
           NEW r \in 0..(n - 1), NEW s \in 0..(n - 1), p * n + r = q * n + s
    PROVE  p = q /\ r = s
<1>1. ASSUME NEW x \in Nat, NEW y \in Nat, NEW v \in 0..(n - 1), NEW w \in 0..(n - 1),
             x < y, x * n + v = y * n + w
      PROVE  FALSE
  <2>1. x + 1 <= y /\ x + 1 \in Nat /\ n \in Nat
    BY <1>1
  <2>2. (x + 1) * n <= y * n
    BY <2>1, Product
  <2>3. (x + 1) * n = x * n + n /\ x * n \in Nat /\ y * n \in Nat
    BY <2>1
  <2> QED
    BY <1>1, <2>2, <2>3
<1>2. ~(p < q) /\ ~(q < p)
  BY <1>1
<1>3. p = q
  BY <1>2
<1> QED
  BY <1>3

\* Where a cursor points that was advanced to the end of so many pieces.
LEMMA UpToAdvanced ==
    ASSUME NEW first \in Nat \ {0}, NEW end \in Nat \ {0}
    PROVE  /\ UpTo(Advanced(first, end)) = (first - 1) * Size + end
           /\ Advanced(first, end).kind = "at" /\ Advanced(first, end).message \in Nat \ {0}
           /\ Advanced(first, end).offset \in 0..(Size - 1)
           /\ Advanced(first, end) = [kind |-> "at", message |-> Advanced(first, end).message,
                                      offset |-> Advanced(first, end).offset]
           /\ \A n \in Nat : end <= n * Size => Advanced(first, end).message <= first + n - 1
<1> DEFINE q == (end - 1) \div Size
           r == end % Size
<1>0. Size \in Nat \ {0} /\ Size \in Nat /\ end - 1 \in Nat /\ first - 1 \in Nat
  BY MemoryParameters
<1>1. q \in Nat /\ r \in 0..(Size - 1)
  BY <1>0, Quotient
<1>2. PICK s \in 0..(Size - 1) : end - 1 = q * Size + s
  BY <1>0, Quotient
<1>3. PICK p \in Nat : end = p * Size + r
  BY <1>0, Quotient
<1>4. PICK c : c = Advanced(first, end)
  OBVIOUS
<1>5. c = [kind |-> "at", message |-> first + q, offset |-> r]
  BY <1>4 DEF Advanced, AtMessage
<1> HIDE DEF q, r
<1>6. (first - 1) * Size \in Nat /\ q * Size \in Nat
  BY <1>0, <1>1
<1>7. /\ (first + q) * Size = (first - 1) * Size + Size + q * Size
      /\ (first + q - 1) * Size = (first - 1) * Size + q * Size
  BY <1>0, <1>1
<1>8. UpTo(c) = (first - 1) * Size + end
  <2>1. UpTo(c) = IF r = 0 THEN (first + q) * Size ELSE (first + q - 1) * Size + r
    <3>1. c.offset = r /\ c.message = first + q
      BY <1>5
    <3>2. UpTo(c) = IF c.offset = 0 THEN c.message * Size
                    ELSE (c.message - 1) * Size + c.offset
      BY Zenon DEF UpTo
    <3> QED
      BY <1>0, <1>1, <3>1, <3>2
  <2>2. CASE s = Size - 1
    <3>1. end = (q + 1) * Size + 0 /\ q + 1 \in Nat /\ 0 \in 0..(Size - 1)
          /\ (q + 1) * Size = q * Size + Size
      BY <1>0, <1>1, <1>2, <2>2
    <3>2. r = 0
      <4>1. p * Size + r = (q + 1) * Size + 0
        BY <1>3, <3>1
      <4> QED
        BY <1>0, <1>1, <3>1, <4>1, OneQuotient
    <3>3. UpTo(c) = (first + q) * Size
      BY <2>1, <3>2
    <3>4. end = q * Size + Size
      BY <1>0, <1>1, <3>1
    <3> QED
      BY <1>0, <1>6, <1>7, <3>3, <3>4
  <2>3. CASE s # Size - 1
    <3>1. end = q * Size + (s + 1) /\ s + 1 \in 0..(Size - 1) /\ s + 1 # 0
      BY <1>0, <1>2, <1>6, <2>3
    <3>2. r = s + 1
      <4>1. p * Size + r = q * Size + (s + 1)
        BY <1>3, <3>1
      <4> QED
        BY <1>0, <1>1, <3>1, <4>1, OneQuotient
    <3>3. UpTo(c) = (first + q - 1) * Size + r
      BY <2>1, <3>1, <3>2
    <3> QED
      BY <1>0, <1>6, <1>7, <3>1, <3>2, <3>3
  <2> QED
    BY <2>2, <2>3
<1>9. ASSUME NEW n \in Nat, end <= n * Size PROVE first + q <= first + n - 1
  <2>1. ~(n <= q)
    <3>1. n <= q => n * Size <= q * Size
      BY <1>0, <1>1, Product
    <3>2. n * Size \in Nat
      BY <1>0
    <3> QED
      BY <1>0, <1>2, <1>6, <1>9, <3>1, <3>2
  <2> QED
    BY <1>0, <1>1, <2>1
<1> QED
  BY <1>0, <1>1, <1>4, <1>5, <1>8, <1>9

\* A set of natural numbers that is not empty has a least element.
LEMMA LeastNumber ==
    ASSUME NEW S \in SUBSET Nat, S # {}
    PROVE  \E x \in S : \A y \in S : x <= y
<1>1. PICK x \in S : \A y \in S : ~(<<y, x>> \in OpToRel(<, Nat))
  BY WFMin, NatLessThanWellFounded
<1>2. ASSUME NEW y \in S PROVE x <= y
  <2>1. <<y, x>> \in Nat \X Nat /\ ~(<<y, x>> \in {ss \in Nat \X Nat : ss[1] < ss[2]})
    BY <1>1, Zenon DEF OpToRel
  <2> QED
    BY <2>1
<1> QED
  BY <1>2

\* A set of numbers that is bounded and not empty has a greatest element.
LEMMA GreatestNumber ==
    ASSUME NEW S, S # {}, NEW n \in Nat, S \subseteq 0..n
    PROVE  \E x \in S : \A y \in S : y <= x
<1> DEFINE Bounds == {m \in Nat : \A y \in S : y <= m}
<1>1. Bounds \in SUBSET Nat /\ n \in Bounds
  OBVIOUS
<1>2. PICK m \in Bounds : \A y \in Bounds : m <= y
  <2> HIDE DEF Bounds
  <2> QED
    BY <1>1, LeastNumber
<1>3. m \in Nat /\ \A y \in S : y <= m
  BY <1>2
<1>4. ASSUME m \notin S PROVE FALSE
  <2>1. PICK z \in S : TRUE
    OBVIOUS
  <2>2. z \in Nat /\ z <= m /\ z # m /\ m - 1 \in Nat
    BY <1>3, <1>4
  <2>3. ASSUME NEW y \in S PROVE y <= m - 1
    <3>1. y \in Nat /\ y <= m /\ y # m
      BY <1>3, <1>4
    <3> QED
      BY <1>3, <3>1
  <2>4. m - 1 \in Bounds
    BY <2>2, <2>3
  <2> QED
    BY <1>2, <1>3, <2>4
<1> QED
  BY <1>3, <1>4

-----------------------------------------------------------------------------
(* Where a batch begins and ends.                                          *)

LEMMA UpToType ==
    ASSUME NEW c \in Cursors, c.offset # 0 => c.message >= 1
    PROVE  UpTo(c) \in Nat /\ (c.offset = 0 => UpTo(c) = c.message * Size)
<1>1. c.message \in Nat /\ c.offset \in Nat /\ Size \in Nat
  BY MemoryParameters DEF Cursors
<1>2. c.offset = 0 => UpTo(c) = c.message * Size
  BY Zenon DEF UpTo
<1>3. CASE c.offset = 0
  BY <1>1, <1>2, <1>3
<1>4. CASE c.offset # 0
  <2>1. UpTo(c) = (c.message - 1) * Size + c.offset
    BY <1>4, Zenon DEF UpTo
  <2>2. c.message - 1 \in Nat
    BY <1>1, <1>4
  <2>3. (c.message - 1) * Size \in Nat
    BY <1>1, <2>2
  <2> QED
    BY <1>1, <1>4, <2>1, <2>3
<1> QED
  BY <1>2, <1>3, <1>4

LEMMA RetiredAtIsLast ==
    ASSUME TypeOK, CursorInv
    PROVE  /\ RetiredAt \in {0} \cup lines /\ RetiredAt \in 0..MaxMessages
           /\ \A i \in Summaries : state[i] = "disabled" => retired[i] <= RetiredAt
<1> DEFINE times == {retired[i] : i \in {j \in Summaries : state[j] = "disabled"}}
<1>0. MaxMessages \in Nat /\ 0 \in 0..MaxMessages
  BY MemoryParameters
<1>1. times \subseteq lines /\ lines \subseteq 0..MaxMessages
  BY DEF CursorInv, TypeOK
<1>2. RetiredAt = IF times = {} THEN 0 ELSE CHOOSE t \in times : \A u \in times : u <= t
  BY DEF RetiredAt
<1>3. \A i \in Summaries : state[i] = "disabled" => retired[i] \in times
  OBVIOUS
<1> HIDE DEF times
<1>4. CASE times = {}
  BY <1>0, <1>2, <1>3, <1>4
<1>5. CASE times # {}
  <2>1. times \subseteq 0..MaxMessages
    BY <1>1
  <2>2. \E t \in times : \A u \in times : u <= t
    BY <1>0, <1>5, <2>1, GreatestNumber
  <2>3. RetiredAt \in times /\ \A u \in times : u <= RetiredAt
    BY <1>2, <1>5, <2>2
  <2> QED
    BY <1>1, <1>3, <2>3
<1> QED
  BY <1>4, <1>5

\* Compaction starts at the cursor, or where something was forgotten.
LEMMA StartOfBatch ==
    ASSUME TypeOK, CursorInv
    PROVE  /\ Start \in Cursors /\ (Start.offset # 0 => Start.message >= 1)
           /\ UpTo(Start) \in Nat
           /\ IF cursor.kind = "at" THEN UpTo(Start) = UpTo(cursor)
              ELSE \E start \in {0} \cup lines : UpTo(Start) = start * Size
           /\ cursor.kind # "none" => UpTo(Start) = UpTo(cursor)
           /\ cursor.kind = "none" => UpTo(Start) = RetiredAt * Size
<1>0. Size \in Nat \ {0} /\ 0 \in 0..(Size - 1) /\ 0 \in 0..MaxMessages
  BY MemoryParameters
<1>1. cursor \in Cursors
  BY DEF TypeOK
<1>2. CASE cursor.kind # "none"
  <2>1. Start = cursor
    BY <1>2 DEF Start
  <2>2. cursor.offset # 0 => cursor.message >= 1
    BY <1>1, <1>2 DEF CursorInv, Cursors
  <2>3. UpTo(cursor) \in Nat /\ (cursor.offset = 0 => UpTo(cursor) = cursor.message * Size)
    BY <1>1, <2>2, UpToType
  <2>4. cursor.kind # "at" => cursor.message \in lines /\ cursor.offset = 0
    BY <1>1, <1>2 DEF CursorInv, Cursors
  <2> QED
    BY <1>1, <1>2, <2>1, <2>2, <2>3, <2>4
<1>3. CASE cursor.kind = "none"
  <2>1. RetiredAt \in {0} \cup lines /\ RetiredAt \in 0..MaxMessages
    BY RetiredAtIsLast
  <2>2. PICK t \in {0} \cup lines : t = RetiredAt /\ t \in 0..MaxMessages
    BY <2>1
  <2>3. Start = IF t # 0 THEN AfterTime(t) ELSE NoCursor
    BY <1>3, <2>2 DEF Start
  <2>4. PICK c : c = Start
    OBVIOUS
  <2>5. c \in Cursors /\ c.offset = 0 /\ c.message = t
    BY <1>0, <2>2, <2>3, <2>4 DEF AfterTime, NoCursor, Cursors
  <2>6. UpTo(c) \in Nat /\ UpTo(c) = c.message * Size
    BY <2>5, UpToType
  <2>7. UpTo(c) = t * Size
    BY <2>5, <2>6
  <2> QED
    BY <1>3, <2>2, <2>4, <2>5, <2>6, <2>7
<1> QED
  BY <1>2, <1>3

\* The messages to be read, those that are no longer recent, follow each other.
LEMMA SourceIsARun ==
    ASSUME TypeOK, NEW from \in Cursors, from.offset # 0 => from.message >= 1, Source(from) # {}
    PROVE  \E first \in Nat \ {0}, last \in Nat :
              /\ first <= last /\ last <= messages /\ Source(from) = first..last
              /\ (first - 1) * Size + from.offset = UpTo(from)
<1>0. /\ messages \in Nat /\ Recent \in Nat /\ Size \in Nat
      /\ from.message \in Nat /\ from.offset \in Nat
  BY MemoryParameters DEF TypeOK, Cursors
<1> DEFINE first == IF from.offset # 0 THEN from.message ELSE from.message + 1
           last == messages - Recent
<1>1. PICK m \in 1..messages :
         /\ m + Recent <= messages
         /\ IF from.offset # 0 THEN m >= from.message ELSE m > from.message
  BY DEF Source
<1>2. first \in Nat \ {0} /\ last \in Nat /\ first <= last /\ last <= messages
  BY <1>0, <1>1
<1>3. Source(from) = first..last
  <2>1. ASSUME NEW x \in Source(from) PROVE x \in first..last
    BY <1>0, <1>2, <2>1 DEF Source
  <2>2. ASSUME NEW x \in first..last PROVE x \in Source(from)
    BY <1>0, <1>2, <2>2 DEF Source
  <2> QED
    BY <2>1, <2>2
<1>4. (first - 1) * Size + from.offset = UpTo(from)
  <2>1. CASE from.offset = 0
    <3>1. UpTo(from) = from.message * Size
      BY <2>1, UpToType
    <3>2. first - 1 = from.message
      BY <1>0, <2>1
    <3>3. (first - 1) * Size = UpTo(from) /\ UpTo(from) \in Nat
      BY <1>0, <3>1, <3>2
    <3> QED
      BY <2>1, <3>3
  <2>2. CASE from.offset # 0
    <3>1. UpTo(from) = (from.message - 1) * Size + from.offset
      BY <2>2, Zenon DEF UpTo
    <3>2. first = from.message
      BY <2>2
    <3> QED
      BY <3>1, <3>2
  <2> QED
    BY <2>1, <2>2
<1> HIDE DEF first, last
<1> QED
  BY <1>2, <1>3, <1>4

\* A batch is not empty, and its cursor points behind it.
LEMMA ReadBatchEffect ==
    ASSUME TypeOK, CursorInv, ReadBatch
    PROVE  \E hi \in Nat, next \in Cursors :
              /\ job' = [phase |-> "batched", batch |-> (UpTo(Start) + 1)..hi,
                         next |-> next, existing |-> NoSummary]
              /\ UpTo(Start) < hi /\ UpTo(next) = hi /\ hi <= MaxMessages * Size
              /\ next.kind = "at" /\ next.message >= 1
<1> DEFINE source == Source(Start)
           f == CHOOSE m \in source : \A n \in source : m <= n
           count == IF Cardinality(source) < Fetched THEN Cardinality(source) ELSE Fetched
           left == count * Size - Start.offset
           end == Start.offset + (IF left < Budget THEN left ELSE Budget)
           before == (f - 1) * Size
<1>1. /\ source # {}
      /\ job' = [phase |-> "batched", batch |-> (before + Start.offset + 1)..(before + end),
                 next |-> Advanced(f, end), existing |-> NoSummary]
  BY DEF ReadBatch
<1>2. PICK from \in Cursors : from = Start /\ (from.offset # 0 => from.message >= 1)
  BY StartOfBatch
<1>3. PICK first \in Nat \ {0}, last \in Nat :
         /\ first <= last /\ last <= messages /\ source = first..last
         /\ (first - 1) * Size + from.offset = UpTo(from)
  BY <1>1, <1>2, SourceIsARun
<1>4. /\ Size \in Nat \ {0} /\ Fetched \in Nat \ {0} /\ Budget \in Nat \ {0}
      /\ MaxMessages \in Nat /\ messages \in 0..MaxMessages /\ from.offset \in 0..(Size - 1)
  BY MemoryParameters DEF TypeOK, Cursors
<1>5. f = first
  BY <1>3
<1>6. Cardinality(source) = last - first + 1
  <2>1. Cardinality(first..last) = IF first > last THEN 0 ELSE last - first + 1
    BY <1>3, FS_Interval
  <2> QED
    BY <1>3, <2>1
<1> HIDE DEF source, f
<1>7. count \in Nat \ {0} /\ count <= last - first + 1
  BY <1>3, <1>4, <1>6
<1> HIDE DEF count
<1>8. count * Size \in Nat /\ count * Size >= Size
  BY <1>4, <1>7, Product
<1>9. left \in Nat \ {0} /\ from.offset + left = count * Size
  BY <1>2, <1>4, <1>8
<1> HIDE DEF left
<1>10. end \in Nat \ {0} /\ from.offset < end /\ end <= count * Size
  BY <1>2, <1>4, <1>8, <1>9
<1> HIDE DEF end
<1>11. before = (first - 1) * Size /\ before \in Nat
  BY <1>3, <1>4, <1>5
<1>12. PICK hi \in Nat : hi = before + end
  BY <1>10, <1>11
<1> HIDE DEF before
<1>13. PICK next : next = Advanced(first, end)
  OBVIOUS
<1>14. /\ UpTo(next) = hi /\ next.kind = "at" /\ next.message \in Nat \ {0}
       /\ next.offset \in 0..(Size - 1)
       /\ next = [kind |-> "at", message |-> next.message, offset |-> next.offset]
       /\ next.message <= first + count - 1
  BY <1>3, <1>7, <1>10, <1>11, <1>12, <1>13, UpToAdvanced
<1>15. next \in Cursors
  <2>1. next.message \in 0..MaxMessages
    BY <1>3, <1>4, <1>7, <1>14
  <2> QED
    BY <1>14, <2>1 DEF Cursors
<1>16. hi <= MaxMessages * Size
  <2>1. PICK n \in Nat : n = (first - 1) + count /\ n <= MaxMessages
    BY <1>3, <1>4, <1>7
  <2>2. n * Size = (first - 1) * Size + count * Size
    <3>1. first - 1 \in Nat
      BY <1>3
    <3> QED
      BY <1>4, <1>7, <2>1, <3>1, Product
  <2>3. n * Size <= MaxMessages * Size
    BY <1>4, <2>1, Product
  <2>4. n * Size \in Nat /\ MaxMessages * Size \in Nat
    BY <1>4, <2>1
  <2> QED
    BY <1>8, <1>10, <1>11, <1>12, <2>2, <2>3, <2>4
<1>17. job' = [phase |-> "batched", batch |-> (UpTo(Start) + 1)..hi,
               next |-> next, existing |-> NoSummary]
  <2>1. before + from.offset = UpTo(Start)
    BY <1>2, <1>3, <1>11
  <2> QED
    BY <1>1, <1>2, <1>5, <1>12, <1>13, <2>1
<1>18. UpTo(Start) < hi
  <2>0. before \in Nat /\ end \in Nat /\ from.offset \in Nat
    BY <1>4, <1>10, <1>11
  <2>1. PICK b \in Nat, e \in Nat, o \in Nat : b = before /\ e = end /\ o = from.offset
    BY <2>0, Zenon
  <2>2. o < e /\ hi = b + e
    BY <1>10, <1>12, <2>1
  <2>3. UpTo(Start) = b + o
    BY <1>2, <1>3, <1>11, <2>1
  <2> QED
    BY <2>2, <2>3
<1>19. next.message >= 1
  BY <1>14
<1> QED
  BY <1>14, <1>15, <1>16, <1>17, <1>18, <1>19, Zenon

LEMMA UpToOfCursor ==
    ASSUME TypeOK, CursorInv
    PROVE  UpTo(cursor) \in Nat /\ (cursor.kind = "none" => UpTo(cursor) = 0)
<1>1. cursor \in Cursors /\ Size \in Nat
  BY MemoryParameters DEF TypeOK
<1>2. cursor.offset # 0 => cursor.message >= 1
  BY <1>1 DEF CursorInv, Cursors, NoCursor
<1>3. UpTo(cursor) \in Nat /\ (cursor.offset = 0 => UpTo(cursor) = cursor.message * Size)
  BY <1>1, <1>2, UpToType
<1>4. cursor.kind = "none" => cursor.offset = 0 /\ cursor.message = 0
  BY DEF CursorInv, NoCursor
<1> QED
  BY <1>1, <1>3, <1>4

-----------------------------------------------------------------------------
(* Types.                                                                  *)

\* What the prover is not to compute with.
LEMMA NumberTypes ==
    /\ MaxMessages \in Nat /\ Size \in Nat \ {0} /\ MaxMessages * Size \in Nat
    /\ NoTime \notin Nat /\ NoSummary \notin Summaries
    /\ NoCursor \in Cursors /\ \A n \in 0..MaxMessages : AfterTime(n) \in Cursors
<1>1. MaxMessages \in Nat /\ Size \in Nat \ {0} /\ NoTime \notin Nat /\ NoSummary \notin Summaries
  BY MemoryParameters
<1>2. MaxMessages * Size \in Nat
  BY <1>1
<1>3. 0 \in 0..(Size - 1) /\ 0 \in 0..MaxMessages
  BY <1>1
<1> QED
  BY <1>1, <1>2, <1>3 DEF NoCursor, AfterTime, Cursors

JobTypes == [phase : {"idle", "batched", "summarizing"}, batch : SUBSET Pieces,
             next : Cursors, existing : Summaries \cup {NoSummary}]

LEMMA IdleType == Idle \in JobTypes
BY NumberTypes DEF Idle, JobTypes

LEMMA TypeNext ==
    ASSUME TypeOK, CursorInv, [Next]_vars
    PROVE  TypeOK'
<1>0. job \in JobTypes
  BY DEF TypeOK, JobTypes
<1>1. CASE ReadBatch
  <2>1. PICK hi \in Nat, next \in Cursors :
              /\ job' = [phase |-> "batched", batch |-> (UpTo(Start) + 1)..hi,
                         next |-> next, existing |-> NoSummary]
              /\ hi <= MaxMessages * Size
    BY <1>1, ReadBatchEffect
  <2>2. UpTo(Start) \in Nat
    BY StartOfBatch
  <2>3. (UpTo(Start) + 1)..hi \subseteq Pieces
    BY <2>1, <2>2, NumberTypes DEF Pieces
  <2>4. job' \in JobTypes
    BY <2>1, <2>3 DEF JobTypes
  <2> QED
    BY <1>1, <2>4 DEF ReadBatch, TypeOK, JobTypes, rows, requests, history
<1>2. CASE PickExisting
  <2>1. \E e \in Summaries \cup {NoSummary} :
           job' = [job EXCEPT !.phase = "summarizing", !.existing = e]
           \/ job' = [job EXCEPT !.phase = "summarizing"]
    BY <1>2 DEF PickExisting
  <2>2. job' \in JobTypes
    BY <1>0, <2>1 DEF JobTypes
  <2> QED
    BY <1>2, <2>2 DEF PickExisting, TypeOK, JobTypes, rows, requests, history
<1>3. CASE Commit
  <2>1. /\ job' \in JobTypes /\ cursor' \in Cursors /\ folded' \subseteq Pieces
    BY <1>0, <1>3, IdleType DEF Commit, TypeOK, JobTypes
  <2>2. job.batch \subseteq Pieces
    BY <1>0 DEF JobTypes
  <2>3. covers' \in [Summaries -> SUBSET Pieces]
        /\ state' \in [Summaries -> {"absent", "active", "disabled", "deleted"}]
    BY <1>0, <1>3, <2>2 DEF Commit, TypeOK, JobTypes
  <2> QED
    BY <1>3, <2>1, <2>3 DEF Commit, TypeOK, JobTypes, requests
<1>4. CASE RollBack
  BY <1>4, IdleType DEF RollBack, TypeOK, JobTypes, rows, requests, history
<1>5. CASE Say
  <2>1. messages' \in 0..MaxMessages
    BY <1>5, NumberTypes DEF Say, TypeOK
  <2> QED
    BY <1>5, <2>1 DEF Say, TypeOK, rows, requests, history
<1>6. ASSUME NEW i \in Summaries, BeginDisable(i) PROVE TypeOK'
  BY <1>6 DEF BeginDisable, TypeOK, rows, history
<1>7. ASSUME NEW i \in Summaries, Disable(i) PROVE TypeOK'
  <2>1. disabling[i] \in 0..MaxMessages
    BY <1>7 DEF Disable, TypeOK
  <2>2. CASE state[i] = "deleted"
    BY <1>7, <2>2 DEF Disable, TypeOK
  <2>3. CASE state[i] # "deleted"
    <3>1. state' \in [Summaries -> {"absent", "active", "disabled", "deleted"}]
      BY <1>7, <2>3 DEF Disable, TypeOK
    <3>2. PICK t \in 0..MaxMessages : t = disabling[i]
      BY <2>1
    <3>3. retired' = [retired EXCEPT ![i] = t] /\ lines' = lines \cup {t}
      BY <1>7, <2>3, <3>2 DEF Disable
    <3>4. retired' \in [Summaries -> 0..MaxMessages \cup {NoTime}] /\ lines' \subseteq 0..MaxMessages
      BY <3>3, Zenon DEF TypeOK
    <3>5. late' \subseteq Summaries
      BY <1>7, <2>3 DEF Disable, TypeOK
    <3> QED
      BY <1>7, <3>1, <3>4, <3>5 DEF Disable, TypeOK
  <2> QED
    BY <2>2, <2>3
<1>8. ASSUME NEW i \in Summaries, BeginDelete(i) PROVE TypeOK'
  BY <1>8 DEF BeginDelete, TypeOK, rows, history
<1>9. ASSUME NEW i \in Summaries, Delete(i) PROVE TypeOK'
  <2>1. cursor' \in Cursors
    BY <1>9, NumberTypes DEF Delete, ForgetLine, TypeOK
  <2>2. /\ state' \in [Summaries -> {"absent", "active", "disabled", "deleted"}]
        /\ lines' \subseteq 0..MaxMessages /\ late' \subseteq Summaries
    BY <1>9 DEF Delete, TypeOK
  <2> QED
    BY <1>9, <2>1, <2>2 DEF Delete, TypeOK
<1>10. CASE UNCHANGED vars
  BY <1>10 DEF vars, rows, requests, history, TypeOK
<1> QED
  BY <1>1, <1>2, <1>3, <1>4, <1>5, <1>6, <1>7, <1>8, <1>9, <1>10 DEF Next

-----------------------------------------------------------------------------
(* The invariant, one conjunct at a time.                                  *)

\* What a commit adds begins where compaction would begin now.
LEMMA CommitExtends ==
    ASSUME TypeOK, CursorInv, JobInv, Commit
    PROVE  /\ job.next \in Cursors /\ job.next.kind = "at" /\ job.next.message >= 1
           /\ UpTo(job.next) \in Nat
           /\ \E lo \in Nat : BatchFrom(lo)
           /\ \E start \in {0} \cup lines :
                 /\ start * Size <= UpTo(job.next)
                 /\ folded \cup job.batch = (start * Size + 1)..UpTo(job.next)
<1>1. /\ job.next \in Cursors /\ job.next.kind = "at" /\ job.next.message >= 1
      /\ \E lo \in Nat : BatchFrom(lo)
  BY DEF Commit, JobInv, TypeOK
<1>2. PICK n \in Nat : n = UpTo(job.next)
  BY <1>1, UpToType
<1>3. PICK lo \in Nat : BatchFrom(lo)
  BY <1>1
<1>4. lo <= n /\ job.batch = (lo + 1)..n
  BY <1>2, <1>3 DEF BatchFrom
<1>5. ASSUME NEW start \in {0} \cup lines PROVE start * Size \in Nat
  BY <1>5, NumberTypes DEF TypeOK
<1>6. \E start \in {0} \cup lines :
         start * Size <= n /\ folded \cup job.batch = (start * Size + 1)..n
  <2>1. CASE cursor.kind = "at"
    <3>1. PICK start \in {0} \cup lines :
             start * Size <= UpTo(cursor) /\ folded = (start * Size + 1)..UpTo(cursor)
      BY <2>1 DEF CursorInv
    <3>2. lo = UpTo(cursor)
      BY <1>3, <2>1 DEF BatchFrom
    <3>3. PICK s \in Nat : s = start * Size
      BY <1>5
    <3>4. s <= lo /\ folded = (s + 1)..lo
      BY <3>1, <3>2, <3>3
    <3>5. folded \cup job.batch = (s + 1)..n /\ s <= n
      BY <1>4, <3>4
    <3> QED
      BY <3>3, <3>5
  <2>2. CASE cursor.kind # "at"
    <3>1. PICK start \in {0} \cup lines : lo = start * Size
      BY <1>3, <2>2 DEF BatchFrom
    <3>2. folded = {}
      BY <2>2 DEF CursorInv
    <3> QED
      BY <1>4, <3>1, <3>2
  <2> QED
    BY <2>1, <2>2
<1> QED
  BY <1>1, <1>2, <1>6

LEMMA CursorNext ==
    ASSUME TypeOK, CursorInv, JobInv, [Next]_vars
    PROVE  CursorInv'
<1>1. CASE Commit
  <2>1. /\ cursor' \in Cursors /\ cursor'.kind = "at" /\ cursor'.message >= 1
        /\ \E start \in {0} \cup lines :
              /\ start * Size <= UpTo(cursor')
              /\ folded' = (start * Size + 1)..UpTo(cursor')
    <3>1. cursor' = job.next /\ folded' = folded \cup job.batch
      BY <1>1 DEF Commit
    <3> QED
      BY <1>1, <3>1, CommitExtends
  <2>2. lines' = lines /\ retired' = retired
        /\ \A i \in Summaries : state'[i] = "disabled" => state[i] = "disabled"
    BY <1>1 DEF Commit, TypeOK
  <2> QED
    BY <2>1, <2>2 DEF CursorInv
<1>2. ASSUME NEW i \in Summaries, Disable(i) PROVE CursorInv'
  <2>1. cursor' = cursor /\ folded' = folded /\ lines \subseteq lines'
    BY <1>2 DEF Disable
  <2>2. \A k \in Summaries : state'[k] = "disabled" => retired'[k] \in lines'
    BY <1>2 DEF Disable, TypeOK, CursorInv
  <2> QED
    BY <2>1, <2>2 DEF CursorInv
<1>3. ASSUME NEW i \in Summaries, Delete(i) PROVE CursorInv'
  <2>1. folded' = folded /\ lines' = lines \cup {messages}
        /\ cursor' = IF cursor.kind = "none" THEN AfterTime(messages) ELSE cursor
    BY <1>3 DEF Delete, ForgetLine
  <2>2. \A k \in Summaries : state'[k] = "disabled" => retired'[k] \in lines'
    BY <1>3 DEF Delete, TypeOK, CursorInv
  <2>3. CASE cursor.kind = "none"
    <3>1. cursor'.kind = "after" /\ cursor'.message = messages /\ cursor'.offset = 0
      BY <2>1, <2>3 DEF AfterTime
    <3>2. folded' = {}
      BY <2>1, <2>3 DEF CursorInv
    <3> QED
      BY <2>1, <2>2, <3>1, <3>2 DEF CursorInv
  <2>4. CASE cursor.kind # "none"
    BY <2>1, <2>2, <2>4 DEF CursorInv
  <2> QED
    BY <2>3, <2>4
<1>4. CASE ReadBatch \/ PickExisting \/ RollBack \/ Say \/ UNCHANGED vars
           \/ \E i \in Summaries : BeginDisable(i) \/ BeginDelete(i)
  <2>1. UNCHANGED <<cursor, folded, lines, state, retired>>
    BY <1>4 DEF ReadBatch, PickExisting, RollBack, Say, BeginDisable, BeginDelete,
                vars, rows, history
  <2> QED
    BY <2>1 DEF CursorInv
<1> QED
  BY <1>1, <1>2, <1>3, <1>4 DEF Next

\* A request that does not forget anything leaves what is lost as it is; one that
\* does, while a compaction has begun, is late.
LEMMA LostBefore ==
    ASSUME TypeOK, LostInv, [Next]_vars, ~Untouched, NEW k \in Summaries, Lost(k)'
    PROVE  Lost(k)
<1>1. state'[k] \in {"disabled", "deleted"} /\ k \notin late'
  BY DEF Lost
<1>2. CASE Commit
  BY <1>1, <1>2 DEF Commit, TypeOK, Lost
<1>3. ASSUME NEW i \in Summaries, Disable(i) PROVE Lost(k)
  <2>1. CASE state[i] = "deleted"
    BY <1>1, <1>3, <2>1 DEF Disable, Lost
  <2>2. CASE state[i] # "deleted"
    <3>1. state' = [state EXCEPT ![i] = "disabled"] /\ late' = late \cup {i}
      BY <1>3, <2>2 DEF Disable
    <3>2. k # i
      BY <1>1, <3>1
    <3>3. state'[k] = state[k] /\ k \notin late
      BY <1>1, <3>1, <3>2 DEF TypeOK
    <3> QED
      BY <1>1, <3>3 DEF Lost
  <2> QED
    BY <2>1, <2>2
<1>4. ASSUME NEW i \in Summaries, Delete(i) PROVE Lost(k)
  <2>1. /\ state' = [state EXCEPT ![i] = "deleted"]
        /\ late' = IF state[i] = "active" THEN late \cup {i} ELSE late
        /\ state[i] \in {"active", "disabled", "deleted"}
    BY <1>4 DEF Delete, TypeOK, LostInv
  <2>2. CASE k # i
    BY <1>1, <2>1, <2>2 DEF TypeOK, Lost
  <2>3. CASE k = i
    BY <1>1, <2>1, <2>3 DEF Lost
  <2> QED
    BY <2>2, <2>3
<1>5. CASE ReadBatch \/ PickExisting \/ RollBack \/ Say \/ UNCHANGED vars
           \/ \E i \in Summaries : BeginDisable(i) \/ BeginDelete(i)
  <2>1. UNCHANGED <<state, late>>
    BY <1>5 DEF ReadBatch, PickExisting, RollBack, Say, BeginDisable, BeginDelete,
                vars, rows, history
  <2> QED
    BY <1>1, <2>1 DEF Lost
<1> QED
  BY <1>2, <1>3, <1>4, <1>5 DEF Next

LEMMA JobNext ==
    ASSUME TypeOK, CursorInv, JobInv, LegacyInv, LostInv, [Next]_vars
    PROVE  JobInv'
<1>1. CASE ReadBatch
  <2>1. PICK hi \in Nat, next \in Cursors :
              /\ job' = [phase |-> "batched", batch |-> (UpTo(Start) + 1)..hi,
                         next |-> next, existing |-> NoSummary]
              /\ UpTo(Start) < hi /\ UpTo(next) = hi
              /\ next.kind = "at" /\ next.message >= 1
    BY <1>1, ReadBatchEffect
  <2>2. PICK lo \in Nat :
           /\ lo = UpTo(Start)
           /\ IF cursor.kind = "at" THEN lo = UpTo(cursor)
              ELSE \E start \in {0} \cup lines : lo = start * Size
           /\ cursor.kind # "none" => lo = UpTo(cursor)
           /\ cursor.kind = "none" => lo = RetiredAt * Size
    BY StartOfBatch
  <2>3. UNCHANGED <<messages, cursor, state, covers, retired, lines, late>>
    BY <1>1 DEF ReadBatch, rows, history
  <2>4. ASSUME NEW i \in Summaries, Lost(i) PROVE covers[i] \subseteq 1..lo
    <3>1. CASE cursor.kind # "none"
      BY <2>2, <2>4, <3>1 DEF LostInv
    <3>2. CASE cursor.kind = "none"
      <4>1. state[i] = "disabled" /\ covers[i] \subseteq 1..retired[i] * Size
        BY <2>4, <3>2 DEF LegacyInv, Lost
      <4>2. PICK t \in Nat, u \in Nat : t = retired[i] /\ u = RetiredAt /\ t <= u
        <5>1. RetiredAt \in 0..MaxMessages /\ retired[i] <= RetiredAt
          BY <4>1, RetiredAtIsLast
        <5>2. retired[i] \in 0..MaxMessages
          BY <4>1 DEF CursorInv, TypeOK
        <5> QED
          BY <5>1, <5>2
      <4>3. Size \in Nat
        BY NumberTypes
      <4>4. t * Size <= u * Size /\ t * Size \in Nat /\ u * Size \in Nat
        BY <4>2, <4>3, Product
      <4>5. lo = u * Size
        BY <2>2, <3>2, <4>2
      <4> QED
        BY <4>1, <4>2, <4>4, <4>5
    <3> QED
      BY <3>1, <3>2
  <2>5. \A i \in Summaries : state'[i] \in {"disabled", "deleted"} /\ i \notin late'
                             => covers'[i] \subseteq 1..lo
    BY <2>3, <2>4 DEF Lost
  <2>6. job'.phase # "idle" /\ job'.next = next /\ job'.batch = (lo + 1)..hi
    BY <2>1, <2>2
  <2>7. lo <= hi
    BY <2>1, <2>2
  <2>8. BatchFrom(lo)'
    BY <2>1, <2>2, <2>3, <2>5, <2>6, <2>7 DEF BatchFrom, Lost
  <2> QED
    BY <2>1, <2>6, <2>8 DEF JobInv
<1>2. CASE Commit \/ RollBack
  BY <1>2 DEF Commit, RollBack, Idle, JobInv
<1>3. CASE Say \/ \E i \in Summaries : Delete(i)
  <2>1. job.phase = "idle" /\ job' = job
    BY <1>3 DEF Say, Delete
  <2> QED
    BY <2>1 DEF JobInv
<1>4. CASE \/ PickExisting \/ UNCHANGED vars
           \/ \E i \in Summaries : BeginDisable(i) \/ BeginDelete(i) \/ Disable(i)
  <2>1. /\ UNCHANGED <<cursor, covers>> /\ lines \subseteq lines'
        /\ job'.batch = job.batch /\ job'.next = job.next
        /\ job'.phase = "idle" <=> job.phase = "idle"
    BY <1>4 DEF PickExisting, BeginDisable, BeginDelete, Disable, vars, rows, history, TypeOK
  <2>2. CASE job.phase = "idle"
    BY <2>1, <2>2 DEF JobInv
  <2>3. CASE job.phase # "idle"
    <3>1. PICK lo \in Nat : BatchFrom(lo)
      BY <2>3 DEF JobInv
    <3>2. ~Untouched
      BY <2>3 DEF Untouched
    <3>3. \A i \in Summaries : Lost(i)' => covers'[i] \subseteq 1..lo
      BY <2>1, <3>1, <3>2, LostBefore DEF BatchFrom
    <3>4. BatchFrom(lo)'
      <4>1. \A i \in Summaries : state'[i] \in {"disabled", "deleted"} /\ i \notin late'
                                 => covers'[i] \subseteq 1..lo
        BY <3>3 DEF Lost
      <4> QED
        BY <2>1, <3>1, <4>1 DEF BatchFrom, Lost
    <3> QED
      BY <2>1, <2>3, <3>4 DEF JobInv
  <2> QED
    BY <2>2, <2>3
<1> QED
  BY <1>1, <1>2, <1>3, <1>4 DEF Next

LEMMA LegacyNext ==
    ASSUME TypeOK, JobInv, LegacyInv, LostInv, [Next]_vars
    PROVE  LegacyInv'
<1> SUFFICES ASSUME cursor'.kind = "none" PROVE LegacyInv'
  BY DEF LegacyInv
<1>1. CASE Commit
  <2>1. cursor'.kind = "at"
    BY <1>1 DEF Commit, JobInv
  <2> QED
    BY <2>1
<1>2. ASSUME NEW i \in Summaries, Delete(i) PROVE LegacyInv'
  <2>1. cursor'.kind # "none"
    BY <1>2 DEF Delete, AfterTime
  <2> QED
    BY <2>1
<1>3. ASSUME NEW i \in Summaries, Disable(i) PROVE LegacyInv'
  <2>1. cursor' = cursor /\ messages' = messages /\ covers' = covers
        /\ disabling' = [disabling EXCEPT ![i] = NoTime] /\ disabling[i] # NoTime
    BY <1>3 DEF Disable
  <2>2. state[i] # "absent" /\ state[i] # "deleted"
    BY <2>1 DEF LostInv, LegacyInv
  <2>3. state' = [state EXCEPT ![i] = "disabled"] /\ retired' = [retired EXCEPT ![i] = disabling[i]]
    BY <1>3, <2>2 DEF Disable
  <2>4. \A k \in Summaries : /\ state'[k] # "absent" => state[k] # "absent"
                             /\ state'[k] = "deleted" => state[k] = "deleted"
                             /\ disabling'[k] # NoTime => disabling'[k] = disabling[k]
    BY <2>1, <2>2, <2>3 DEF TypeOK
  <2>5. ASSUME NEW k \in Summaries, state'[k] = "disabled"
        PROVE  covers[k] \subseteq 1..retired'[k] * Size
    <3>1. CASE k = i
      BY <2>1, <2>2, <2>3, <3>1 DEF LegacyInv, TypeOK
    <3>2. CASE k # i
      BY <2>1, <2>3, <2>5, <3>2 DEF LegacyInv, TypeOK
    <3> QED
      BY <3>1, <3>2
  <2> QED
    BY <2>1, <2>4, <2>5 DEF LegacyInv
<1>4. ASSUME NEW i \in Summaries, BeginDisable(i) PROVE LegacyInv'
  <2>1. UNCHANGED <<cursor, messages, covers, state, retired>> /\ state[i] = "active"
        /\ disabling' = [disabling EXCEPT ![i] = messages]
    BY <1>4 DEF BeginDisable, rows
  <2>2. ASSUME NEW k \in Summaries, state[k] # "absent", disabling'[k] # NoTime
        PROVE  covers[k] \subseteq 1..disabling'[k] * Size
    <3>1. CASE k = i
      <4>1. disabling'[k] = messages
        BY <2>1, <3>1 DEF TypeOK
      <4> QED
        BY <2>1, <2>2, <4>1 DEF LegacyInv
    <3>2. CASE k # i
      BY <2>1, <2>2, <3>2 DEF LegacyInv, TypeOK
    <3> QED
      BY <3>1, <3>2
  <2> QED
    BY <2>1, <2>2 DEF LegacyInv
<1>5. CASE Say
  <2>1. UNCHANGED <<cursor, covers, state, retired, disabling>> /\ messages' = messages + 1
    BY <1>5 DEF Say, rows, requests
  <2>2. PICK n \in Nat : n = messages
    BY DEF TypeOK
  <2>3. n * Size \in Nat /\ (n + 1) * Size \in Nat /\ n * Size <= (n + 1) * Size
    BY NumberTypes, Product
  <2>4. 1..messages * Size \subseteq 1..messages' * Size
    BY <2>1, <2>2, <2>3
  <2> QED
    BY <2>1, <2>4 DEF LegacyInv
<1>6. CASE ReadBatch \/ PickExisting \/ RollBack \/ UNCHANGED vars
           \/ \E i \in Summaries : BeginDelete(i)
  <2>1. UNCHANGED <<cursor, messages, covers, state, retired, disabling>>
    BY <1>6 DEF ReadBatch, PickExisting, RollBack, BeginDelete, vars, rows, requests, history
  <2> QED
    BY <2>1 DEF LegacyInv
<1> QED
  BY <1>1, <1>2, <1>3, <1>4, <1>5, <1>6 DEF Next

LEMMA LostNext ==
    ASSUME TypeOK, CursorInv, JobInv, LegacyInv, LostInv, SummaryInv, [Next]_vars
    PROVE  LostInv'
<1> DEFINE Requested == \A i \in Summaries :
                           i \in deleting \/ disabling[i] # NoTime => state[i] # "absent"
           Before == cursor.kind # "none" => \A i \in Summaries : Lost(i) =>
                        /\ covers[i] \subseteq 1..UpTo(cursor)
                        /\ \A j \in Active : covers[i] \cap covers[j] = {}
<1>1. CASE Commit
  <2>1. Requested'
    BY <1>1 DEF Commit, TypeOK, LostInv, requests
  <2>2. cursor' = job.next /\ ~Untouched
    BY <1>1 DEF Commit, Untouched
  <2>3. PICK lo \in Nat, hi \in Nat : hi = UpTo(job.next) /\ BatchFrom(lo)
    BY <1>1, CommitExtends
  <2>4. ASSUME NEW i \in Summaries, Lost(i)'
        PROVE  /\ covers'[i] \subseteq 1..UpTo(cursor')
               /\ \A j \in Active' : covers'[i] \cap covers'[j] = {}
    <3>1. Lost(i) /\ state[i] \in {"disabled", "deleted"}
      BY <2>2, <2>4, LostBefore DEF Lost
    <3>2. covers[i] \subseteq 1..lo /\ job.batch = (lo + 1)..hi /\ lo <= hi
      BY <2>3, <3>1 DEF BatchFrom
    <3>3. covers[i] \cap job.batch = {} /\ covers[i] \subseteq 1..hi
      BY <3>2
    <3>4. covers'[i] = covers[i]
      BY <1>1, <3>1 DEF Commit, SummaryInv, RowsTyped, LockedIsActive, TypeOK
    <3>5. ASSUME NEW j \in Active PROVE covers[i] \cap covers[j] = {}
      <4>1. CASE cursor.kind = "none"
        <5>1. i = j
          BY <3>1, <3>5, <4>1 DEF LegacyInv, Active
        <5> QED
          BY <3>1, <3>5, <5>1 DEF Active
      <4>2. CASE cursor.kind # "none"
        BY <3>1, <3>5, <4>2 DEF LostInv
      <4> QED
        BY <4>1, <4>2
    <3>6. ASSUME NEW j \in Active' PROVE covers'[i] \cap covers'[j] = {}
      <4>1. \/ j \in Active /\ covers'[j] = covers[j]
            \/ j \in Active /\ covers'[j] = covers[j] \cup job.batch
            \/ covers'[j] = job.batch
        <5>1. CASE job.existing # NoSummary
          <6>1. state' = state /\ covers' = [covers EXCEPT ![job.existing] = @ \cup job.batch]
            BY <1>1, <5>1 DEF Commit
          <6> QED
            BY <3>6, <6>1 DEF Active, TypeOK
        <5>2. CASE job.existing = NoSummary
          <6>1. PICK k \in Summaries : /\ state' = [state EXCEPT ![k] = "active"]
                                       /\ covers' = [covers EXCEPT ![k] = job.batch]
            BY <1>1, <5>2 DEF Commit
          <6> QED
            BY <3>6, <6>1 DEF Active, TypeOK
        <5> QED
          BY <5>1, <5>2
      <4> QED
        BY <3>3, <3>4, <3>5, <4>1
    <3>7. covers'[i] \subseteq 1..UpTo(cursor')
      BY <2>2, <2>3, <3>3, <3>4
    <3> QED
      BY <3>6, <3>7
  <2> QED
    BY <2>1, <2>4 DEF LostInv
<1>2. ASSUME NEW i \in Summaries, Disable(i) PROVE LostInv'
  <2>1. Requested'
    BY <1>2 DEF Disable, TypeOK, LostInv
  <2>2. cursor' = cursor /\ covers' = covers /\ \A j \in Active' : j \in Active
    BY <1>2 DEF Disable, Active, TypeOK
  <2>3. cursor.kind # "none" => \A k \in Summaries : Lost(k)' => Lost(k)
    BY LostBefore DEF Untouched
  <2> QED
    BY <2>1, <2>2, <2>3 DEF LostInv
<1>3. ASSUME NEW i \in Summaries, Delete(i) PROVE LostInv'
  <2>1. Requested'
    BY <1>3 DEF Delete, TypeOK, LostInv
  <2>2. /\ covers' = covers /\ state' = [state EXCEPT ![i] = "deleted"]
        /\ cursor' = IF cursor.kind = "none" THEN AfterTime(messages) ELSE cursor
        /\ state[i] # "absent"
    BY <1>3 DEF Delete, ForgetLine, LostInv
  <2>3. \A j \in Active' : j \in Active /\ j # i
    BY <2>2 DEF Active, TypeOK
  <2>4. CASE cursor.kind = "none"
    <3>1. ASSUME NEW k \in Summaries, state'[k] # "absent" PROVE k = i
      <4>1. state[k] # "absent"
        BY <2>2, <3>1 DEF TypeOK
      <4> QED
        BY <2>2, <2>4, <4>1 DEF LegacyInv
    <3>2. covers[i] \subseteq 1..messages * Size
      BY <2>2, <2>4 DEF LegacyInv
    <3>3. UpTo(cursor') = messages * Size
      <4>1. cursor'.offset = 0 /\ cursor'.message = messages
        BY <2>2, <2>4 DEF AfterTime
      <4> QED
        BY <4>1, Zenon DEF UpTo
    <3>4. Active' = {}
      BY <2>3, <3>1 DEF Active
    <3>5. \A k \in Summaries : Lost(k)' => k = i
      BY <3>1 DEF Lost
    <3> QED
      BY <2>1, <2>2, <3>2, <3>3, <3>4, <3>5 DEF LostInv
  <2>5. CASE cursor.kind # "none"
    <3>1. \A k \in Summaries : Lost(k)' => Lost(k)
      BY <2>5, LostBefore DEF Untouched
    <3> QED
      BY <2>1, <2>2, <2>3, <2>5, <3>1 DEF LostInv
  <2> QED
    BY <2>4, <2>5
<1>4. CASE ReadBatch \/ PickExisting \/ RollBack \/ Say \/ UNCHANGED vars
  <2>1. UNCHANGED <<state, covers, late, cursor, disabling, deleting>>
    BY <1>4 DEF ReadBatch, PickExisting, RollBack, Say, vars, rows, requests, history
  <2> QED
    BY <2>1 DEF LostInv, Lost, Active
<1>5. ASSUME NEW i \in Summaries, BeginDisable(i) \/ BeginDelete(i) PROVE LostInv'
  <2>1. UNCHANGED <<state, covers, late, cursor>>
    BY <1>5 DEF BeginDisable, BeginDelete, rows, history
  <2>2. Requested'
    BY <1>5, <2>1 DEF BeginDisable, BeginDelete, TypeOK, LostInv
  <2> QED
    BY <2>1, <2>2 DEF LostInv, Lost, Active
<1> QED
  BY <1>1, <1>2, <1>3, <1>4, <1>5 DEF Next

LEMMA FoldInit == Init => FoldInv
<1> SUFFICES ASSUME Init PROVE FoldInv
  OBVIOUS
<1>1. PICK old \in SUBSET Summaries, s \in {"active", "disabled"} :
        /\ \A i, j \in old : i = j
        /\ state = [i \in Summaries |-> IF i \in old THEN s ELSE "absent"]
        /\ retired = [i \in Summaries |-> IF i \in old /\ s = "disabled" THEN messages ELSE NoTime]
        /\ covers = [i \in Summaries |-> IF i \in old THEN 1..messages * Size ELSE {}]
  BY DEF Init
<1>2. /\ messages \in 0..MaxMessages /\ cursor = NoCursor /\ job = Idle
      /\ disabling = [i \in Summaries |-> NoTime] /\ deleting = {} /\ folded = {} /\ late = {}
      /\ lines = {retired[i] : i \in Summaries} \ {NoTime}
  BY DEF Init
<1>3. \A i \in Summaries : /\ retired[i] \in {messages, NoTime}
                           /\ state[i] = "disabled" => retired[i] = messages /\ retired[i] # NoTime
  BY <1>1, <1>2, NumberTypes
<1>4. TypeOK
  <2>1. PICK n \in Nat, most \in Nat : n = messages /\ most = MaxMessages /\ n <= most
    BY <1>2, NumberTypes
  <2>2. n * Size <= most * Size /\ n * Size \in Nat /\ most * Size \in Nat
    BY <2>1, NumberTypes, Product
  <2>3. 1..messages * Size \subseteq Pieces
    BY <2>1, <2>2 DEF Pieces
  <2>4. covers \in [Summaries -> SUBSET Pieces]
    BY <1>1, <2>3
  <2>5. job \in JobTypes
    BY <1>2, IdleType
  <2>6. lines \subseteq 0..MaxMessages
    BY <1>2, <1>3
  <2> QED
    BY <1>1, <1>2, <2>4, <2>5, <2>6, NumberTypes DEF TypeOK, JobTypes
<1>5. CursorInv
  BY <1>2, <1>3 DEF CursorInv, NoCursor
<1>6. JobInv
  BY <1>2 DEF JobInv, Idle
<1>7. LegacyInv
  <2>1. ASSUME NEW i \in Summaries, state[i] # "absent"
        PROVE  i \in old /\ state[i] # "deleted" /\ covers[i] \subseteq 1..messages * Size
    BY <1>1, <2>1
  <2>2. \A i \in Summaries : disabling[i] = NoTime
    BY <1>2
  <2> QED
    BY <1>1, <1>3, <2>1, <2>2 DEF LegacyInv
<1>8. LostInv
  BY <1>2 DEF LostInv, NoCursor
<1> QED
  BY <1>4, <1>5, <1>6, <1>7, <1>8 DEF FoldInv

LEMMA FoldNext == FoldInv /\ SummaryInv /\ [Next]_vars => FoldInv'
BY TypeNext, CursorNext, JobNext, LegacyNext, LostNext DEF FoldInv

LEMMA FoldInvariant == Spec => []FoldInv
BY FoldInit, FoldNext, SummaryInvariant, PTL DEF Spec

-----------------------------------------------------------------------------

\* What is in summaries is what lies between the place where compaction started
\* and the cursor (_source_messages, _batch and the cursor that _update stores),
\* and the batch of the compaction in progress lies behind it.
THEOREM CursorIsTrue == Spec => []CursorTellsWhatIsFolded
<1>1. FoldInv => CursorTellsWhatIsFolded
  <2> SUFFICES ASSUME FoldInv PROVE CursorTellsWhatIsFolded
    OBVIOUS
  <2> USE DEF FoldInv
  <2>1. ASSUME NEW start \in {0} \cup lines PROVE start * Size \in Nat
    BY <2>1, NumberTypes DEF TypeOK
  <2>2. folded # {} => \E start \in {0} \cup lines : folded = (start * Size + 1)..UpTo(cursor)
    BY DEF CursorInv
  <2>3. job.batch \cap folded = {}
    <3>1. CASE folded = {} \/ job.phase = "idle"
      BY <3>1 DEF JobInv
    <3>2. CASE folded # {} /\ job.phase # "idle"
      <4>1. PICK lo \in Nat : BatchFrom(lo)
        BY <3>2 DEF JobInv
      <4>2. PICK start \in {0} \cup lines : folded = (start * Size + 1)..UpTo(cursor)
        BY <2>2, <3>2
      <4>3. cursor.kind = "at"
        BY <3>2 DEF CursorInv
      <4>4. lo = UpTo(cursor) /\ job.batch = (lo + 1)..UpTo(job.next)
        BY <4>1, <4>3 DEF BatchFrom
      <4>5. PICK from \in Nat : from = start * Size
        BY <2>1
      <4>6. folded = (from + 1)..lo
        BY <4>2, <4>4, <4>5
      <4>7. ASSUME NEW piece \in job.batch, piece \in folded PROVE FALSE
        BY <4>4, <4>6, <4>7
      <4> QED
        BY <4>7
    <3> QED
      BY <3>1, <3>2
  <2> QED
    BY <2>2, <2>3 DEF CursorTellsWhatIsFolded
<1> QED
  BY <1>1, FoldInvariant, PTL

\* What a summary that was forgotten before compaction began was made from lies
\* before the place where compaction reads on, so no active summary is ever made
\* from it again.
THEOREM ForgottenDoesNotReturn == Spec => []ForgottenStaysForgotten
<1>1. FoldInv => ForgottenStaysForgotten
  <2> SUFFICES ASSUME FoldInv, NEW i \in Summaries, Regenerated(i), i \notin late PROVE FALSE
    BY DEF ForgottenStaysForgotten
  <2>1. PICK j \in Active : covers[i] \cap covers[j] # {}
    BY DEF Regenerated
  <2>2. Lost(i) /\ state[i] \in {"disabled", "deleted"} /\ state[j] = "active"
    BY DEF Regenerated, Lost, Active
  <2>3. CASE cursor.kind = "none"
    <3>1. i = j
      BY <2>2, <2>3 DEF FoldInv, LegacyInv, Active
    <3> QED
      BY <2>2, <3>1
  <2>4. CASE cursor.kind # "none"
    BY <2>1, <2>2, <2>4 DEF FoldInv, LostInv
  <2> QED
    BY <2>3, <2>4
<1> QED
  BY <1>1, FoldInvariant, PTL

-----------------------------------------------------------------------------
(* Splitting a text.                                                       *)

Kinds == {"x", "s", "p"}

LEMMA PutBefore ==
    ASSUME NEW S, NEW x \in S, NEW t \in Seq(S)
    PROVE  /\ <<x>> \o t \in Seq(S)
           /\ Len(t) \in Nat /\ Len(<<x>> \o t) = Len(t) + 1
           /\ (<<x>> \o t)[1] = x
           /\ \A i \in 1..Len(t) : (<<x>> \o t)[i + 1] = t[i]
OBVIOUS

LEMMA CleanIsSeq ==
    ASSUME NEW raw \in Seq(Kinds)
    PROVE  Clean(raw) \in Seq(Kinds)
<1> DEFINE solid == {i \in DOMAIN raw : raw[i] = "x"}
           first == CHOOSE i \in solid : \A j \in solid : i <= j
           last == CHOOSE i \in solid : \A j \in solid : i >= j
<1>1. CASE solid = {}
  BY <1>1 DEF Clean
<1>2. CASE solid # {}
  <2>1. Len(raw) \in Nat /\ solid \in SUBSET Nat /\ solid \in SUBSET (0..Len(raw))
        /\ solid \in SUBSET (1..Len(raw))
    OBVIOUS
  <2>2. \E i \in solid : \A j \in solid : i <= j
    <3> HIDE DEF solid
    <3> QED
      BY <1>2, <2>1, LeastNumber
  <2>3. \E i \in solid : \A j \in solid : j <= i
    <3> HIDE DEF solid
    <3> QED
      BY <1>2, <2>1, GreatestNumber
  <2>4. first \in solid /\ last \in solid
    <3>1. first \in solid
      <4> HIDE DEF solid
      <4> QED
        BY <2>2
    <3>2. \E i \in solid : \A j \in solid : i >= j
      <4> HIDE DEF solid
      <4> QED
        BY <2>1, <2>3
    <3>3. last \in solid
      <4> HIDE DEF solid
      <4> QED
        BY <3>2
    <3> QED
      BY <3>1, <3>3
  <2>5. PICK a \in 1..Len(raw), b \in 1..Len(raw) : a = first /\ b = last
    <3> HIDE DEF first, last, solid
    <3> QED
      BY <2>1, <2>4
  <2>6. Clean(raw) = SubSeq(raw, a, b)
    BY <1>2, <2>5 DEF Clean
  <2>7. \A i \in a..b : raw[i] \in Kinds
    BY <2>1, <2>5
  <2>8. SubSeq(raw, a, b) \in Seq(Kinds)
    <3> HIDE DEF first, last, solid
    <3>1. a \in Int /\ b \in Int
      BY <2>5
    <3> QED
      BY <2>7, <3>1, SubSeqProperties
  <2> QED
    BY <2>6, <2>8
<1> QED
  BY <1>1, <1>2

\* Where a span ends: it goes beyond its overlap and is no longer than a chunk.
LEMMA SpanEndFacts ==
    ASSUME NEW t \in Seq(Kinds), NEW s \in 0..Len(t)
    PROVE  /\ SpanEnd(t, s) \in 0..Len(t)
           /\ s < Len(t) => s < SpanEnd(t, s)
           /\ SpanEnd(t, s) - s <= ChunkSize
           /\ SpanEnd(t, s) # Len(t) => SpanEnd(t, s) > s + Overlap
<1> USE RetrievalParameters
<1> DEFINE end == Least(s + ChunkSize, Len(t))
           floor == s + Most(ChunkSize \div 2, Overlap + 1)
           at(kind) == {i \in floor..(end - 1) : t[i + 1] = kind}
           last(S) == CHOOSE i \in S : \A j \in S : j <= i
<1>1. Len(t) \in Nat /\ s \in Nat /\ s <= Len(t) /\ ChunkSize \in Nat /\ Overlap \in Nat
      /\ Overlap < ChunkSize
  OBVIOUS
<1>2. end \in Nat /\ end <= s + ChunkSize /\ end <= Len(t) /\ (end = Len(t) \/ end = s + ChunkSize)
  BY <1>1 DEF Least
<1>3. floor \in Nat /\ floor > s + Overlap
  <2>1. ChunkSize \div 2 \in Nat
    BY <1>1
  <2>2. Most(ChunkSize \div 2, Overlap + 1) \in Nat /\ Most(ChunkSize \div 2, Overlap + 1) >= Overlap + 1
    BY <1>1, <2>1 DEF Most
  <2> QED
    BY <1>1, <2>2
<1>4. ASSUME NEW k, at(k) # {} PROVE last(at(k)) \in floor..(end - 1)
  <2>1. at(k) \in SUBSET (0..Len(t)) /\ at(k) \subseteq floor..(end - 1)
    <3> HIDE DEF end, floor
    <3> QED
      BY <1>1, <1>2, <1>3
  <2>2. \E i \in at(k) : \A j \in at(k) : j <= i
    <3> HIDE DEF at
    <3> QED
      BY <1>1, <1>4, <2>1, GreatestNumber
  <2>3. last(at(k)) \in at(k)
    <3> HIDE DEF at
    <3> QED
      BY <2>2
  <2> QED
    BY <2>1, <2>3
<1>5. \/ SpanEnd(t, s) = end
      \/ \E i \in floor..(end - 1) : SpanEnd(t, s) = i + 1 /\ end # Len(t)
  <2>1. SpanEnd(t, s) = IF end = Len(t) THEN end
                        ELSE IF at("p") # {} THEN last(at("p")) + 1
                        ELSE IF at("s") # {} THEN last(at("s")) + 1
                        ELSE end
    BY DEF SpanEnd
  <2> HIDE DEF end, floor, at, last
  <2> QED
    BY <1>4, <2>1
<1> HIDE DEF end, floor, at, last
<1> QED
  BY <1>1, <1>2, <1>3, <1>5

\* The spans from a start on: the recursion of SplitSpans has a solution.
SpansFrom(f, t, s) ==
    <<<<s, SpanEnd(t, s)>>>>
        \o IF SpanEnd(t, s) = Len(t) THEN <<>> ELSE f[NextStart(SpanEnd(t, s))]
Splits(f, t) == f = [s \in 0..Len(t) |-> SpansFrom(f, t, s)]

LEMMA NextStartFacts ==
    ASSUME NEW t \in Seq(Kinds), NEW s \in 0..Len(t), SpanEnd(t, s) # Len(t)
    PROVE  /\ NextStart(SpanEnd(t, s)) = SpanEnd(t, s) - Overlap
           /\ NextStart(SpanEnd(t, s)) \in (s + 1)..(Len(t) - 1)
           /\ SpanEnd(t, NextStart(SpanEnd(t, s))) > SpanEnd(t, s)
<1> USE RetrievalParameters
<1>1. PICK e : e = SpanEnd(t, s)
  OBVIOUS
<1>2. e \in 0..(Len(t) - 1) /\ e > s + Overlap /\ Len(t) \in Nat
  BY <1>1, SpanEndFacts
<1>3. e - Overlap \in Nat /\ e - Overlap \in (s + 1)..(Len(t) - 1) /\ ~(0 > e - Overlap)
  BY <1>2
<1>4. NextStart(e) = e - Overlap
  BY <1>2, <1>3 DEF NextStart, Most
<1>5. PICK n : n = e - Overlap
  OBVIOUS
<1>6. n \in 0..Len(t) /\ n < Len(t)
  BY <1>2, <1>3, <1>5
<1>7. SpanEnd(t, n) \in 0..Len(t) /\ (SpanEnd(t, n) # Len(t) => SpanEnd(t, n) > n + Overlap)
  BY <1>6, SpanEndFacts
<1>8. SpanEnd(t, n) > e
  BY <1>2, <1>5, <1>6, <1>7
<1> QED
  BY <1>1, <1>3, <1>4, <1>5, <1>8

LEMMA SpansFromAgree ==
    ASSUME NEW t \in Seq(Kinds), NEW s \in 0..Len(t), NEW f, NEW g,
           \A n \in (s + 1)..Len(t) : f[n] = g[n]
    PROVE  SpansFrom(f, t, s) = SpansFrom(g, t, s)
<1>1. CASE SpanEnd(t, s) = Len(t)
  BY <1>1 DEF SpansFrom
<1>2. CASE SpanEnd(t, s) # Len(t)
  <2>1. NextStart(SpanEnd(t, s)) \in (s + 1)..(Len(t) - 1)
    BY <1>2, NextStartFacts
  <2>2. NextStart(SpanEnd(t, s)) \in (s + 1)..Len(t)
    BY <2>1
  <2>3. f[NextStart(SpanEnd(t, s))] = g[NextStart(SpanEnd(t, s))]
    BY <2>2
  <2> QED
    BY <2>3 DEF SpansFrom
<1> QED
  BY <1>1, <1>2

SplitsAfter(f, t, m) == \A s \in (Len(t) - m)..Len(t) : f[s] = SpansFrom(f, t, s)

LEMMA SplitsAfterExists ==
    ASSUME NEW t \in Seq(Kinds)
    PROVE  \E f : SplitsAfter(f, t, Len(t))
<1> DEFINE Bad == {m \in 0..Len(t) : ~\E f : SplitsAfter(f, t, m)}
<1>1. Bad \in SUBSET Nat /\ Len(t) \in Nat
  OBVIOUS
<1>2. ASSUME Bad # {} PROVE FALSE
  <2>1. PICK m \in Bad : \A y \in Bad : m <= y
    <3> HIDE DEF Bad
    <3> QED
      BY <1>1, <1>2, LeastNumber
  <2>2. m \in 0..Len(t) /\ ~\E f : SplitsAfter(f, t, m)
    BY <2>1
  <2>3. PICK s0 \in 0..Len(t) : s0 = Len(t) - m
    BY <1>1, <2>2
  <2>4. PICK f : \A s \in (s0 + 1)..Len(t) : f[s] = SpansFrom(f, t, s)
    <3>1. CASE m = 0
      <4>1. (s0 + 1)..Len(t) = {}
        BY <1>1, <2>3, <3>1
      <4> QED
        BY <4>1
    <3>2. CASE m # 0
      <4>1. m - 1 \in 0..Len(t) /\ ~(m <= m - 1) /\ Len(t) - (m - 1) = s0 + 1
        BY <1>1, <2>2, <2>3, <3>2
      <4>2. m - 1 \notin Bad
        BY <2>1, <4>1
      <4>3. \E f : SplitsAfter(f, t, m - 1)
        BY <4>1, <4>2
      <4> QED
        BY <4>1, <4>3 DEF SplitsAfter
    <3> QED
      BY <3>1, <3>2
  <2> DEFINE g == [s \in s0..Len(t) |-> IF s = s0 THEN SpansFrom(f, t, s) ELSE f[s]]
  <2>5. ASSUME NEW s \in s0..Len(t) PROVE g[s] = SpansFrom(g, t, s)
    <3>1. s \in 0..Len(t) /\ (\A n \in (s + 1)..Len(t) : n \in s0..Len(t) /\ n # s0)
      BY <1>1
    <3>2. \A n \in (s + 1)..Len(t) : f[n] = g[n]
      BY <3>1
    <3>3. SpansFrom(f, t, s) = SpansFrom(g, t, s)
      <4> HIDE DEF g
      <4> QED
        BY <3>1, <3>2, SpansFromAgree
    <3>4. g[s] = SpansFrom(f, t, s)
      <4>1. CASE s = s0
        BY <4>1
      <4>2. CASE s # s0
        <5>1. s \in (s0 + 1)..Len(t)
          BY <1>1, <4>2
        <5> QED
          BY <2>4, <4>2, <5>1
      <4> QED
        BY <4>1, <4>2
    <3> HIDE DEF g
    <3> QED
      BY <3>3, <3>4
  <2>6. SplitsAfter(g, t, m)
    <3> HIDE DEF g
    <3> QED
      BY <2>3, <2>5 DEF SplitsAfter
  <2> QED
    BY <2>2, <2>6
<1>3. Len(t) \notin Bad
  BY <1>2
<1> QED
  BY <1>1, <1>3

LEMMA SplitsExists ==
    ASSUME NEW t \in Seq(Kinds)
    PROVE  \E f : Splits(f, t)
<1>1. PICK f : SplitsAfter(f, t, Len(t))
  BY SplitsAfterExists
<1>2. Len(t) \in Nat /\ Len(t) - Len(t) = 0
  OBVIOUS
<1>3. \A s \in 0..Len(t) : f[s] = SpansFrom(f, t, s)
  BY <1>1, <1>2 DEF SplitsAfter
<1> DEFINE g == [s \in 0..Len(t) |-> f[s]]
<1>4. ASSUME NEW s \in 0..Len(t) PROVE g[s] = SpansFrom(g, t, s)
  <2>1. \A n \in (s + 1)..Len(t) : f[n] = g[n]
    BY <1>2
  <2>2. g[s] = f[s]
    OBVIOUS
  <2> HIDE DEF g
  <2>3. SpansFrom(f, t, s) = SpansFrom(g, t, s)
    BY <2>1, SpansFromAgree
  <2> QED
    BY <1>3, <2>2, <2>3
<1>5. g = [s \in 0..Len(t) |-> g[s]]
  OBVIOUS
<1> HIDE DEF g
<1>6. Splits(g, t)
  BY <1>4, <1>5 DEF Splits
<1> QED
  BY <1>6

\* What the spans from a start on look like.
SpansCover(spans, t, s) ==
    /\ spans \in Seq(Nat \X Nat) /\ spans # <<>>
    /\ spans[1] = <<s, SpanEnd(t, s)>>
    /\ spans[Len(spans)][2] = Len(t)
    /\ \A i \in DOMAIN spans : spans[i][1] < spans[i][2] /\ spans[i][2] - spans[i][1] <= ChunkSize
    /\ \A i \in 1..(Len(spans) - 1) :
          /\ spans[i + 1][1] = spans[i][2] - Overlap
          /\ spans[i][1] < spans[i + 1][1] /\ spans[i][2] < spans[i + 1][2]

LEMMA LastSpan ==
    ASSUME NEW t \in Seq(Kinds), NEW s \in 0..Len(t), s < Len(t), SpanEnd(t, s) = Len(t)
    PROVE  SpansCover(<<<<s, SpanEnd(t, s)>>>>, t, s)
<1>1. PICK e \in Nat : e = SpanEnd(t, s) /\ e = Len(t) /\ s < e /\ e - s <= ChunkSize
  BY SpanEndFacts
<1>2. SpansCover(<<<<s, e>>>>, t, s)
  <2>1. PICK x : x = <<s, e>>
    OBVIOUS
  <2>2. x \in Nat \X Nat /\ x[1] = s /\ x[2] = e
    BY <2>1
  <2>3. <<x>> \in Seq(Nat \X Nat) /\ Len(<<x>>) = 1 /\ <<x>>[1] = x /\ DOMAIN <<x>> = 1..1 /\ <<x>> # <<>>
    BY <2>2
  <2> QED
    BY <1>1, <2>1, <2>2, <2>3 DEF SpansCover
<1> QED
  BY <1>1, <1>2

LEMMA SpanBefore ==
    ASSUME NEW t \in Seq(Kinds), NEW s \in 0..Len(t), SpanEnd(t, s) # Len(t),
           NEW rest, SpansCover(rest, t, NextStart(SpanEnd(t, s)))
    PROVE  SpansCover(<<<<s, SpanEnd(t, s)>>>> \o rest, t, s)
<1>1. PICK e \in Nat : e = SpanEnd(t, s) /\ s < e /\ e - s <= ChunkSize /\ s \in Nat
  <2>1. s < Len(t)
    BY SpanEndFacts, RetrievalParameters
  <2> QED
    BY <2>1, SpanEndFacts
<1>2. PICK n : n = NextStart(e)
  OBVIOUS
<1>3. n = e - Overlap /\ n \in Nat /\ n > s /\ SpanEnd(t, n) > e /\ SpanEnd(t, n) \in Nat
  <2>1. n = e - Overlap /\ n \in (s + 1)..(Len(t) - 1) /\ SpanEnd(t, n) > e
    BY <1>1, <1>2, NextStartFacts
  <2>2. n \in 0..Len(t)
    BY <2>1
  <2> QED
    BY <2>1, <2>2, SpanEndFacts
<1>4. PICK x : x = <<s, e>>
  OBVIOUS
<1>a. x \in Nat \X Nat /\ x[1] = s /\ x[2] = e
  BY <1>1, <1>4
<1>5. /\ rest \in Seq(Nat \X Nat) /\ rest # <<>> /\ rest[1] = <<n, SpanEnd(t, n)>>
      /\ rest[Len(rest)][2] = Len(t)
      /\ \A i \in DOMAIN rest : rest[i][1] < rest[i][2] /\ rest[i][2] - rest[i][1] <= ChunkSize
      /\ \A i \in 1..(Len(rest) - 1) :
            /\ rest[i + 1][1] = rest[i][2] - Overlap
            /\ rest[i][1] < rest[i + 1][1] /\ rest[i][2] < rest[i + 1][2]
  BY <1>1, <1>2 DEF SpansCover
<1>6. PICK m \in Nat \ {0} : m = Len(rest)
  BY <1>5, EmptySeq
<1>7. PICK all : all = <<x>> \o rest
  OBVIOUS
<1>8. /\ all \in Seq(Nat \X Nat) /\ Len(all) = m + 1 /\ DOMAIN all = 1..(m + 1) /\ DOMAIN rest = 1..m
      /\ all[1] = x /\ \A i \in 1..m : all[i + 1] = rest[i]
  BY <1>5, <1>6, <1>7, <1>a, PutBefore
<1>9. all # <<>> /\ all[m + 1] = rest[m]
  BY <1>8
<1>10. ASSUME NEW i \in 1..(m + 1) PROVE all[i][1] < all[i][2] /\ all[i][2] - all[i][1] <= ChunkSize
  <2>1. CASE i = 1
    BY <1>1, <1>a, <1>8, <2>1
  <2>2. CASE i # 1
    <3>1. i - 1 \in 1..m /\ (i - 1) + 1 = i
      BY <2>2
    <3>2. all[i] = rest[i - 1]
      BY <1>8, <3>1
    <3> QED
      BY <1>5, <1>8, <3>1, <3>2
  <2> QED
    BY <2>1, <2>2
<1>11. ASSUME NEW i \in 1..m
       PROVE  /\ all[i + 1][1] = all[i][2] - Overlap
              /\ all[i][1] < all[i + 1][1] /\ all[i][2] < all[i + 1][2]
  <2>1. CASE i = 1
    <3>1. all[i + 1] = rest[1] /\ all[i] = x
      BY <1>8, <2>1
    <3>2. rest[1][1] = n /\ rest[1][2] = SpanEnd(t, n)
      BY <1>5
    <3> QED
      BY <1>3, <1>a, <3>1, <3>2
  <2>2. CASE i # 1
    <3>1. PICK j \in 1..(m - 1) : j + 1 = i
      BY <2>2
    <3>2. all[i + 1] = rest[i] /\ all[j + 1] = rest[j]
      <4>1. i \in 1..m /\ j \in 1..m
        BY <3>1
      <4> QED
        BY <1>8, <4>1
    <3> QED
      BY <1>5, <1>6, <3>1, <3>2
  <2> QED
    BY <2>1, <2>2
<1>12. SpansCover(all, t, s)
  <2>1. all[Len(all)][2] = Len(t) /\ Len(all) - 1 = m /\ all[1] = <<s, SpanEnd(t, s)>>
    BY <1>1, <1>4, <1>5, <1>6, <1>8, <1>9
  <2> QED
    BY <1>8, <1>9, <1>10, <1>11, <2>1 DEF SpansCover
<1> QED
  BY <1>1, <1>4, <1>7, <1>12

LEMMA SplitsCover ==
    ASSUME NEW t \in Seq(Kinds), t # <<>>, NEW f, Splits(f, t)
    PROVE  SpansCover(f[0], t, 0)
<1>1. \A s \in 0..Len(t) : f[s] = SpansFrom(f, t, s)
  BY DEF Splits
<1>2. PICK l \in Nat \ {0} : l = Len(t)
  BY EmptySeq
<1> DEFINE Bad == {m \in 1..l : ~SpansCover(f[l - m], t, l - m)}
<1>3. ASSUME Bad # {} PROVE FALSE
  <2>1. PICK m \in Bad : \A y \in Bad : m <= y
    <3>1. Bad \in SUBSET Nat
      OBVIOUS
    <3> HIDE DEF Bad
    <3> QED
      BY <1>3, <3>1, LeastNumber
  <2>2. PICK s \in 0..(l - 1) : s = l - m /\ ~SpansCover(f[s], t, s)
    BY <2>1
  <2>3. s \in 0..Len(t) /\ s < Len(t) /\ f[s] = SpansFrom(f, t, s)
    BY <1>1, <1>2
  <2>4. CASE SpanEnd(t, s) = Len(t)
    <3>1. PICK x : x = <<s, SpanEnd(t, s)>>
      OBVIOUS
    <3>2. x \in Nat \X Nat
      BY <2>3, <3>1, SpanEndFacts
    <3>3. <<x>> \o <<>> = <<x>>
      BY <3>2
    <3>4. f[s] = <<x>>
      BY <2>3, <2>4, <3>1, <3>3 DEF SpansFrom
    <3> QED
      BY <2>2, <2>3, <2>4, <3>1, <3>4, LastSpan
  <2>5. CASE SpanEnd(t, s) # Len(t)
    <3>1. PICK n \in (s + 1)..(l - 1) : n = NextStart(SpanEnd(t, s))
      BY <1>2, <2>3, <2>5, NextStartFacts
    <3>2. l - n \in 1..l /\ ~(m <= l - n) /\ l - (l - n) = n
      BY <2>1, <2>2, <3>1
    <3>3. l - n \notin Bad
      BY <2>1, <3>2
    <3>4. SpansCover(f[n], t, n)
      BY <3>2, <3>3
    <3>5. f[s] = <<<<s, SpanEnd(t, s)>>>> \o f[n]
      BY <2>3, <2>5, <3>1 DEF SpansFrom
    <3> QED
      BY <2>2, <2>3, <2>5, <3>1, <3>4, <3>5, SpanBefore
  <2> QED
    BY <2>4, <2>5
<1>4. l \notin Bad
  BY <1>3
<1>5. l \in 1..l /\ l - l = 0
  OBVIOUS
<1> QED
  BY <1>4, <1>5

\* _split_spans, for every text and every chunk_size above its overlap.
THEOREM SpansCoverText ==
    ASSUME NEW raw \in Seq(Kinds)
    PROVE  /\ SplitSpans(raw) \in Seq(Nat \X Nat)
           /\ Covers(SplitSpans(raw), raw)
<1>1. PICK t \in Seq(Kinds) : t = Clean(raw)
  BY CleanIsSeq
<1>2. CASE t = <<>>
  <2>1. SplitSpans(raw) = <<>>
    BY <1>1, <1>2 DEF SplitSpans
  <2> QED
    BY <1>1, <1>2, <2>1 DEF Covers
<1>3. CASE t # <<>>
  <2> DEFINE from == CHOOSE f : Splits(f, t)
  <2>1. SplitSpans(raw) = from[0]
    BY <1>1, <1>3 DEF SplitSpans, Splits, SpansFrom
  <2>2. Splits(from, t)
    BY SplitsExists
  <2>3. PICK spans : spans = from[0]
    OBVIOUS
  <2> HIDE DEF from
  <2>4. SpansCover(spans, t, 0)
    BY <1>3, <2>2, <2>3, SplitsCover
  <2>5. Head(spans) = spans[1] /\ Head(spans)[1] = 0 /\ Last(spans)[2] = Len(t)
    BY <2>4, HeadTailProperties DEF SpansCover, Last
  <2>6. Covers(spans, raw) /\ spans \in Seq(Nat \X Nat)
    BY <1>1, <1>3, <2>4, <2>5 DEF SpansCover, Covers
  <2> QED
    BY <2>1, <2>3, <2>6
<1> QED
  BY <1>2, <1>3

-----------------------------------------------------------------------------
(* The index.                                                              *)

Numbers(n) == [i \in 1..n |-> i]
Zeros(n) == [i \in 1..n |-> 0]

TypedIndex ==
    /\ text \in [Docs -> Seq(Kinds)] /\ chunks \in [Docs -> Seq(Nat)]
    /\ meta \in [Docs -> [count : Nat, embedded : Nat]] /\ conversation \in {"there", "gone"}
    /\ docLock \in [Docs -> {Free} \cup Reindexers] /\ chunkLock \in [Docs -> {Free, Deleter}]
    /\ search.step \in {"none", "words", "found"}

Whole(d) == Stored(d) =>
    \/ chunks[d] = Numbers(SpanCount(d)) /\ meta[d] = [count |-> SpanCount(d), embedded |-> SpanCount(d)]
    \/ chunks[d] = Zeros(SpanCount(d)) /\ meta[d] = [count |-> SpanCount(d), embedded |-> 0]

Deletes == [step |-> "chunks"]
Indexings == [step : {"embedding", "embedded"}, doc : Docs, vectors : Seq(Nat)]

\* What a request that indexes a document has in its hands: vectors for the
\* first chunks, then for all or none; a document that is new, or one that is
\* stored and locked.
InHand(j) ==
    LET d == request[j].doc IN
    /\ request[j].step = "embedding" => \E k \in 0..(SpanCount(d) - 1) : request[j].vectors = Numbers(k)
    /\ request[j].step = "embedded" => SpanCount(d) # 0 /\ request[j].vectors \in {<<>>, Numbers(SpanCount(d))}
    /\ j \in Docs => d = j
    /\ j \in Reindexers => Stored(d) /\ docLock[d] = j

JobsInv ==
    /\ request \in [Jobs -> {NotBegun, Finished, Deletes} \cup Indexings]
    /\ request[Deleter] \notin Indexings
    /\ \A j \in Docs \cup Reindexers : request[j] \in Indexings => InHand(j)
    /\ \A d \in Docs : request[d] # Finished => ~Stored(d)

IndexInv == TypedIndex /\ JobsInv /\ \A d \in Docs : Whole(d)

LEMMA SizeFacts ==
    ASSUME TypedIndex, NEW d \in Docs
    PROVE  /\ SpanCount(d) \in Nat /\ (SpanCount(d) = 0 <=> SplitSpans(text[d]) = <<>>)
           /\ Covers(SplitSpans(text[d]), text[d])
<1>1. text[d] \in Seq(Kinds)
  BY DEF TypedIndex
<1>2. SplitSpans(text[d]) \in Seq(Nat \X Nat) /\ Covers(SplitSpans(text[d]), text[d])
  BY <1>1, SpansCoverText
<1>3. PICK spans \in Seq(Nat \X Nat) : spans = SplitSpans(text[d])
  BY <1>2
<1>4. Len(spans) \in Nat /\ (Len(spans) = 0 <=> spans = <<>>)
  BY EmptySeq
<1> QED
  BY <1>2, <1>3, <1>4 DEF SpanCount

LEMMA NumbersFacts ==
    ASSUME NEW n \in Nat
    PROVE  /\ Numbers(n) \in Seq(Nat) /\ Zeros(n) \in Seq(Nat)
           /\ Len(Numbers(n)) = n /\ Len(Zeros(n)) = n
           /\ DOMAIN Numbers(n) = 1..n /\ DOMAIN Zeros(n) = 1..n
           /\ \A i \in 1..n : Numbers(n)[i] = i /\ Zeros(n)[i] = 0
           /\ Numbers(n) = <<>> <=> n = 0
           /\ Zeros(n) = <<>> <=> n = 0
<1>1. /\ Numbers(n) \in Seq(Nat) /\ Zeros(n) \in Seq(Nat)
      /\ Len(Numbers(n)) = n /\ Len(Zeros(n)) = n
      /\ DOMAIN Numbers(n) = 1..n /\ DOMAIN Zeros(n) = 1..n
      /\ \A i \in 1..n : Numbers(n)[i] = i /\ Zeros(n)[i] = 0
  BY DEF Numbers, Zeros
<1> HIDE DEF Numbers, Zeros
<1>2. Numbers(n) = <<>> <=> n = 0
  BY <1>1, EmptySeq
<1>3. Zeros(n) = <<>> <=> n = 0
  BY <1>1, EmptySeq
<1> QED
  BY <1>1, <1>2, <1>3

\* _validate_embeddings: an answer that is accepted has every vector in its place.
LEMMA AlignedIsInOrder ==
    ASSUME NEW n \in Nat, NEW m \in 0..n, NEW answer \in [1..m -> 1..n], ValidResponse(answer, n)
    PROVE  Aligned(answer) = Numbers(n)
<1>1. answer \in Seq(1..n) /\ Len(answer) = m
  OBVIOUS
<1>2. m = n /\ {answer[j] : j \in 1..n} = 1..n
  BY <1>1 DEF ValidResponse, Range
<1>3. ASSUME NEW i \in 1..n PROVE answer[CHOOSE j \in DOMAIN answer : answer[j] = i] = i
  <2>1. \E j \in DOMAIN answer : answer[j] = i
    BY <1>2
  <2> QED
    BY <2>1
<1>4. DOMAIN answer = 1..n
  BY <1>2
<1> QED
  BY <1>3, <1>4 DEF Aligned, Numbers

LEMMA NextBatch ==
    ASSUME NEW k \in Nat, NEW n \in Nat
    PROVE  Numbers(k) \o [i \in DOMAIN Numbers(n) |-> k + Numbers(n)[i]] = Numbers(k + n)
<1>1. PICK a \in Seq(Nat) : /\ a = Numbers(k) /\ Len(a) = k /\ DOMAIN a = 1..k
                           /\ \A i \in 1..k : a[i] = i
  BY NumbersFacts
<1>2. PICK b : b = [i \in DOMAIN Numbers(n) |-> k + Numbers(n)[i]]
  OBVIOUS
<1>3. b = [i \in 1..n |-> k + i]
  BY <1>2, NumbersFacts
<1>4. b \in Seq(Nat) /\ Len(b) = n /\ \A i \in 1..n : b[i] = k + i
  BY <1>3
<1>5. PICK c : c = a \o b
  OBVIOUS
<1>6. /\ c \in Seq(Nat) /\ Len(c) = k + n
      /\ \A i \in 1..k : c[i] = a[i]
      /\ \A i \in 1..n : c[k + i] = b[i]
  <2>1. /\ c \in Seq(Nat) /\ Len(c) = Len(a) + Len(b)
        /\ \A i \in 1..(Len(a) + Len(b)) : c[i] = IF i <= Len(a) THEN a[i] ELSE b[i - Len(a)]
    BY <1>1, <1>4, <1>5, ConcatProperties
  <2>2. ASSUME NEW i \in 1..n PROVE c[k + i] = b[i]
    <3>1. k + i \in 1..(k + n) /\ ~(k + i <= k) /\ (k + i) - k = i
      OBVIOUS
    <3> QED
      BY <1>1, <1>4, <2>1, <3>1
  <2> QED
    BY <1>1, <1>4, <2>1, <2>2
<1>7. ASSUME NEW i \in 1..(k + n) PROVE c[i] = i
  <2>1. CASE i <= k
    BY <1>1, <1>6, <2>1
  <2>2. CASE i > k
    <3>1. i - k \in 1..n /\ k + (i - k) = i
      BY <2>2
    <3> QED
      BY <1>4, <1>6, <3>1
  <2> QED
    BY <2>1, <2>2
<1>8. c = [i \in 1..(k + n) |-> c[i]]
  BY <1>6
<1>9. c = Numbers(k + n)
  BY <1>7, <1>8 DEF Numbers
<1> QED
  BY <1>1, <1>2, <1>5, <1>9

LEMMA Steps ==
    /\ NotBegun \notin Indexings /\ Finished \notin Indexings /\ Deletes \notin Indexings
    /\ NotBegun # Finished /\ Deletes # Finished /\ NotBegun # Deletes
    /\ \A r \in Indexings : r.doc \in Docs /\ r.vectors \in Seq(Nat)
                            /\ r.step \in {"embedding", "embedded"} /\ r # Finished
    /\ NotBegun.step = "idle" /\ Finished.step = "over" /\ Deletes.step = "chunks"
BY DEF NotBegun, Finished, Deletes, Indexings

LEMMA AtWork ==
    ASSUME JobsInv, NEW j \in Docs \cup Reindexers, request[j].step \in {"embedding", "embedded"}
    PROVE  /\ request[j] \in Indexings /\ InHand(j) /\ request[j].doc \in Docs
           /\ request[j].vectors \in Seq(Nat) /\ request[j] # Finished
<1>1. request[j] \in {NotBegun, Finished, Deletes} \cup Indexings
  BY DEF JobsInv, Jobs
<1>2. request[j] \in Indexings
  BY <1>1, Steps
<1> QED
  BY <1>2, Steps DEF JobsInv

LEMMA WriteFacts ==
    ASSUME TypedIndex, NEW d \in Docs, SpanCount(d) # 0, NEW vectors,
           vectors \in {<<>>, Numbers(SpanCount(d))}, Write(d, vectors), text' = text
    PROVE  /\ chunks' \in [Docs -> Seq(Nat)] /\ meta' \in [Docs -> [count : Nat, embedded : Nat]]
           /\ Whole(d)' /\ Stored(d)' /\ (vectors # <<>> => HasVectors(d)')
           /\ \A e \in Docs \ {d} : chunks'[e] = chunks[e] /\ meta'[e] = meta[e]
<1>1. PICK n \in Nat \ {0} : n = SpanCount(d)
  BY SizeFacts
<1>2. SpanCount(d)' = n
  BY <1>1 DEF SpanCount
<1>3. /\ chunks' = [chunks EXCEPT ![d] = IF vectors = <<>> THEN Zeros(n) ELSE vectors]
      /\ meta' = [meta EXCEPT ![d] = [count |-> n, embedded |-> Len(vectors)]]
  BY <1>1 DEF Write, Zeros
<1>4. chunks \in [Docs -> Seq(Nat)] /\ meta \in [Docs -> [count : Nat, embedded : Nat]]
  BY DEF TypedIndex
<1>5. CASE vectors = <<>>
  <2>1. chunks' = [chunks EXCEPT ![d] = Zeros(n)] /\ Zeros(n) \in Seq(Nat) /\ Zeros(n) # <<>>
    BY <1>1, <1>3, <1>5, NumbersFacts
  <2>2. meta' = [meta EXCEPT ![d] = [count |-> n, embedded |-> 0]]
    BY <1>3, <1>5
  <2>3. chunks'[d] = Zeros(n) /\ meta'[d] = [count |-> n, embedded |-> 0]
    BY <1>4, <2>1, <2>2
  <2> HIDE DEF Zeros
  <2> QED
    BY <1>1, <1>2, <1>4, <1>5, <2>1, <2>2, <2>3 DEF Whole, Stored, NotThere
<1>6. CASE vectors # <<>>
  <2>1. /\ chunks' = [chunks EXCEPT ![d] = Numbers(n)] /\ Numbers(n) \in Seq(Nat)
        /\ Numbers(n) # <<>> /\ DOMAIN Numbers(n) = 1..n /\ Numbers(n)[1] = 1 /\ Len(Numbers(n)) = n
    <3>1. vectors = Numbers(n)
      BY <1>1, <1>6
    <3>2. 1 \in 1..n /\ n # 0
      OBVIOUS
    <3> QED
      BY <1>3, <1>6, <3>1, <3>2, NumbersFacts
  <2>2. meta' = [meta EXCEPT ![d] = [count |-> n, embedded |-> n]]
    <3>1. vectors = Numbers(n)
      BY <1>1, <1>6
    <3> QED
      BY <1>3, <2>1, <3>1
  <2>3. chunks'[d] = Numbers(n) /\ meta'[d] = [count |-> n, embedded |-> n]
    BY <1>4, <2>1, <2>2
  <2>4. Stored(d)'
    BY <2>1, <2>3 DEF Stored, NotThere
  <2>5. HasVectors(d)'
    <3>1. 1 \in DOMAIN chunks'[d] /\ chunks'[d][1] # 0
      BY <1>1, <2>1, <2>3
    <3> QED
      BY <2>4, <3>1 DEF HasVectors
  <2>6. Whole(d)'
    BY <1>2, <2>3 DEF Whole
  <2> QED
    BY <1>4, <2>1, <2>2, <2>4, <2>5, <2>6
<1> QED
  BY <1>5, <1>6

\* One request takes a step, which takes nothing from the others.
LEMMA JobChange ==
    ASSUME JobsInv, NEW j \in Jobs, NEW r, SetJob(j, r), text' = text,
           r \in {NotBegun, Finished, Deletes} \cup Indexings,
           j = Deleter => r \notin Indexings,
           r \in Indexings => InHand(j)',
           \A i \in Reindexers \ {j} : request[i] \in Indexings =>
               chunks'[request[i].doc] # NotThere /\ docLock'[request[i].doc] = i,
           \A d \in Docs : chunks'[d] # NotThere => (IF d = j THEN r ELSE request[d]) = Finished
    PROVE  JobsInv'
<1>1. /\ request \in [Jobs -> {NotBegun, Finished, Deletes} \cup Indexings]
      /\ request' = [request EXCEPT ![j] = r]
      /\ Deleter \in Jobs /\ Docs \subseteq Jobs /\ Reindexers \subseteq Jobs
  BY DEF JobsInv, SetJob, Jobs
<1>2. /\ request' \in [Jobs -> {NotBegun, Finished, Deletes} \cup Indexings]
      /\ request'[j] = r /\ \A i \in Jobs \ {j} : request'[i] = request[i]
  BY <1>1
<1>3. request'[Deleter] \notin Indexings
  BY <1>1, <1>2 DEF JobsInv
<1>4. ASSUME NEW i \in Docs \cup Reindexers, request'[i] \in Indexings PROVE InHand(i)'
  <2>1. CASE i = j
    BY <1>2, <1>4, <2>1
  <2>2. CASE i # j
    <3>1. request'[i] = request[i] /\ request[i] \in Indexings /\ InHand(i)
      BY <1>1, <1>2, <1>4, <2>2 DEF JobsInv
    <3>2. PICK d : d = request[i].doc
      OBVIOUS
    <3>3. SpanCount(d)' = SpanCount(d) /\ (i \in Reindexers => Stored(d)' /\ docLock'[d] = i)
      BY <2>2, <3>1, <3>2 DEF SpanCount, Stored
    <3>4. /\ request[i].step = "embedding" => \E k \in 0..(SpanCount(d) - 1) : request[i].vectors = Numbers(k)
          /\ request[i].step = "embedded" => SpanCount(d) # 0 /\ request[i].vectors \in {<<>>, Numbers(SpanCount(d))}
          /\ i \in Docs => d = i
      BY <3>1, <3>2 DEF InHand
    <3>5. d = request'[i].doc
      BY <3>1, <3>2
    <3> QED
      BY <3>1, <3>3, <3>4, <3>5 DEF InHand, SpanCount, Stored
  <2> QED
    BY <2>1, <2>2
<1>5. ASSUME NEW d \in Docs, request'[d] # Finished PROVE ~Stored(d)'
  BY <1>1, <1>2, <1>5 DEF Stored
<1> QED
  BY <1>2, <1>3, <1>4, <1>5 DEF JobsInv, NotBegun, Finished, Deletes

\* What the others have in hand.
LEMMA OthersKeep ==
    ASSUME JobsInv
    PROVE  /\ \A i \in Reindexers : request[i] \in Indexings =>
                 request[i].doc \in Docs /\ chunks[request[i].doc] # NotThere /\ docLock[request[i].doc] = i
           /\ \A d \in Docs : chunks[d] # NotThere => request[d] = Finished
BY Steps DEF JobsInv, InHand, Stored

\* A batch of vectors is put behind those that are there.
LEMMA BatchNext ==
    ASSUME IndexInv, NEW j \in Docs \cup Reindexers, EmbedBatch(j)
    PROVE  \E r \in Indexings : /\ SetJob(j, r) /\ r.doc = request[j].doc
                                /\ r.step = "embedding" =>
                                      \E k \in 0..(SpanCount(r.doc) - 1) : r.vectors = Numbers(k)
                                /\ r.step = "embedded" => r.vectors \in {<<>>, Numbers(SpanCount(r.doc))}
                                /\ SpanCount(r.doc) # 0
<1> USE DEF IndexInv
<1>1. request[j].step = "embedding"
  BY DEF EmbedBatch
<1>2. PICK d \in Docs : d = request[j].doc
  BY <1>1, AtWork
<1>3. request[j] \in Indexings /\ \E k \in 0..(SpanCount(d) - 1) : request[j].vectors = Numbers(k)
  BY <1>1, <1>2, AtWork DEF InHand
<1>a. PICK s \in Nat : s = SpanCount(d)
  BY SizeFacts
<1>4. PICK k \in 0..(s - 1) : s = SpanCount(d) /\ s # 0 /\ request[j].vectors = Numbers(k)
  BY <1>3, <1>a
<1>5. PICK n : n = Least(Batch, s - k)
  OBVIOUS
<1>6. n \in 1..(s - k) /\ n \in Nat /\ k \in Nat /\ k + n \in 0..s
  BY <1>4, <1>5, KnowledgeParameters DEF Least
<1>7. Len(Numbers(k)) = k
  BY <1>6, NumbersFacts
<1>8. PICK answer \in UNION {[1..m -> 1..n] : m \in 0..n} :
         LET got == Numbers(k) \o [i \in DOMAIN Aligned(answer) |-> k + Aligned(answer)[i]]
         IN  IF ~ValidResponse(answer, n) THEN EmbeddingFails(j)
             ELSE SetJob(j, [request[j] EXCEPT
                    !.step = IF Len(got) = s THEN "embedded" ELSE "embedding",
                    !.vectors = got])
  BY <1>2, <1>4, <1>5, <1>7 DEF EmbedBatch
<1>9. CASE ~ValidResponse(answer, n)
  <2>1. PICK r : r = [request[j] EXCEPT !.step = "embedded", !.vectors = <<>>]
    OBVIOUS
  <2>2. SetJob(j, r)
    BY <1>8, <1>9, <2>1 DEF EmbeddingFails
  <2>3. r \in Indexings /\ r.doc = d /\ r.step = "embedded" /\ r.vectors = <<>>
    <3>1. PICK e \in Seq(Nat) : e = <<>>
      BY EmptySeq
    <3>2. r = [request[j] EXCEPT !.step = "embedded", !.vectors = e]
      BY <2>1, <3>1
    <3>3. r \in Indexings /\ r.doc = d /\ r.step = "embedded" /\ r.vectors = e
      BY <1>2, <1>3, <3>2 DEF Indexings
    <3> QED
      BY <3>1, <3>3
  <2> QED
    BY <1>2, <1>4, <2>2, <2>3
<1>10. CASE ValidResponse(answer, n)
  <2>1. PICK m \in 0..n : answer \in [1..m -> 1..n]
    OBVIOUS
  <2>2. Aligned(answer) = Numbers(n)
    BY <1>6, <1>10, <2>1, AlignedIsInOrder
  <2>3. PICK got : got = Numbers(k) \o [i \in DOMAIN Numbers(n) |-> k + Numbers(n)[i]]
    OBVIOUS
  <2>4. got = Numbers(k + n)
    BY <1>6, <2>3, NextBatch
  <2>5. k + n \in Nat
    BY <1>6
  <2>6. got \in Seq(Nat) /\ Len(got) = k + n
    BY <2>4, <2>5, NumbersFacts
  <2>7. PICK r : r = [request[j] EXCEPT !.step = IF Len(got) = s THEN "embedded" ELSE "embedding",
                                    !.vectors = got]
    OBVIOUS
  <2>8. SetJob(j, r)
    BY <1>8, <1>10, <2>2, <2>3, <2>7
  <2>9. /\ r \in Indexings /\ r.doc = d /\ r.vectors = got
        /\ r.step = IF Len(got) = s THEN "embedded" ELSE "embedding"
    BY <1>2, <1>3, <2>6, <2>7 DEF Indexings
  <2>10. r.step = "embedding" => k + n \in 0..(s - 1)
    BY <1>6, <2>6, <2>9
  <2>11. r.step = "embedded" => r.vectors = Numbers(s)
    BY <2>4, <2>6, <2>9
  <2> QED
    BY <1>2, <1>4, <2>4, <2>8, <2>9, <2>10, <2>11
<1> QED
  BY <1>9, <1>10

LEMMA IndexNext ==
    ASSUME IndexInv, [RagNext]_ragVars
    PROVE  IndexInv'
<1> USE DEF IndexInv
<1>0. ASSUME UNCHANGED <<text, chunks, meta>>
      PROVE  (\A d \in Docs : Whole(d))' /\ (\A d : Stored(d)' <=> Stored(d))
  BY <1>0 DEF Whole, Stored, SpanCount
<1>a. ASSUME UNCHANGED <<text, chunks, meta, conversation, request, docLock>> PROVE JobsInv'
  BY <1>a DEF JobsInv, InHand, Stored, SpanCount
<1>b. text' = text
  BY DEF RagNext, Upload, InsertDocument, EmbedBatch, LockDocument, WriteIndex, Deadlock,
     DeleteChunks, DeleteDocuments, FindByWords, FindByVector, Answered, index, ragVars
<1>1. ASSUME NEW d \in Docs, Upload(d) PROVE IndexInv'
  <2>1. UNCHANGED <<text, chunks, meta, conversation, docLock, chunkLock, search>>
    BY <1>1 DEF Upload, index, locks, looking
  <2>2. request[d] = NotBegun /\ ~Stored(d) /\ d \in Jobs /\ d # Deleter
    BY <1>1, Steps, KnowledgeParameters DEF Upload, JobsInv, Jobs
  <2>3. CASE SetJob(d, Finished)
    <3>1. JobsInv'
      BY <2>1, <2>2, <2>3, JobChange, OthersKeep, Steps
    <3> QED
      BY <1>0, <2>1, <3>1 DEF TypedIndex
  <2>4. CASE SetJob(d, Embedding(d)) /\ SplitSpans(text[d]) # <<>>
    <3>1. PICK r : r = Embedding(d)
      OBVIOUS
    <3>2. r \in Indexings /\ r.step = "embedding" /\ r.doc = d /\ r.vectors = <<>>
      BY <3>1 DEF Embedding, Indexings
    <3>3. r.vectors = Numbers(0) /\ 0 \in 0..(SpanCount(d) - 1)
      BY <2>4, <3>2, SizeFacts, NumbersFacts
    <3>4. request'[d] = r
      BY <2>2, <2>4, <3>1 DEF SetJob, JobsInv
    <3>5. SpanCount(d)' = SpanCount(d)
      BY <2>1 DEF SpanCount
    <3>6. InHand(d)'
      BY <3>2, <3>3, <3>4, <3>5, KnowledgeParameters DEF InHand, SpanCount
    <3>7. JobsInv'
      BY <2>1, <2>2, <2>4, <3>1, <3>2, <3>6, JobChange, OthersKeep DEF Stored
    <3> QED
      BY <1>0, <2>1, <3>7 DEF TypedIndex
  <2> QED
    BY <1>1, <2>3, <2>4 DEF Upload
<1>2. ASSUME NEW j \in Docs \cup Reindexers, EmbedBatch(j) PROVE IndexInv'
  <2>1. UNCHANGED <<text, chunks, meta, conversation, docLock, chunkLock, search>>
    BY <1>2 DEF EmbedBatch, index, locks, looking
  <2>2. request[j].step = "embedding" /\ j \in Jobs /\ j # Deleter
    BY <1>2, KnowledgeParameters DEF EmbedBatch, Jobs
  <2>3. /\ request[j] \in Indexings /\ request[j] # Finished
        /\ j \in Docs => request[j].doc = j
        /\ j \in Reindexers => Stored(request[j].doc) /\ docLock[request[j].doc] = j
    BY <2>2, AtWork DEF InHand
  <2>4. PICK r \in Indexings :
           /\ SetJob(j, r) /\ r.doc = request[j].doc
           /\ r.step = "embedding" => \E k \in 0..(SpanCount(r.doc) - 1) : r.vectors = Numbers(k)
           /\ r.step = "embedded" => r.vectors \in {<<>>, Numbers(SpanCount(r.doc))}
           /\ SpanCount(r.doc) # 0
    BY <1>2, BatchNext
  <2>5. request'[j] = r
    BY <2>2, <2>4 DEF SetJob, JobsInv
  <2>6. InHand(j)'
    <3>1. PICK d : d = r.doc
      OBVIOUS
    <3>2. SpanCount(d)' = SpanCount(d) /\ (Stored(d) => Stored(d)')
      BY <2>1 DEF SpanCount, Stored
    <3>3. /\ r.step = "embedding" => \E k \in 0..(SpanCount(d) - 1) : r.vectors = Numbers(k)
          /\ r.step = "embedded" => SpanCount(d) # 0 /\ r.vectors \in {<<>>, Numbers(SpanCount(d))}
          /\ j \in Docs => d = j
          /\ j \in Reindexers => Stored(d) /\ docLock[d] = j
      BY <2>3, <2>4, <3>1
    <3> QED
      BY <2>1, <2>5, <3>1, <3>2, <3>3 DEF InHand, SpanCount, Stored
  <2>7. \A d \in Docs : chunks'[d] # NotThere => (IF d = j THEN r ELSE request[d]) = Finished
    BY <2>1, <2>3, OthersKeep
  <2>8. JobsInv'
    BY <2>1, <2>2, <2>4, <2>6, <2>7, JobChange, OthersKeep
  <2> QED
    BY <1>0, <2>1, <2>8 DEF TypedIndex
<1>3. ASSUME NEW d \in Docs, InsertDocument(d) PROVE IndexInv'
  <2>1. UNCHANGED <<text, conversation, docLock, chunkLock, search>> /\ SetJob(d, Finished)
        /\ request[d].step = "embedded"
    BY <1>3 DEF InsertDocument, locks, looking
  <2>2. /\ d \in Jobs /\ d # Deleter /\ request[d] \in Indexings /\ request[d].doc = d
        /\ SpanCount(d) # 0 /\ request[d].vectors \in {<<>>, Numbers(SpanCount(d))}
    BY <2>1, AtWork, KnowledgeParameters DEF InHand, Jobs
  <2>3. CASE UNCHANGED <<chunks, meta>>
    <3>1. JobsInv'
      BY <2>1, <2>2, <2>3, JobChange, OthersKeep, Steps
    <3> QED
      BY <1>0, <2>1, <2>3, <3>1 DEF TypedIndex
  <2>4. CASE Write(d, request[d].vectors)
    <3>1. /\ chunks' \in [Docs -> Seq(Nat)] /\ meta' \in [Docs -> [count : Nat, embedded : Nat]]
          /\ Whole(d)' /\ Stored(d)'
          /\ \A e \in Docs \ {d} : chunks'[e] = chunks[e] /\ meta'[e] = meta[e]
      BY <2>1, <2>2, <2>4, WriteFacts
    <3>2. \A e \in Docs : Whole(e)'
      <4>1. ASSUME NEW e \in Docs \ {d} PROVE Whole(e)'
        BY <2>1, <3>1 DEF Whole, Stored, SpanCount
      <4> QED
        BY <3>1, <4>1
    <3>3. \A i \in Reindexers \ {d} : request[i] \in Indexings =>
              chunks'[request[i].doc] # NotThere /\ docLock'[request[i].doc] = i
      <4>1. ASSUME NEW i \in Reindexers, request[i] \in Indexings
            PROVE  chunks'[request[i].doc] # NotThere /\ docLock'[request[i].doc] = i
        BY <2>1, <3>1, <4>1, OthersKeep DEF Stored
      <4> QED
        BY <4>1
    <3>4. \A e \in Docs : chunks'[e] # NotThere => (IF e = d THEN Finished ELSE request[e]) = Finished
      BY <3>1, OthersKeep
    <3>5. JobsInv'
      BY <2>1, <2>2, <3>3, <3>4, JobChange, Steps
    <3> QED
      BY <2>1, <3>1, <3>2, <3>5 DEF TypedIndex
  <2> QED
    BY <1>3, <2>3, <2>4 DEF InsertDocument
<1>4. ASSUME NEW r \in Reindexers, LockDocument(r) PROVE IndexInv'
  <2>1. UNCHANGED <<text, chunks, meta, conversation, chunkLock, search>> /\ request[r] = NotBegun
    BY <1>4 DEF LockDocument, index, looking
  <2>2. PICK d \in Docs : /\ Stored(d) /\ docLock[d] = Free
                          /\ docLock' = [docLock EXCEPT ![d] = r]
                          /\ SetJob(r, Embedding(d))
    BY <1>4 DEF LockDocument
  <2>3. r \in Jobs /\ r # Deleter /\ r # Free /\ r \notin Docs
    BY KnowledgeParameters DEF Jobs
  <2>4. docLock' \in [Docs -> {Free} \cup Reindexers] /\ docLock'[d] = r
        /\ \A e \in Docs : docLock[e] # Free => docLock'[e] = docLock[e]
    BY <2>2 DEF TypedIndex
  <2>5. PICK new : new = Embedding(d)
    OBVIOUS
  <2>6. new \in Indexings /\ new.step = "embedding" /\ new.doc = d /\ new.vectors = <<>>
    BY <2>5 DEF Embedding, Indexings
  <2>7. SpanCount(d) \in Nat /\ SpanCount(d) # 0
    <3>1. chunks[d] \in {Numbers(SpanCount(d)), Zeros(SpanCount(d))} /\ chunks[d] # <<>>
      BY <2>2 DEF Whole, Stored, NotThere
    <3>2. SpanCount(d) \in Nat
      BY SizeFacts
    <3>3. Numbers(0) = <<>> /\ Zeros(0) = <<>>
      BY NumbersFacts
    <3> QED
      BY <3>1, <3>2, <3>3
  <2>8. new.vectors = Numbers(0) /\ 0 \in 0..(SpanCount(d) - 1)
    <3>1. Numbers(0) = <<>>
      BY NumbersFacts
    <3>2. 0 \in 0..(SpanCount(d) - 1)
      BY <2>7
    <3> QED
      BY <2>6, <3>1, <3>2
  <2>9. request'[r] = new
    BY <2>2, <2>3, <2>5 DEF SetJob, JobsInv
  <2>10. SpanCount(d)' = SpanCount(d) /\ Stored(d)'
    BY <2>1, <2>2 DEF SpanCount, Stored
  <2>11. InHand(r)'
    BY <2>3, <2>4, <2>6, <2>8, <2>9, <2>10 DEF InHand, SpanCount, Stored
  <2>12. \A i \in Reindexers \ {r} : request[i] \in Indexings =>
              chunks'[request[i].doc] # NotThere /\ docLock'[request[i].doc] = i
    <3> SUFFICES ASSUME NEW i \in Reindexers \ {r}, request[i] \in Indexings
                 PROVE  chunks'[request[i].doc] # NotThere /\ docLock'[request[i].doc] = i
      OBVIOUS
    <3>1. request[i].doc \in Docs /\ chunks[request[i].doc] # NotThere
          /\ docLock[request[i].doc] = i
      BY <2>1, OthersKeep
    <3>2. i # Free
      BY KnowledgeParameters
    <3>3. chunks' = chunks
      BY <2>1
    <3>4. docLock'[request[i].doc] = i
      BY <2>4, <3>1, <3>2
    <3> QED
      BY <3>1, <3>3, <3>4
  <2>13. \A e \in Docs : chunks'[e] # NotThere => (IF e = r THEN new ELSE request[e]) = Finished
    BY <2>1, <2>3, OthersKeep
  <2>14. JobsInv'
    BY <2>1, <2>2, <2>3, <2>5, <2>6, <2>11, <2>12, <2>13, JobChange
  <2> QED
    BY <1>0, <2>1, <2>4, <2>14 DEF TypedIndex
<1>5. ASSUME NEW r \in Reindexers, WriteIndex(r) PROVE IndexInv'
  <2>1. PICK d : d = request[r].doc
    OBVIOUS
  <2>2. /\ UNCHANGED <<text, conversation, chunkLock, search>> /\ SetJob(r, Finished) /\ Unlock(r)
        /\ request[r].step = "embedded" /\ (Write(d, request[r].vectors) \/ UNCHANGED <<chunks, meta>>)
    BY <1>5, <2>1 DEF WriteIndex, looking
  <2>3. r \in Jobs /\ r # Deleter /\ r # Free /\ r \notin Docs
    BY KnowledgeParameters DEF Jobs
  <2>4. /\ request[r] \in Indexings /\ d \in Docs /\ SpanCount(d) # 0
        /\ request[r].vectors \in {<<>>, Numbers(SpanCount(d))} /\ Stored(d) /\ docLock[d] = r
    BY <2>1, <2>2, AtWork DEF InHand
  <2>5. docLock' \in [Docs -> {Free} \cup Reindexers]
        /\ \A e \in Docs : docLock[e] # r => docLock'[e] = docLock[e]
    BY <2>2 DEF Unlock, TypedIndex
  <2>6. /\ chunks' \in [Docs -> Seq(Nat)] /\ meta' \in [Docs -> [count : Nat, embedded : Nat]]
        /\ Whole(d)' /\ Stored(d)'
        /\ \A e \in Docs \ {d} : chunks'[e] = chunks[e] /\ meta'[e] = meta[e]
    <3>1. CASE Write(d, request[r].vectors)
      BY <2>2, <2>4, <3>1, WriteFacts
    <3>2. CASE UNCHANGED <<chunks, meta>>
      BY <2>2, <2>4, <3>2 DEF TypedIndex, Whole, Stored, SpanCount
    <3> QED
      BY <2>2, <3>1, <3>2
  <2>7. \A e \in Docs : Whole(e)'
    <3>1. ASSUME NEW e \in Docs \ {d} PROVE Whole(e)'
      BY <2>2, <2>6 DEF Whole, Stored, SpanCount
    <3> QED
      BY <2>6, <3>1
  <2>8. \A i \in Reindexers \ {r} : request[i] \in Indexings =>
            chunks'[request[i].doc] # NotThere /\ docLock'[request[i].doc] = i
    <3>1. ASSUME NEW i \in Reindexers \ {r}, request[i] \in Indexings
          PROVE  chunks'[request[i].doc] # NotThere /\ docLock'[request[i].doc] = i
      BY <2>5, <2>6, <3>1, OthersKeep DEF Stored
    <3> QED
      BY <3>1
  <2>9. \A e \in Docs : chunks'[e] # NotThere => (IF e = r THEN Finished ELSE request[e]) = Finished
    <3>1. request[d] = Finished
      BY <2>4, OthersKeep DEF Stored
    <3> QED
      BY <2>6, <3>1, OthersKeep
  <2>10. JobsInv'
    BY <2>2, <2>3, <2>8, <2>9, JobChange, Steps
  <2> QED
    BY <2>2, <2>5, <2>6, <2>7, <2>10 DEF TypedIndex
<1>6. ASSUME NEW r \in Reindexers, Deadlock(r) PROVE IndexInv'
  <2>1. UNCHANGED <<text, chunks, meta, conversation, search>>
    BY <1>6 DEF Deadlock, index, looking
  <2>2. r \in Jobs /\ Deleter \in Jobs /\ r # Deleter /\ r # Free /\ r \notin Docs /\ Deleter \notin Docs
        /\ Deleter \notin Reindexers
    BY KnowledgeParameters DEF Jobs
  <2>3. CASE SetJob(r, Finished) /\ Unlock(r) /\ UNCHANGED chunkLock
    <3>1. docLock' \in [Docs -> {Free} \cup Reindexers]
          /\ \A e \in Docs : docLock[e] # r => docLock'[e] = docLock[e]
      BY <2>3 DEF Unlock, TypedIndex
    <3>2. \A i \in Reindexers \ {r} : request[i] \in Indexings =>
              chunks'[request[i].doc] # NotThere /\ docLock'[request[i].doc] = i
      BY <2>1, <3>1, OthersKeep
    <3>3. \A e \in Docs : chunks'[e] # NotThere => (IF e = r THEN Finished ELSE request[e]) = Finished
      BY <2>1, OthersKeep
    <3>4. JobsInv'
      BY <2>1, <2>2, <2>3, <3>2, <3>3, JobChange, Steps
    <3> QED
      BY <1>0, <2>1, <2>3, <3>1, <3>4 DEF TypedIndex
  <2>4. CASE SetJob(Deleter, NotBegun) /\ UNCHANGED docLock /\ chunkLock' = [e \in Docs |-> Free]
    <3>1. \A e \in Docs : chunks'[e] # NotThere => (IF e = Deleter THEN NotBegun ELSE request[e]) = Finished
      BY <2>1, <2>2, OthersKeep
    <3>2. JobsInv'
      BY <2>1, <2>2, <2>4, <3>1, JobChange, OthersKeep, Steps
    <3> QED
      BY <1>0, <2>1, <2>4, <3>2 DEF TypedIndex
  <2> QED
    BY <1>6, <2>3, <2>4 DEF Deadlock
<1>7. ASSUME DeleteChunks PROVE IndexInv'
  <2>1. UNCHANGED <<text, chunks, meta, conversation, docLock, search>> /\ SetJob(Deleter, Deletes)
        /\ chunkLock' \in [Docs -> {Free, Deleter}]
    BY <1>7 DEF DeleteChunks, index, looking, Deletes
  <2>2. Deleter \in Jobs /\ Deleter \notin Docs
    BY KnowledgeParameters DEF Jobs
  <2>3. \A e \in Docs : chunks'[e] # NotThere => (IF e = Deleter THEN Deletes ELSE request[e]) = Finished
    BY <2>1, <2>2, OthersKeep
  <2>4. JobsInv'
    BY <2>1, <2>2, <2>3, JobChange, OthersKeep, Steps
  <2> QED
    BY <1>0, <2>1, <2>4 DEF TypedIndex
<1>8. ASSUME DeleteDocuments PROVE IndexInv'
  <2>1. /\ UNCHANGED <<text, meta, docLock, search>> /\ SetJob(Deleter, NotBegun)
        /\ conversation' = "gone" /\ chunkLock' = [d \in Docs |-> Free]
        /\ chunks' = [d \in Docs |-> IF d \in InConversation THEN NotThere ELSE chunks[d]]
        /\ \A d \in InConversation : docLock[d] = Free
    BY <1>8 DEF DeleteDocuments, looking
  <2>2. Deleter \in Jobs /\ Deleter \notin Docs /\ Deleter \notin Reindexers /\ Free \notin Reindexers
    BY KnowledgeParameters DEF Jobs
  <2>3. chunks' \in [Docs -> Seq(Nat)]
    <3>1. NotThere \in Seq(Nat)
      BY EmptySeq DEF NotThere
    <3> QED
      BY <2>1, <3>1 DEF TypedIndex
  <2>4. ASSUME NEW d \in Docs PROVE Whole(d)'
    BY <2>1 DEF Whole, Stored, SpanCount
  <2>5. \A i \in Reindexers \ {Deleter} : request[i] \in Indexings =>
            chunks'[request[i].doc] # NotThere /\ docLock'[request[i].doc] = i
    <3>1. ASSUME NEW i \in Reindexers, request[i] \in Indexings
          PROVE  chunks'[request[i].doc] # NotThere /\ docLock'[request[i].doc] = i
      <4>1. request[i].doc \in Docs /\ chunks[request[i].doc] # NotThere /\ docLock[request[i].doc] = i
        BY <3>1, OthersKeep
      <4>2. request[i].doc \notin InConversation
        BY <2>1, <2>2, <4>1
      <4> QED
        BY <2>1, <4>1, <4>2
    <3> QED
      BY <3>1
  <2>6. \A e \in Docs : chunks'[e] # NotThere => (IF e = Deleter THEN NotBegun ELSE request[e]) = Finished
    BY <2>1, <2>2, OthersKeep
  <2>7. JobsInv'
    BY <2>1, <2>2, <2>5, <2>6, JobChange, Steps
  <2> QED
    BY <2>1, <2>3, <2>4, <2>7 DEF TypedIndex
<1>9. CASE FindByWords \/ FindByVector \/ Answered \/ UNCHANGED ragVars
  <2>1. UNCHANGED <<text, chunks, meta, conversation, request, docLock, chunkLock>>
        /\ search'.step \in {"none", "words", "found"}
    <3>1. CASE FindByWords
      BY <3>1 DEF FindByWords, index, locks
    <3>2. CASE FindByVector
      BY <3>2 DEF FindByVector, index, locks
    <3>3. CASE Answered
      BY <3>3 DEF Answered, index, locks, NoSearch
    <3>4. CASE UNCHANGED ragVars
      BY <3>4 DEF ragVars, index, locks, looking, TypedIndex
    <3> QED
      BY <1>9, <3>1, <3>2, <3>3, <3>4
  <2> QED
    BY <1>0, <1>a, <2>1 DEF TypedIndex
<1> QED
  BY <1>1, <1>2, <1>3, <1>4, <1>5, <1>6, <1>7, <1>8, <1>9 DEF RagNext

LEMMA IndexInit == RagInit => IndexInv
<1> SUFFICES ASSUME NEW c \in Scenarios,
           /\ text \in c.texts
           /\ chunks = [d \in Docs |-> IF d \in c.stored THEN [i \in 1..SpanCount(d) |-> i] ELSE NotThere]
           /\ meta = [d \in Docs |-> IF d \in c.stored
                                     THEN [count |-> SpanCount(d), embedded |-> SpanCount(d)]
                                     ELSE [count |-> 0, embedded |-> 0]]
           /\ conversation = "there"
           /\ request = [j \in Jobs |-> IF j \in c.uploads \cup c.reindexers \cup {Deleter}
                                    THEN NotBegun ELSE Finished]
           /\ docLock = [d \in Docs |-> Free] /\ chunkLock = [d \in Docs |-> Free]
           /\ search = NoSearch
             PROVE  IndexInv
  BY DEF RagInit, Finished
<1>1. text \in [Docs -> Seq(Kinds)] /\ c.stored \cap (c.uploads \cup c.reindexers \cup {Deleter}) = {}
  BY KnowledgeParameters DEF Kinds
<1>2. ASSUME NEW d \in Docs PROVE SpanCount(d) \in Nat
  <2>1. SplitSpans(text[d]) \in Seq(Nat \X Nat)
    BY <1>1, SpansCoverText
  <2> QED
    BY <2>1 DEF SpanCount
<1>3. chunks = [d \in Docs |-> IF d \in c.stored THEN Numbers(SpanCount(d)) ELSE NotThere]
  BY DEF Numbers
<1>4. chunks \in [Docs -> Seq(Nat)]
  <2>1. ASSUME NEW d \in Docs PROVE Numbers(SpanCount(d)) \in Seq(Nat) /\ NotThere \in Seq(Nat)
    BY <1>2, NumbersFacts, EmptySeq DEF NotThere
  <2> QED
    BY <1>3, <2>1
<1>5. meta \in [Docs -> [count : Nat, embedded : Nat]]
  BY <1>2
<1>6. TypedIndex
  BY <1>1, <1>4, <1>5 DEF TypedIndex, NoSearch
<1>7. \A d \in Docs : Whole(d)
  BY <1>3 DEF Whole, Stored
<1>8. JobsInv
  <2>1. \A d \in Docs : request[d] # Finished => ~Stored(d)
    BY <1>1, <1>3 DEF Stored, Jobs
  <2>2. request \in [Jobs -> {NotBegun, Finished}]
    OBVIOUS
  <2> QED
    BY <2>1, <2>2, Steps DEF JobsInv, Jobs
<1> QED
  BY <1>6, <1>7, <1>8 DEF IndexInv

LEMMA IndexInvariant == RagSpec => []IndexInv
<1> QED
  BY IndexInit, IndexNext, PTL DEF RagSpec

\* What add_document and reindex_document have committed is whole at any time:
\* the spans of _split_spans cover the text, and every chunk has the vector of
\* its own text or none has any.
THEOREM IndexStaysWhole == RagSpec => []IndexIsWhole
<1>1. IndexInv => IndexIsWhole
  <2> SUFFICES ASSUME IndexInv PROVE IndexIsWhole
    OBVIOUS
  <2>1. ASSUME NEW d \in Docs, Stored(d)
        PROVE  /\ chunks[d] \in Seq(Nat) /\ meta[d].count \in Nat
               /\ Covers(SplitSpans(text[d]), text[d]) /\ Len(chunks[d]) = SpanCount(d)
               /\ chunks[d] \in {[i \in 1..SpanCount(d) |-> i], [i \in 1..SpanCount(d) |-> 0]}
               /\ meta[d] = [count |-> SpanCount(d), embedded |-> IF HasVectors(d) THEN SpanCount(d) ELSE 0]
    <3>1. PICK n \in Nat : n = SpanCount(d)
      BY SizeFacts DEF IndexInv
    <3>2. chunks[d] # <<>> /\ Covers(SplitSpans(text[d]), text[d])
          /\ chunks[d] \in Seq(Nat) /\ meta[d].count \in Nat
      BY <2>1, SizeFacts DEF IndexInv, TypedIndex, Stored, NotThere
    <3>3. CASE chunks[d] = Numbers(n) /\ meta[d] = [count |-> n, embedded |-> n]
      <4>1. n # 0 /\ Len(chunks[d]) = n /\ DOMAIN chunks[d] = 1..n /\ 1 \in 1..n
        BY <3>2, <3>3, NumbersFacts
      <4>2. chunks[d][1] = 1
        BY <3>3, <4>1, NumbersFacts
      <4>3. HasVectors(d)
        BY <2>1, <4>1, <4>2 DEF HasVectors
      <4> QED
        BY <3>1, <3>2, <3>3, <4>1, <4>3 DEF Numbers
    <3>4. CASE chunks[d] = Zeros(n) /\ meta[d] = [count |-> n, embedded |-> 0]
      <4>1. Len(chunks[d]) = n /\ DOMAIN chunks[d] = 1..n /\ \A i \in 1..n : chunks[d][i] = 0
        <5>1. Len(Zeros(n)) = n /\ DOMAIN Zeros(n) = 1..n /\ \A i \in 1..n : Zeros(n)[i] = 0
          BY NumbersFacts
        <5> QED
          BY <3>4, <5>1
      <4>2. ~HasVectors(d)
        BY <4>1 DEF HasVectors
      <4> QED
        BY <3>1, <3>2, <3>4, <4>1, <4>2 DEF Zeros
    <3> QED
      BY <2>1, <3>1, <3>3, <3>4 DEF IndexInv, Whole
  <2>2. RagTypeOK
    <3>1. ASSUME NEW j \in Jobs
          PROVE  request[j].step \in {"idle", "embedding", "embedded", "chunks", "over"}
      BY Steps DEF IndexInv, JobsInv
    <3> QED
      BY <2>1, <3>1 DEF IndexInv, TypedIndex, RagTypeOK
  <2> QED
    BY <2>1, <2>2 DEF IndexIsWhole
<1> QED
  BY <1>1, IndexInvariant, PTL

\* reindex_document ("Do not destroy a usable vector index during a provider
\* outage"): whatever the embedding service answers, and whoever else writes.
THEOREM VectorsAreKept == RagSpec => VectorsSurviveOutage
<1>1. IndexInv /\ [RagNext]_ragVars =>
         [\A d \in Docs : HasVectors(d) /\ Stored(d)' => HasVectors(d)']_ragVars
  <2> SUFFICES ASSUME IndexInv, [RagNext]_ragVars, NEW d \in Docs, HasVectors(d), Stored(d)'
               PROVE  HasVectors(d)'
    BY DEF ragVars
  <2>1. CASE chunks'[d] = chunks[d]
    BY <2>1 DEF HasVectors, Stored
  <2>2. ASSUME NEW e \in Docs, InsertDocument(e) PROVE HasVectors(d)'
    <3>1. request[e].step = "embedded"
      BY <2>2 DEF InsertDocument
    <3>2. ~Stored(e)
      BY <3>1, AtWork DEF IndexInv, JobsInv
    <3>3. d # e
      BY <3>2 DEF HasVectors
    <3>4. chunks'[d] = chunks[d]
      BY <2>2, <3>3 DEF InsertDocument, Write, IndexInv, TypedIndex
    <3> QED
      BY <2>1, <3>4
  <2>3. ASSUME NEW r \in Reindexers, WriteIndex(r) PROVE HasVectors(d)'
    <3>1. PICK e : e = request[r].doc
      OBVIOUS
    <3>2. /\ text' = text /\ request[r].step = "embedded"
          /\ \/ UNCHANGED chunks
             \/ MayWrite(r) /\ Write(e, request[r].vectors)
      BY <2>3, <3>1 DEF WriteIndex
    <3>3. /\ e \in Docs /\ SpanCount(e) # 0 /\ request[r].vectors \in {<<>>, Numbers(SpanCount(e))}
      BY <3>1, <3>2, AtWork DEF IndexInv, InHand
    <3>4. CASE UNCHANGED chunks
      BY <2>1, <3>4
    <3>5. CASE MayWrite(r) /\ Write(e, request[r].vectors) /\ e # d
      <4>1. chunks'[d] = chunks[d]
        BY <3>5 DEF Write, IndexInv, TypedIndex
      <4> QED
        BY <2>1, <4>1
    <3>6. CASE MayWrite(r) /\ Write(e, request[r].vectors) /\ e = d
      <4>1. request[r].vectors # <<>>
        BY <3>1, <3>6 DEF MayWrite
      <4> QED
        BY <3>2, <3>3, <3>6, <4>1, WriteFacts DEF IndexInv
    <3> QED
      BY <3>2, <3>4, <3>5, <3>6
  <2>4. CASE DeleteDocuments
    <3>1. chunks'[d] # NotThere => chunks'[d] = chunks[d]
      BY <2>4 DEF DeleteDocuments
    <3> QED
      BY <2>1, <3>1 DEF Stored
  <2>5. ASSUME ~DeleteDocuments, \A e \in Docs : ~InsertDocument(e),
               \A r \in Reindexers : ~WriteIndex(r)
        PROVE  HasVectors(d)'
    <3>1. UNCHANGED chunks
      BY <2>5 DEF RagNext, Upload, EmbedBatch, LockDocument, Deadlock, DeleteChunks, FindByWords,
         FindByVector, Answered, index, ragVars
    <3> QED
      BY <2>1, <3>1
  <2> QED
    BY <2>2, <2>3, <2>4, <2>5
<1> QED
  BY <1>1, IndexInvariant, PTL DEF VectorsSurviveOutage, RagSpec
-----------------------------------------------------------------------------
(* Lists without repetition.                                               *)

Distinct(s) == \A i, j \in DOMAIN s : s[i] = s[j] => i = j

LEMMA DistinctCounts ==
    ASSUME NEW S, NEW s \in Seq(S), Distinct(s)
    PROVE  IsFiniteSet(Range(s)) /\ Cardinality(Range(s)) = Len(s)
<1>1. PICK n \in Nat : n = Len(s) /\ DOMAIN s = 1..n
  OBVIOUS
<1>2. s \in Surjection(1..n, Range(s))
  <2>1. s \in [1..n -> Range(s)]
    BY <1>1 DEF Range
  <2> QED
    BY <1>1, <2>1 DEF Surjection, Range
<1>3. s \in Injection(1..n, Range(s))
  <2>1. s \in [1..n -> Range(s)]
    BY <1>1 DEF Range
  <2> QED
    BY <1>1, <2>1 DEF Injection, IsInjective, Distinct
<1>4. IsFiniteSet(1..n) /\ Cardinality(1..n) = n
  <2>1. 1 \in Int /\ n \in Int
    BY <1>1
  <2>2. IsFiniteSet(1..n) /\ Cardinality(1..n) = IF 1 > n THEN 0 ELSE n - 1 + 1
    BY <2>1, FS_Interval
  <2> QED
    BY <1>1, <2>2
<1> QED
  BY <1>1, <1>2, <1>3, <1>4, FS_Surjection

LEMMA BeginningIsDistinct ==
    ASSUME NEW S, NEW s \in Seq(S), Distinct(s), NEW n \in Nat
    PROVE  LET t == SubSeq(s, 1, Least(n, Len(s)))
           IN  /\ t \in Seq(S) /\ Distinct(t) /\ Len(t) <= n /\ Len(t) <= Len(s)
               /\ \A i \in DOMAIN t : i \in DOMAIN s /\ t[i] = s[i]
<1>1. PICK m \in Nat : m = Least(n, Len(s)) /\ m <= n /\ m <= Len(s)
  BY DEF Least
<1>2. PICK t : t = SubSeq(s, 1, m)
  OBVIOUS
<1>3. \A i \in 1..m : s[i] \in S
  BY <1>1
<1>4. t \in Seq(S) /\ Len(t) = m /\ DOMAIN t = 1..m /\ \A i \in 1..m : t[i] = s[i]
  <2>1. 1 \in Int /\ m \in Int
    BY <1>1
  <2> QED
    BY <1>1, <1>2, <1>3, <2>1, SubSeqProperties
<1>5. DOMAIN s = 1..Len(s) /\ Len(s) \in Nat
  OBVIOUS
<1>6. 1..m \subseteq DOMAIN s
  BY <1>1, <1>5
<1>7. Distinct(t)
  BY <1>4, <1>6 DEF Distinct
<1> QED
  BY <1>1, <1>2, <1>4, <1>6, <1>7

\* A list in another order.
LEMMA PermutedIsDistinct ==
    ASSUME NEW S, NEW s \in Seq(S), Distinct(s), NEW f \in [DOMAIN s -> DOMAIN s],
           Range(f) = DOMAIN s
    PROVE  /\ [i \in DOMAIN s |-> s[f[i]]] \in Seq(S)
           /\ Distinct([i \in DOMAIN s |-> s[f[i]]])
<1>1. PICK n \in Nat : n = Len(s) /\ DOMAIN s = 1..n
  OBVIOUS
<1>2. f \in Surjection(1..n, 1..n)
  <2>1. f \in [1..n -> 1..n] /\ Range(f) = 1..n
    BY <1>1
  <2>2. \A t \in 1..n : \E i \in 1..n : f[i] = t
    BY <2>1 DEF Range
  <2> QED
    BY <2>1, <2>2 DEF Surjection
<1>3. IsFiniteSet(1..n)
  <2>1. 1 \in Int /\ n \in Int
    BY <1>1
  <2> QED
    BY <2>1, FS_Interval
<1>4. f \in Injection(1..n, 1..n)
  BY <1>2, <1>3, FS_SurjSameCardinalityImpliesInj
<1>5. \A i, j \in 1..n : f[i] = f[j] => i = j
  BY <1>1, <1>4 DEF Injection, IsInjective
<1>6. \A i \in 1..n : f[i] \in 1..n /\ s[f[i]] \in S
  BY <1>1
<1>7. PICK t : t = [i \in 1..n |-> s[f[i]]]
  OBVIOUS
<1>8. t \in Seq(S) /\ DOMAIN t = 1..n /\ \A i \in 1..n : t[i] = s[f[i]]
  <2>1. t \in [1..n -> S] /\ \A i \in 1..n : t[i] = s[f[i]]
    BY <1>6, <1>7
  <2> QED
    BY <1>1, <2>1
<1>9. Distinct(t)
  BY <1>1, <1>5, <1>6, <1>8 DEF Distinct
<1> QED
  BY <1>1, <1>7, <1>8, <1>9

-----------------------------------------------------------------------------
(* Ordering a set.                                                         *)

StrictOrder(S, R) ==
    /\ \A x \in S : <<x, x>> \notin R
    /\ \A x, y, z \in S : <<x, y>> \in R /\ <<y, z>> \in R => <<x, z>> \in R
    /\ \A x, y \in S : x # y => <<x, y>> \in R \/ <<y, x>> \in R

\* Ordered lists every element once and in order.
LEMMA OrderedLists ==
    ASSUME NEW S, IsFiniteSet(S), NEW R, StrictOrder(S, R)
    PROVE  /\ Ordered(S, R) \in Seq(S) /\ Distinct(Ordered(S, R)) /\ Range(Ordered(S, R)) = S
           /\ \A a, b \in S : <<a, b>> \in R =>
                 \E i, j \in DOMAIN Ordered(S, R) :
                     i < j /\ Ordered(S, R)[i] = a /\ Ordered(S, R)[j] = b
<1> DEFINE B(x) == {y \in S : <<y, x>> \in R}
<1>1. PICK n \in Nat : n = Cardinality(S)
  BY FS_CardinalityType
<1>2. \A x \in S : IsFiniteSet(B(x)) /\ Cardinality(B(x)) \in Nat
  <2> SUFFICES ASSUME NEW x \in S PROVE IsFiniteSet(B(x)) /\ Cardinality(B(x)) \in Nat
    OBVIOUS
  <2>1. B(x) \in SUBSET S
    OBVIOUS
  <2>2. IsFiniteSet(B(x))
    BY <2>1, FS_Subset
  <2> QED
    BY <2>2, FS_CardinalityType
<1>3. ASSUME NEW T \in SUBSET S, NEW U \in SUBSET T, NEW x \in T, x \notin U
      PROVE  Cardinality(U) \in Nat /\ Cardinality(T) \in Nat /\ Cardinality(U) < Cardinality(T)
  <2>1. IsFiniteSet(T)
    BY FS_Subset
  <2>2. IsFiniteSet(U) /\ Cardinality(U) <= Cardinality(T)
        /\ (Cardinality(T) = Cardinality(U) => T = U)
    BY <2>1, FS_Subset
  <2>3. Cardinality(T) \in Nat
    BY <2>1, FS_CardinalityType
  <2>4. Cardinality(U) \in Nat
    BY <2>2, FS_CardinalityType
  <2>5. T # U
    BY <1>3
  <2> QED
    BY <2>2, <2>3, <2>4, <2>5
<1>4. ASSUME NEW a \in S, NEW b \in S, <<a, b>> \in R
      PROVE  Cardinality(B(a)) < Cardinality(B(b))
  <2>1. B(a) \in SUBSET B(b) /\ B(b) \in SUBSET S /\ a \in B(b) /\ a \notin B(a)
    BY <1>4 DEF StrictOrder
  <2> HIDE DEF B
  <2> QED
    BY <1>3, <2>1
<1>5. ASSUME NEW x \in S PROVE Cardinality(B(x)) \in 0..(n - 1)
  <2>1. B(x) \in SUBSET S /\ x \notin B(x) /\ S \in SUBSET S
    BY DEF StrictOrder
  <2>2. Cardinality(B(x)) < Cardinality(S)
    <3> HIDE DEF B
    <3> QED
      BY <1>3, <2>1
  <2> HIDE DEF B
  <2> QED
    BY <1>1, <1>2, <2>2
<1>6. PICK f : f = [x \in S |-> Cardinality(B(x))]
  OBVIOUS
<1>7. f \in [S -> 0..(n - 1)] /\ \A a, b \in S : f[a] = f[b] => a = b
  <2> HIDE DEF B
  <2>1. f \in [S -> 0..(n - 1)] /\ \A x \in S : f[x] = Cardinality(B(x))
    BY <1>5, <1>6
  <2>2. \A x \in S : f[x] \in Nat
    BY <1>2, <2>1
  <2>3. ASSUME NEW a \in S, NEW b \in S, f[a] = f[b] PROVE a = b
    <3>1. <<a, b>> \notin R
      BY <1>4, <2>1, <2>2, <2>3
    <3>2. <<b, a>> \notin R
      BY <1>4, <2>1, <2>2, <2>3
    <3> QED
      BY <3>1, <3>2 DEF StrictOrder
  <2> QED
    BY <2>1, <2>3
<1>8. IsFiniteSet(0..(n - 1)) /\ Cardinality(0..(n - 1)) = n
  <2>1. 0 \in Int /\ n - 1 \in Int
    BY <1>1
  <2>2. IsFiniteSet(0..(n - 1)) /\ Cardinality(0..(n - 1)) = IF 0 > n - 1 THEN 0 ELSE (n - 1) - 0 + 1
    BY <2>1, FS_Interval
  <2> QED
    BY <1>1, <2>2
<1>9. \A k \in 0..(n - 1) : \E x \in S : f[x] = k
  <2>1. f \in Injection(S, 0..(n - 1))
    BY <1>7 DEF Injection, IsInjective
  <2>2. f \in Surjection(S, 0..(n - 1))
    BY <1>1, <1>8, <2>1, FS_Injection
  <2> QED
    BY <2>2 DEF Surjection
<1>10. PICK o : o = Ordered(S, R)
  OBVIOUS
<1>11. o = [k \in 1..n |-> CHOOSE x \in S : Cardinality(B(x)) = k - 1]
  BY <1>1, <1>10 DEF Ordered
<1>12. ASSUME NEW k \in 1..n PROVE o[k] \in S /\ f[o[k]] = k - 1
  <2> HIDE DEF B
  <2>1. k - 1 \in 0..(n - 1)
    BY <1>1
  <2>2. \E x \in S : Cardinality(B(x)) = k - 1
    BY <1>6, <1>9, <2>1
  <2> QED
    BY <1>6, <1>11, <2>2
<1>13. DOMAIN o = 1..n
  BY <1>11
<1>14. o \in Seq(S)
  <2>1. o \in [1..n -> S]
    BY <1>11, <1>12
  <2> QED
    BY <1>1, <2>1
<1>15. Distinct(o)
  <2> SUFFICES ASSUME NEW i \in 1..n, NEW j \in 1..n, o[i] = o[j] PROVE i = j
    BY <1>13 DEF Distinct
  <2>1. i - 1 = j - 1
    BY <1>12
  <2> QED
    BY <2>1
<1>16. ASSUME NEW x \in S PROVE f[x] + 1 \in 1..n /\ o[f[x] + 1] = x
  <2>1. PICK k \in 1..n : k = f[x] + 1 /\ k - 1 = f[x]
    BY <1>1, <1>7
  <2>2. o[k] \in S /\ f[o[k]] = f[x]
    BY <1>12, <2>1
  <2> QED
    BY <1>7, <2>1, <2>2
<1>17. Range(o) = S
  BY <1>12, <1>13, <1>16 DEF Range
<1>18. ASSUME NEW a \in S, NEW b \in S, <<a, b>> \in R
       PROVE  \E i, j \in DOMAIN o : i < j /\ o[i] = a /\ o[j] = b
  <2>1. f[a] < f[b]
    <3> HIDE DEF B
    <3> QED
      BY <1>4, <1>6, <1>18
  <2>2. f[a] + 1 \in 1..n /\ f[b] + 1 \in 1..n /\ f[a] + 1 < f[b] + 1
    <3>1. f[a] \in 0..(n - 1) /\ f[b] \in 0..(n - 1)
      BY <1>7
    <3> QED
      BY <1>1, <2>1, <3>1
  <2> QED
    BY <1>13, <1>16, <2>2
<1> QED
  BY <1>10, <1>14, <1>15, <1>17, <1>18

-----------------------------------------------------------------------------
(* Ranks and fusion.                                                       *)

ChunkKeys == Docs \X Nat
Items == [key : ChunkKeys, score : Scores]

\* What a channel finds: chunks, each once.
Found(list) == list \in Seq(Items) /\ Distinct(Plain(list))

LEMMA FoundFacts ==
    ASSUME NEW list, Found(list)
    PROVE  /\ Len(list) \in Nat /\ DOMAIN list = 1..Len(list)
           /\ \A i \in 1..Len(list) : list[i].key \in ChunkKeys
           /\ \A i, j \in 1..Len(list) : list[i].key = list[j].key => i = j
           /\ Plain(list) \in Seq(ChunkKeys) /\ Len(Plain(list)) = Len(list)
           /\ Range(Plain(list)) = Keys(list)
           /\ Keys(list) \subseteq ChunkKeys /\ IsFiniteSet(Keys(list))
<1>1. list \in Seq(Items) /\ Len(list) \in Nat /\ DOMAIN list = 1..Len(list)
  BY DEF Found
<1>2. \A i \in 1..Len(list) : list[i] \in Items
  BY <1>1
<1>3. \A i \in 1..Len(list) : list[i].key \in ChunkKeys
  BY <1>2 DEF Items
<1>4. PICK p : p = Plain(list)
  OBVIOUS
<1>5. p \in [1..Len(list) -> ChunkKeys] /\ \A i \in 1..Len(list) : p[i] = list[i].key
  BY <1>1, <1>3, <1>4 DEF Plain
<1>6. p \in Seq(ChunkKeys) /\ Len(p) = Len(list) /\ DOMAIN p = 1..Len(list)
  BY <1>1, <1>5
<1>7. Distinct(p)
  BY <1>4 DEF Found
<1>8. \A i, j \in 1..Len(list) : list[i].key = list[j].key => i = j
  BY <1>5, <1>6, <1>7 DEF Distinct
<1>9. Range(p) = Keys(list)
  BY <1>1, <1>5, <1>6 DEF Range, Keys
<1>10. IsFiniteSet(Range(p))
  BY <1>6, <1>7, DistinctCounts
<1>11. Keys(list) \subseteq ChunkKeys
  BY <1>1, <1>3 DEF Keys
<1> QED
  BY <1>1, <1>3, <1>4, <1>6, <1>8, <1>9, <1>10, <1>11

LEMMA RankFacts ==
    ASSUME NEW list, Found(list), NEW key \in Keys(list)
    PROVE  RankOf(list, key) \in Nat \ {0}
<1>1. PICK p \in 1..Len(list) : p = CHOOSE q \in DOMAIN list : list[q].key = key
  BY FoundFacts DEF Keys
<1>2. Len(list) \in Nat /\ p \in Nat \ {0}
  BY FoundFacts
<1> DEFINE same(q) == \A r \in q..p : list[r].score = list[p].score
           D == {q \in 1..p : same(q)}
<1>3. p \in D /\ D \in SUBSET Nat
  BY <1>2
<1>4. PICK q \in D : \A y \in D : q <= y
  <2> HIDE DEF D
  <2> QED
    BY <1>3, LeastNumber
<1>5. q \in 1..p /\ same(q)
  BY <1>4
<1>6. q = 1 \/ list[q - 1].score # list[p].score
  <2> SUFFICES ASSUME q # 1, list[q - 1].score = list[p].score PROVE FALSE
    OBVIOUS
  <2>1. q - 1 \in 1..p /\ q - 1 < q
    BY <1>2, <1>5
  <2>2. ASSUME NEW r \in (q - 1)..p PROVE list[r].score = list[p].score
    <3>1. r = q - 1 \/ r \in q..p
      BY <1>2, <1>5
    <3> QED
      BY <1>5, <3>1
  <2>3. q - 1 \in D
    BY <2>1, <2>2
  <2> HIDE DEF D
  <2>4. q <= q - 1
    BY <1>4, <2>3
  <2> QED
    BY <1>2, <1>5, <2>1, <2>4
<1>7. RankAt(list, p) \in 1..p
  BY <1>5, <1>6 DEF RankAt
<1>8. RankOf(list, key) = RankAt(list, p)
  BY <1>1 DEF RankOf
<1> QED
  BY <1>2, <1>7, <1>8

Fractions == Nat \X (Nat \ {0})

LEMMA Multiples ==
    ASSUME NEW x \in Nat, NEW y \in Nat, NEW d \in Nat \ {0}
    PROVE  /\ d * x \in Nat /\ d * y \in Nat
           /\ x < y <=> d * x < d * y
           /\ x <= y <=> d * x <= d * y
<1>1. d * x \in Nat /\ d * y \in Nat
  OBVIOUS
<1>2. ASSUME NEW a \in Nat, NEW b \in Nat, a < b PROVE d * a < d * b
  <2>1. PICK c \in Nat \ {0} : b = a + c
    <3>1. b - a \in Nat \ {0} /\ b = a + (b - a)
      BY <1>2
    <3> QED
      BY <3>1
  <2>2. d * b = d * a + d * c
    BY <2>1
  <2>3. d * c \in Nat \ {0} /\ d * a \in Nat
    BY <2>1
  <2> QED
    BY <2>2, <2>3
<1>3. x < y \/ x = y \/ y < x
  OBVIOUS
<1>4. CASE x < y
  BY <1>1, <1>2, <1>4
<1>5. CASE x = y
  BY <1>1, <1>5
<1>6. CASE y < x
  BY <1>1, <1>2, <1>6
<1> QED
  BY <1>1, <1>3, <1>4, <1>5, <1>6

\* Comparing fractions crosswise is transitive.
LEMMA Crosswise ==
    ASSUME NEW p \in Fractions, NEW q \in Fractions, NEW r \in Fractions,
           ~Above(q, p), ~Above(r, q)
    PROVE  ~Above(r, p) /\ (Above(p, q) \/ Above(q, r) => Above(p, r))
<1>1. PICK a \in Nat, b \in Nat, c \in Nat, k \in Nat \ {0}, l \in Nat \ {0}, m \in Nat \ {0} :
          /\ a = p[1] /\ b = q[1] /\ c = r[1]
          /\ k = p[2] /\ l = q[2] /\ m = r[2]
  BY DEF Fractions
<1>2. a * l \in Nat /\ b * k \in Nat /\ b * m \in Nat /\ c * l \in Nat /\ a * m \in Nat /\ c * k \in Nat
  OBVIOUS
<1>3. b * k <= a * l /\ c * l <= b * m
  BY <1>1, <1>2 DEF Above
<1>4. m * (b * k) <= m * (a * l) /\ (b * k < a * l => m * (b * k) < m * (a * l))
  BY <1>2, <1>3, Multiples
<1>5. k * (c * l) <= k * (b * m) /\ (c * l < b * m => k * (c * l) < k * (b * m))
  BY <1>2, <1>3, Multiples
<1>6. m * (b * k) = k * (b * m) /\ m * (a * l) = l * (a * m) /\ k * (c * l) = l * (c * k)
  OBVIOUS
<1>7. /\ m * (b * k) \in Nat /\ l * (a * m) \in Nat /\ l * (c * k) \in Nat
  OBVIOUS
<1>8. l * (c * k) <= l * (a * m)
      /\ (b * k < a * l \/ c * l < b * m => l * (c * k) < l * (a * m))
  BY <1>4, <1>5, <1>6, <1>7
<1>9. c * k <= a * m /\ (l * (c * k) < l * (a * m) => c * k < a * m)
  BY <1>2, <1>8, Multiples
<1>10. /\ Above(r, p) <=> c * k > a * m
       /\ Above(p, r) <=> a * m > c * k
       /\ Above(p, q) <=> a * l > b * k
       /\ Above(q, r) <=> b * m > c * l
  BY <1>1 DEF Above
<1> QED
  BY <1>2, <1>8, <1>9, <1>10

LEMMA AboveFacts ==
    ASSUME NEW p \in Fractions, NEW q \in Fractions
    PROVE  Above(p, q) => ~Above(q, p)
<1>1. p[1] * q[2] \in Nat /\ q[1] * p[2] \in Nat
  BY DEF Fractions
<1> QED
  BY <1>1 DEF Above

LEMMA ScoreFacts ==
    ASSUME NEW v, NEW w, Found(v), Found(w), NEW key
    PROVE  Score(v, w, key) \in Fractions
<1>1. ASSUME NEW list, Found(list) PROVE Share(list, key) \in Fractions
  <2>1. CASE key \in Keys(list)
    <3>1. PICK r \in Nat \ {0} : r = RankOf(list, key)
      BY <1>1, <2>1, RankFacts
    <3> QED
      BY <2>1, <3>1 DEF Share, Fractions
  <2>2. CASE key \notin Keys(list)
    BY <2>2 DEF Share, Fractions
  <2> QED
    BY <2>1, <2>2
<1>2. PICK a \in Nat, b \in Nat \ {0} : Share(v, key) = <<a, b>>
  BY <1>1 DEF Fractions
<1>3. PICK c \in Nat, d \in Nat \ {0} : Share(w, key) = <<c, d>>
  BY <1>1 DEF Fractions
<1>4. Score(v, w, key) = <<a * d + c * b, b * d>>
  BY <1>2, <1>3 DEF Score
<1>5. a * d + c * b \in Nat /\ b * d \in Nat \ {0}
  OBVIOUS
<1> QED
  BY <1>4, <1>5 DEF Fractions

\* 1/k + 1/m is more than 1/l + 1/n if k is less than l, and m than n.
LEMMA LowerRanksScoreMore ==
    ASSUME NEW v, NEW w, Found(v), Found(w),
           NEW a \in Keys(v) \cap Keys(w), NEW b \in Keys(v) \cap Keys(w),
           RankOf(v, a) < RankOf(v, b), RankOf(w, a) < RankOf(w, b)
    PROVE  Above(Score(v, w, a), Score(v, w, b))
<1>1. PICK k \in Nat \ {0}, l \in Nat \ {0} :
          k = 60 + RankOf(v, a) /\ l = 60 + RankOf(v, b) /\ k < l
  <2>1. RankOf(v, a) \in Nat \ {0} /\ RankOf(v, b) \in Nat \ {0}
    BY RankFacts
  <2> QED
    BY <2>1
<1>2. PICK m \in Nat \ {0}, n \in Nat \ {0} :
          m = 60 + RankOf(w, a) /\ n = 60 + RankOf(w, b) /\ m < n
  <2>1. RankOf(w, a) \in Nat \ {0} /\ RankOf(w, b) \in Nat \ {0}
    BY RankFacts
  <2> QED
    BY <2>1
<1>3. Share(v, a) = <<1, k>> /\ Share(w, a) = <<1, m>>
      /\ Share(v, b) = <<1, l>> /\ Share(w, b) = <<1, n>>
  BY <1>1, <1>2 DEF Share
<1>4. Score(v, w, a) = <<m + k, k * m>> /\ Score(v, w, b) = <<n + l, l * n>>
  BY <1>3 DEF Score
<1>5. PICK x \in Nat \ {0}, y \in Nat \ {0} : x = m * n /\ y = k * l
  OBVIOUS
<1>6. x * k < x * l /\ y * m < y * n
  BY <1>1, <1>2, Multiples
<1>7. (m + k) * (l * n) = x * l + y * n /\ (n + l) * (k * m) = y * m + x * k
  BY <1>5
<1>8. x * k \in Nat /\ x * l \in Nat /\ y * m \in Nat /\ y * n \in Nat
  OBVIOUS
<1>9. (m + k) * (l * n) > (n + l) * (k * m)
  BY <1>6, <1>7, <1>8
<1> QED
  BY <1>4, <1>9 DEF Above

\* By score, then by words, then by key: two different chunks are never equal.
LEMMA FusedIsStrict ==
    ASSUME NEW v, NEW w, Found(v), Found(w), NEW S \in SUBSET ChunkKeys
    PROVE  StrictOrder(S, {p \in S \X S : FusedBefore(v, w, p[1], p[2])})
<1> DEFINE R == {p \in S \X S : FusedBefore(v, w, p[1], p[2])}
           s(x) == Score(v, w, x)
           l(x) == Lexical(w, x)
           Same(x, y) == ~Above(s(x), s(y)) /\ ~Above(s(y), s(x))
<1>1. \A x : s(x) \in Fractions
  BY ScoreFacts
<1>2. \A x : l(x) \in Nat
  BY RankFacts DEF Lexical
<1>3. \A x \in S : x[1] \in Nat /\ x[2] \in Nat /\ x = <<x[1], x[2]>>
  <2> SUFFICES ASSUME NEW x \in S PROVE x[1] \in Nat /\ x[2] \in Nat /\ x = <<x[1], x[2]>>
    OBVIOUS
  <2>1. x \in Docs \X Nat
    BY DEF ChunkKeys
  <2>2. x[1] \in Docs /\ x[2] \in Nat /\ x = <<x[1], x[2]>>
    BY <2>1
  <2> QED
    BY <2>2, KnowledgeParameters
<1>4. \A x, y \in S : <<x, y>> \in R <=>
          \/ Above(s(x), s(y))
          \/ Same(x, y) /\ l(x) < l(y)
          \/ Same(x, y) /\ l(x) = l(y) /\ (x[1] < y[1] \/ (x[1] = y[1] /\ x[2] < y[2]))
  BY DEF FusedBefore, KeyBefore
<1> HIDE DEF R, s, l
<1>5. \A x, y : Above(s(x), s(y)) => ~Above(s(y), s(x))
  BY <1>1, AboveFacts
<1>6. \A x, y, z : ~Above(s(y), s(x)) /\ ~Above(s(z), s(y)) =>
          ~Above(s(z), s(x)) /\ (Above(s(x), s(y)) \/ Above(s(y), s(z)) => Above(s(x), s(z)))
  BY <1>1, Crosswise
<1>7. \A x \in S : <<x, x>> \notin R
  BY <1>2, <1>3, <1>4, <1>5
<1>8. ASSUME NEW x \in S, NEW y \in S, NEW z \in S, <<x, y>> \in R, <<y, z>> \in R
      PROVE  <<x, z>> \in R
  <2>1. l(x) \in Nat /\ l(y) \in Nat /\ l(z) \in Nat
        /\ x[1] \in Nat /\ y[1] \in Nat /\ z[1] \in Nat /\ x[2] \in Nat /\ y[2] \in Nat /\ z[2] \in Nat
    BY <1>2, <1>3
  <2>2. ~Above(s(y), s(x)) /\ ~Above(s(z), s(y))
    BY <1>4, <1>5, <1>8
  <2>3. ~Above(s(z), s(x)) /\ (Above(s(x), s(y)) \/ Above(s(y), s(z)) => Above(s(x), s(z)))
    BY <1>6, <2>2
  <2>4. CASE Above(s(x), s(y)) \/ Above(s(y), s(z))
    BY <1>4, <2>3, <2>4
  <2>5. CASE ~Above(s(x), s(y)) /\ ~Above(s(y), s(z))
    <3>1. \/ l(x) < l(y)
          \/ l(x) = l(y) /\ (x[1] < y[1] \/ (x[1] = y[1] /\ x[2] < y[2]))
      BY <1>4, <1>8, <2>5
    <3>2. \/ l(y) < l(z)
          \/ l(y) = l(z) /\ (y[1] < z[1] \/ (y[1] = z[1] /\ y[2] < z[2]))
      BY <1>4, <1>8, <2>5
    <3>3. \/ l(x) < l(z)
          \/ l(x) = l(z) /\ (x[1] < z[1] \/ (x[1] = z[1] /\ x[2] < z[2]))
      BY <2>1, <3>1, <3>2
    <3>4. Above(s(x), s(z)) \/ Same(x, z)
      BY <2>3
    <3> QED
      BY <1>4, <3>3, <3>4
  <2> QED
    BY <2>4, <2>5
<1>9. ASSUME NEW x \in S, NEW y \in S, x # y PROVE <<x, y>> \in R \/ <<y, x>> \in R
  <2>1. l(x) \in Nat /\ l(y) \in Nat
        /\ x[1] \in Nat /\ y[1] \in Nat /\ x[2] \in Nat /\ y[2] \in Nat
    BY <1>2, <1>3
  <2>2. x[1] # y[1] \/ x[2] # y[2]
    BY <1>3, <1>9
  <2> QED
    BY <1>4, <2>1, <2>2
<1>10. StrictOrder(S, R)
  BY <1>7, <1>8, <1>9 DEF StrictOrder
<1> QED
  BY <1>10 DEF R

\* _fuse: every chunk that was found, once; what both channels put first comes first.
LEMMA FuseFacts ==
    ASSUME NEW v, NEW w, Found(v), Found(w)
    PROVE  /\ Fuse(v, w) \in Seq(ChunkKeys) /\ Distinct(Fuse(v, w))
           /\ Range(Fuse(v, w)) = Keys(v) \cup Keys(w)
           /\ \A a, b \in Keys(v) \cap Keys(w) :
                 RankOf(v, a) < RankOf(v, b) /\ RankOf(w, a) < RankOf(w, b) =>
                    \E i, j \in DOMAIN Fuse(v, w) :
                        i < j /\ Fuse(v, w)[i] = a /\ Fuse(v, w)[j] = b
<1>1. Keys(<<>>) = {}
  BY DEF Keys
<1>2. CASE v = <<>>
  <2>1. Fuse(v, w) = Plain(w)
    BY <1>2 DEF Fuse
  <2>2. Plain(w) \in Seq(ChunkKeys) /\ Range(Plain(w)) = Keys(w) /\ Distinct(Plain(w))
    BY FoundFacts DEF Found
  <2> QED
    BY <1>1, <1>2, <2>1, <2>2
<1>3. CASE v # <<>> /\ w = <<>>
  <2>1. Fuse(v, w) = Plain(v)
    BY <1>3 DEF Fuse
  <2>2. Plain(v) \in Seq(ChunkKeys) /\ Range(Plain(v)) = Keys(v) /\ Distinct(Plain(v))
    BY FoundFacts DEF Found
  <2> QED
    BY <1>1, <1>3, <2>1, <2>2
<1>4. CASE v # <<>> /\ w # <<>>
  <2>1. PICK S : S = Keys(v) \cup Keys(w)
    OBVIOUS
  <2>2. S \in SUBSET ChunkKeys /\ IsFiniteSet(S)
    <3>1. Keys(v) \subseteq ChunkKeys /\ IsFiniteSet(Keys(v))
      BY FoundFacts
    <3>2. Keys(w) \subseteq ChunkKeys /\ IsFiniteSet(Keys(w))
      BY FoundFacts
    <3>3. IsFiniteSet(Keys(v) \cup Keys(w))
      BY <3>1, <3>2, FS_Union
    <3> QED
      BY <2>1, <3>1, <3>2, <3>3
  <2>3. PICK R : R = {p \in S \X S : FusedBefore(v, w, p[1], p[2])}
    OBVIOUS
  <2>4. StrictOrder(S, R)
    BY <2>2, <2>3, FusedIsStrict
  <2>5. Fuse(v, w) = Ordered(S, R)
    BY <1>4, <2>1, <2>3 DEF Fuse
  <2>6. Fuse(v, w) \in Seq(S) /\ Distinct(Fuse(v, w)) /\ Range(Fuse(v, w)) = S
    BY <2>2, <2>4, <2>5, OrderedLists
  <2>7. Fuse(v, w) \in Seq(ChunkKeys)
    BY <2>2, <2>6
  <2>8. ASSUME NEW a \in Keys(v) \cap Keys(w), NEW b \in Keys(v) \cap Keys(w),
               RankOf(v, a) < RankOf(v, b), RankOf(w, a) < RankOf(w, b)
        PROVE  \E i, j \in DOMAIN Fuse(v, w) : i < j /\ Fuse(v, w)[i] = a /\ Fuse(v, w)[j] = b
    <3>1. Above(Score(v, w, a), Score(v, w, b))
      BY <2>8, LowerRanksScoreMore
    <3>2. FusedBefore(v, w, a, b)
      BY <3>1 DEF FusedBefore
    <3>3. a \in S /\ b \in S /\ <<a, b>> \in R
      BY <2>1, <2>3, <3>2
    <3> QED
      BY <2>2, <2>4, <2>5, <3>3, OrderedLists
  <2> QED
    BY <2>1, <2>6, <2>7, <2>8
<1> QED
  BY <1>2, <1>3, <1>4

-----------------------------------------------------------------------------
(* The choice of diverse results.                                          *)

LEMMA WorthRange ==
    ASSUME NEW S, NEW pool \in Seq(S), NEW text_, NEW c, NEW i \in 1..Len(pool)
    PROVE  /\ Worth(pool, text_, c, i) \in 0..(10 * Len(pool))
           /\ c = <<>> => Worth(pool, text_, c, i) = 7 * (Len(pool) - (i - 1)) + 3 * Len(pool)
<1>1. PICK n \in Nat : n = Len(pool)
  OBVIOUS
<1>2. PICK redundant \in BOOLEAN :
          redundant = (\E j \in Range(c) : text_[pool[i]] = text_[pool[j]])
  OBVIOUS
<1>3. Worth(pool, text_, c, i) = 7 * (n - (i - 1)) + 3 * n - IF redundant THEN 3 * n ELSE 0
  BY <1>1, <1>2 DEF Worth
<1>4. n - (i - 1) \in 1..n
  BY <1>1
<1>5. Worth(pool, text_, c, i) \in 0..(10 * n)
  BY <1>3, <1>4
<1>6. ASSUME c = <<>> PROVE Worth(pool, text_, c, i) = 7 * (n - (i - 1)) + 3 * n
  <2>1. Range(c) = {}
    BY <1>6 DEF Range
  <2>2. ~redundant
    BY <1>2, <2>1
  <2> QED
    BY <1>3, <1>4, <2>2
<1> QED
  BY <1>1, <1>5, <1>6

LEMMA BestIsOpen ==
    ASSUME NEW S, NEW pool \in Seq(S), NEW text_, NEW title, NEW c, Open(pool, text_, title, c) # {}
    PROVE  /\ Best(pool, text_, title, c) \in Open(pool, text_, title, c)
           /\ \A j \in Open(pool, text_, title, c) :
                 \/ Worth(pool, text_, c, Best(pool, text_, title, c)) > Worth(pool, text_, c, j)
                 \/ /\ Worth(pool, text_, c, Best(pool, text_, title, c)) = Worth(pool, text_, c, j)
                    /\ Best(pool, text_, title, c) <= j
<1>1. PICK n \in Nat : n = Len(pool) /\ DOMAIN pool = 1..n
  OBVIOUS
<1>2. PICK O : O = Open(pool, text_, title, c)
  OBVIOUS
<1>3. O \in SUBSET (1..n) /\ O # {}
  BY <1>1, <1>2 DEF Open
<1>4. PICK f : f = [i \in 1..n |-> Worth(pool, text_, c, i)]
  OBVIOUS
<1>5. \A i \in 1..n : f[i] \in 0..(10 * n) /\ f[i] = Worth(pool, text_, c, i)
  BY <1>1, <1>4, WorthRange
<1> DEFINE W == {f[i] : i \in O}
<1>6. PICK m \in W : \A y \in W : y <= m
  <2>1. W \in SUBSET (0..(10 * n)) /\ W # {}
    BY <1>3, <1>5
  <2>2. 10 * n \in Nat
    OBVIOUS
  <2> HIDE DEF W
  <2> QED
    BY <2>1, <2>2, GreatestNumber
<1> DEFINE J == {i \in O : f[i] = m}
<1>7. PICK b \in J : \A y \in J : b <= y
  <2>1. J \in SUBSET Nat
    <3>1. O \subseteq Nat
      BY <1>3
    <3>2. J \subseteq O
      OBVIOUS
    <3> HIDE DEF J
    <3> QED
      BY <3>1, <3>2
  <2>2. PICK i \in O : m = f[i]
    OBVIOUS
  <2>3. J # {}
    BY <2>2
  <2> HIDE DEF J
  <2> QED
    BY <2>1, <2>3, LeastNumber
<1>8. b \in O /\ f[b] = m
  BY <1>7
<1>9. ASSUME NEW j \in O PROVE f[b] > f[j] \/ (f[b] = f[j] /\ b <= j)
  <2>1. f[j] <= m
    BY <1>6
  <2>2. f[j] \in Nat /\ m \in Nat
    BY <1>3, <1>5, <1>8
  <2>3. CASE f[j] = m
    <3>1. j \in J
      BY <2>3
    <3> QED
      BY <1>7, <1>8, <2>3, <3>1
  <2>4. CASE f[j] # m
    BY <1>8, <2>1, <2>2, <2>4
  <2> QED
    BY <2>3, <2>4
<1> HIDE DEF W, J
<1>10. \E i \in O : \A j \in O : \/ Worth(pool, text_, c, i) > Worth(pool, text_, c, j)
                                 \/ Worth(pool, text_, c, i) = Worth(pool, text_, c, j) /\ i <= j
  <2>1. \A j \in O : f[j] = Worth(pool, text_, c, j)
    BY <1>3, <1>5
  <2>2. \A j \in O : \/ Worth(pool, text_, c, b) > Worth(pool, text_, c, j)
                     \/ Worth(pool, text_, c, b) = Worth(pool, text_, c, j) /\ b <= j
    BY <1>8, <1>9, <2>1
  <2> QED
    BY <1>8, <2>2
<1> QED
  BY <1>2, <1>10 DEF Best

\* One more choice, unless nothing is left to choose from; the first is the first.
LEMMA ChooseFacts ==
    ASSUME NEW S, NEW pool \in Seq(S), NEW text_, NEW title,
           NEW c \in Seq(DOMAIN pool), Distinct(c), NEW m \in Nat, Len(c) <= m,
           Len(c) = m \/ Open(pool, text_, title, c) = {},
           m # 0 /\ pool # <<>> => c # <<>> /\ c[1] = 1
    PROVE  LET d == Choose(pool, text_, title, c)
           IN  /\ d \in Seq(DOMAIN pool) /\ Distinct(d) /\ Len(d) <= m + 1
               /\ Len(d) = m + 1 \/ Open(pool, text_, title, d) = {}
               /\ pool # <<>> => d # <<>> /\ d[1] = 1
<1>1. PICK n \in Nat : n = Len(pool) /\ DOMAIN pool = 1..n
  OBVIOUS
<1>2. PICK k \in Nat : k = Len(c) /\ DOMAIN c = 1..k /\ k <= m
  OBVIOUS
<1>3. CASE Open(pool, text_, title, c) = {}
  <2>1. Choose(pool, text_, title, c) = c
    BY <1>3 DEF Choose
  <2>2. ASSUME pool # <<>>, m = 0 PROVE FALSE
    <3>1. c = <<>>
      BY <1>2, <2>2
    <3>2. Range(c) = {}
      BY <3>1 DEF Range
    <3>3. Open(pool, text_, title, c) = DOMAIN pool
      BY <3>2 DEF Open
    <3>4. 1 \in 1..n
      BY <1>1, <2>2
    <3> QED
      BY <1>1, <1>3, <3>3, <3>4
  <2>3. Len(c) <= m + 1
    BY <1>2
  <2> QED
    BY <1>3, <2>1, <2>2, <2>3
<1>4. CASE Open(pool, text_, title, c) # {}
  <2>1. PICK b : b = Best(pool, text_, title, c)
    OBVIOUS
  <2>2. b \in Open(pool, text_, title, c)
    BY <1>4, <2>1, BestIsOpen
  <2>3. b \in 1..n /\ b \notin Range(c)
    BY <1>1, <2>2 DEF Open
  <2>4. PICK d : d = Append(c, b)
    OBVIOUS
  <2>5. Choose(pool, text_, title, c) = d
    BY <1>4, <2>1, <2>4 DEF Choose
  <2>6. /\ d \in Seq(DOMAIN pool) /\ Len(d) = k + 1 /\ DOMAIN d = 1..(k + 1)
        /\ \A i \in 1..k : d[i] = c[i]
        /\ d[k + 1] = b
    BY <1>1, <1>2, <2>3, <2>4
  <2>7. k = m
    BY <1>2, <1>4
  <2>8. Distinct(d)
    <3>1. \A i \in 1..k : d[i] # b
      BY <1>2, <2>3, <2>6 DEF Range
    <3>2. \A i, j \in 1..k : d[i] = d[j] => i = j
      BY <1>2, <2>6 DEF Distinct
    <3>3. \A i \in 1..(k + 1) : i \in 1..k \/ i = k + 1
      BY <1>2
    <3>4. \A i, j \in 1..(k + 1) : d[i] = d[j] => i = j
      BY <2>6, <3>1, <3>2, <3>3
    <3> QED
      BY <2>6, <3>4 DEF Distinct
  <2>9. ASSUME pool # <<>> PROVE d # <<>> /\ d[1] = 1
    <3>1. d # <<>>
      BY <2>6
    <3>2. CASE m # 0
      <4>1. 1 \in 1..k
        BY <2>7, <3>2
      <4> QED
        BY <2>6, <2>9, <3>1, <3>2, <4>1
    <3>3. CASE m = 0
      <4>1. c = <<>>
        BY <1>2, <2>7, <3>3
      <4>2. Range(c) = {}
        BY <4>1 DEF Range
      <4>3. 1 \in Open(pool, text_, title, c)
        <5>1. n # 0
          BY <1>1, <2>9
        <5> QED
          BY <1>1, <4>2, <5>1 DEF Open
      <4>4. \/ Worth(pool, text_, c, b) > Worth(pool, text_, c, 1)
            \/ b <= 1
        BY <1>4, <2>1, <4>3, BestIsOpen
      <4>5. /\ Worth(pool, text_, c, b) = 7 * (n - (b - 1)) + 3 * n
            /\ Worth(pool, text_, c, 1) = 7 * (n - (1 - 1)) + 3 * n
        <5>1. 1 \in 1..n
          BY <2>3
        <5>2. \A i \in 1..n : Worth(pool, text_, c, i) = 7 * (n - (i - 1)) + 3 * n
          BY <1>1, <4>1, WorthRange
        <5> QED
          BY <2>3, <5>1, <5>2
      <4>6. b = 1
        BY <2>3, <4>4, <4>5
      <4> QED
        BY <2>6, <2>7, <3>1, <3>3, <4>6
    <3> QED
      BY <3>2, <3>3
  <2>10. Len(d) <= m + 1 /\ Len(d) = m + 1
    BY <2>6, <2>7
  <2> QED
    BY <2>5, <2>6, <2>8, <2>9, <2>10
<1> QED
  BY <1>3, <1>4

After(f, pool, text_, title, n) ==
    f = [m \in 0..n |-> IF m = 0 THEN <<>> ELSE Choose(pool, text_, title, f[m - 1])]

LEMMA AfterExists ==
    ASSUME NEW pool, NEW text_, NEW title, NEW n \in Nat
    PROVE  \E f : After(f, pool, text_, title, n)
<1> DEFINE Bad == {m \in Nat : ~\E f : After(f, pool, text_, title, m)}
<1> SUFFICES ASSUME Bad # {} PROVE FALSE
  OBVIOUS
<1>1. PICK m \in Bad : \A y \in Bad : m <= y
  <2>1. Bad \in SUBSET Nat
    OBVIOUS
  <2> HIDE DEF Bad
  <2> QED
    BY <2>1, LeastNumber
<1>2. m \in Nat /\ ~\E f : After(f, pool, text_, title, m)
  BY <1>1
<1>3. CASE m = 0
  <2>1. PICK f : f = [k \in 0..0 |-> <<>>]
    OBVIOUS
  <2>2. f = [k \in 0..0 |-> IF k = 0 THEN <<>> ELSE Choose(pool, text_, title, f[k - 1])]
    BY <2>1
  <2> QED
    BY <1>2, <1>3, <2>2 DEF After
<1>4. CASE m # 0
  <2>1. m - 1 \in Nat /\ m - 1 < m
    BY <1>2, <1>4
  <2>2. m - 1 \notin Bad
    <3> HIDE DEF Bad
    <3>1. ~(m <= m - 1)
      BY <1>2, <2>1
    <3> QED
      BY <1>1, <3>1
  <2>3. PICK f : After(f, pool, text_, title, m - 1)
    BY <2>1, <2>2
  <2>4. PICK h : h = [k \in 0..m |-> IF k = m THEN Choose(pool, text_, title, f[m - 1]) ELSE f[k]]
    OBVIOUS
  <2>5. ASSUME NEW k \in 0..m
        PROVE  h[k] = IF k = 0 THEN <<>> ELSE Choose(pool, text_, title, h[k - 1])
    <3>1. CASE k = 0
      <4>1. 0 \in 0..(m - 1) /\ 0 # m /\ 0 \in 0..m
        BY <1>2, <1>4, <2>1
      <4>2. f[0] = <<>>
        BY <2>3, <4>1 DEF After
      <4> QED
        BY <2>4, <3>1, <4>1, <4>2
    <3>2. CASE k # 0 /\ k # m
      <4>1. k \in 0..(m - 1) /\ k - 1 \in 0..(m - 1) /\ k - 1 \in 0..m /\ k - 1 # m
        BY <1>2, <3>2
      <4>2. f[k] = Choose(pool, text_, title, f[k - 1])
        BY <2>3, <3>2, <4>1 DEF After
      <4>3. h[k] = f[k] /\ h[k - 1] = f[k - 1]
        BY <2>4, <3>2, <4>1
      <4> QED
        BY <3>2, <4>2, <4>3
    <3>3. CASE k # 0 /\ k = m
      <4>1. m - 1 \in 0..m /\ m - 1 # m
        BY <1>2, <1>4
      <4>2. h[m - 1] = f[m - 1] /\ h[m] = Choose(pool, text_, title, f[m - 1])
        BY <2>4, <3>3, <4>1
      <4> QED
        BY <3>3, <4>2
    <3> QED
      BY <3>1, <3>2, <3>3
  <2>6. h = [k \in 0..m |-> IF k = 0 THEN <<>> ELSE Choose(pool, text_, title, h[k - 1])]
    BY <2>4, <2>5
  <2> QED
    BY <1>2, <2>6 DEF After
<1> QED
  BY <1>3, <1>4

\* What diverse_indices chooses: positions of the pool, each once, the first one
\* first; fewer than asked for only if every other one is omitted because of a
\* chosen one.
Chosen(pool, text_, title, result, c) ==
    /\ c \in Seq(DOMAIN pool) /\ Distinct(c) /\ Len(c) <= Limit
    /\ Len(c) = Limit \/ Open(pool, text_, title, c) = {}
    /\ pool # <<>> => c # <<>> /\ c[1] = 1
    /\ result = [k \in DOMAIN c |-> pool[c[k]]]

LEMMA DiverseFacts ==
    ASSUME NEW S, NEW pool \in Seq(S), NEW text_, NEW title
    PROVE  \E c : Chosen(pool, text_, title, Diverse(pool, text_, title), c)
<1>1. Limit \in Nat /\ Limit # 0
  BY RetrievalParameters
<1>2. PICK f : f = CHOOSE g : g = [m \in 0..Limit |->
                   IF m = 0 THEN <<>> ELSE Choose(pool, text_, title, g[m - 1])]
  OBVIOUS
<1>3. Diverse(pool, text_, title) = [k \in DOMAIN f[Limit] |-> pool[f[Limit][k]]]
  BY <1>2 DEF Diverse
<1>4. After(f, pool, text_, title, Limit)
  <2>1. \E g : g = [m \in 0..Limit |-> IF m = 0 THEN <<>> ELSE Choose(pool, text_, title, g[m - 1])]
    <3>1. PICK g : After(g, pool, text_, title, Limit)
      BY <1>1, AfterExists
    <3> QED
      BY <3>1 DEF After
  <2> QED
    BY <1>2, <2>1 DEF After
<1> DEFINE Good(m) ==
        /\ f[m] \in Seq(DOMAIN pool) /\ Distinct(f[m]) /\ Len(f[m]) <= m
        /\ Len(f[m]) = m \/ Open(pool, text_, title, f[m]) = {}
        /\ m # 0 /\ pool # <<>> => f[m] # <<>> /\ f[m][1] = 1
      Bad == {m \in 0..Limit : ~Good(m)}
<1>5. Good(0)
  <2>1. f[0] = <<>>
    BY <1>1, <1>4 DEF After
  <2> QED
    BY <2>1 DEF Distinct
<1>6. ASSUME NEW m \in 0..(Limit - 1), Good(m) PROVE Good(m + 1)
  <2>1. m + 1 \in 0..Limit /\ m + 1 # 0 /\ (m + 1) - 1 = m /\ m \in Nat
    BY <1>1
  <2>2. f[m + 1] = Choose(pool, text_, title, f[m])
    BY <1>4, <2>1 DEF After
  <2>3. PICK c : c = f[m]
    OBVIOUS
  <2>4. /\ c \in Seq(DOMAIN pool) /\ Distinct(c) /\ Len(c) <= m
        /\ Len(c) = m \/ Open(pool, text_, title, c) = {}
        /\ m # 0 /\ pool # <<>> => c # <<>> /\ c[1] = 1
    BY <1>6, <2>3
  <2>5. PICK d : d = Choose(pool, text_, title, c)
    OBVIOUS
  <2>6. /\ d \in Seq(DOMAIN pool) /\ Distinct(d) /\ Len(d) <= m + 1
        /\ Len(d) = m + 1 \/ Open(pool, text_, title, d) = {}
        /\ pool # <<>> => d # <<>> /\ d[1] = 1
    BY <2>1, <2>4, <2>5, ChooseFacts
  <2> QED
    BY <2>2, <2>3, <2>5, <2>6
<1>7. Bad = {}
  <2> SUFFICES ASSUME Bad # {} PROVE FALSE
    OBVIOUS
  <2>1. PICK m \in Bad : \A y \in Bad : m <= y
    <3>1. Bad \in SUBSET Nat
      OBVIOUS
    <3> HIDE DEF Bad
    <3> QED
      BY <3>1, LeastNumber
  <2>2. m \in 0..Limit /\ ~Good(m)
    BY <2>1
  <2> HIDE DEF Good
  <2>3. m # 0
    BY <1>5, <2>2
  <2>4. m - 1 \in 0..(Limit - 1) /\ m - 1 \in 0..Limit /\ (m - 1) + 1 = m /\ ~(m <= m - 1)
    BY <1>1, <2>2, <2>3
  <2>5. m - 1 \notin Bad
    <3> HIDE DEF Bad
    <3> QED
      BY <2>1, <2>4
  <2>6. Good(m - 1)
    BY <2>4, <2>5
  <2>7. Good((m - 1) + 1)
    BY <1>6, <2>4, <2>6
  <2> QED
    BY <2>2, <2>4, <2>7
<1>8. Limit \in 0..Limit
  BY <1>1
<1>9. Good(Limit)
  <2> HIDE DEF Good
  <2> QED
    BY <1>7, <1>8
<1> QED
  BY <1>1, <1>3, <1>9 DEF Chosen

-----------------------------------------------------------------------------
(* Searches.                                                               *)

TextIn(t, key) == Content(t[key[1]], SplitSpans(t[key[1]])[key[2]])

\* What SearchIsComplete says of a pool, a result, the two lists and the texts.
Complete(pool, result, v, w, t) ==
    /\ Len(result) <= Limit /\ Cardinality(Range(result)) = Len(result)
    /\ Range(result) \subseteq Range(pool)
    /\ pool # <<>> => result # <<>> /\ Head(result) = Head(pool)
    /\ \A a, b \in Keys(v) \cap Keys(w) :
          RankOf(v, a) < RankOf(v, b) /\ RankOf(w, a) < RankOf(w, b) =>
              \E i, j \in DOMAIN Fuse(v, w) : i < j /\ Fuse(v, w)[i] = a /\ Fuse(v, w)[j] = b
    /\ \A k \in Range(pool) \ Range(result) :
          \/ Len(result) = Limit
          \/ \E r \in Range(result) : r[1] = k[1] /\ TextIn(t, r) = TextIn(t, k)

SearchInv ==
    /\ search.step = "words" => Found(search.words)
    /\ search.step = "found" =>
          Complete(search.pool, search.result, search.vectors, search.words, text)

LEMMA ChunksAreKeys ==
    ASSUME TypedIndex, NEW inside
    PROVE  Chunks(inside) \subseteq ChunkKeys /\ IsFiniteSet(Chunks(inside))
<1>1. PICK D : D = {e \in Docs : InScope(e, inside)}
  OBVIOUS
<1>2. D \in SUBSET Docs /\ IsFiniteSet(D)
  <2>1. D \in SUBSET Docs
    BY <1>1
  <2>2. IsFiniteSet(Docs)
    BY KnowledgeParameters
  <2> QED
    BY <2>1, <2>2, FS_Subset
<1>3. PICK F : F = [d \in D |-> {<<d, i>> : i \in DOMAIN chunks[d]}]
  OBVIOUS
<1>4. \A d \in D : chunks[d] \in Seq(Nat)
  BY <1>2 DEF TypedIndex
<1>5. Chunks(inside) = UNION Range(F)
  BY <1>1, <1>3 DEF Chunks, Range
<1>6. ASSUME NEW T \in Range(F) PROVE IsFiniteSet(T) /\ T \subseteq ChunkKeys
  <2>1. PICK d \in D : T = {<<d, i>> : i \in DOMAIN chunks[d]}
    BY <1>3 DEF Range
  <2>2. PICK n \in Nat : DOMAIN chunks[d] = 1..n
    BY <1>4
  <2>3. PICK g : g = [i \in 1..n |-> <<d, i>>]
    OBVIOUS
  <2>4. g \in Surjection(1..n, T)
    <3>1. g \in [1..n -> T]
      BY <2>1, <2>2, <2>3
    <3>2. \A t \in T : \E i \in 1..n : g[i] = t
      BY <2>1, <2>2, <2>3
    <3> QED
      BY <3>1, <3>2 DEF Surjection
  <2>5. IsFiniteSet(1..n)
    <3>1. 1 \in Int /\ n \in Int
      OBVIOUS
    <3> QED
      BY <3>1, FS_Interval
  <2>6. IsFiniteSet(T)
    BY <2>4, <2>5, FS_Surjection
  <2>7. d \in Docs /\ 1..n \subseteq Nat
    BY <1>2
  <2>8. T \subseteq ChunkKeys
    BY <2>1, <2>2, <2>7 DEF ChunkKeys
  <2> QED
    BY <2>6, <2>8
<1>7. F \in Surjection(D, Range(F))
  <2>1. F \in [D -> Range(F)]
    BY <1>3 DEF Range
  <2>2. \A t \in Range(F) : \E d \in D : F[d] = t
    BY <1>3 DEF Range
  <2> QED
    BY <2>1, <2>2 DEF Surjection
<1>8. IsFiniteSet(Range(F))
  BY <1>2, <1>7, FS_Surjection
<1>9. IsFiniteSet(UNION Range(F))
  BY <1>6, <1>8, FS_UNION
<1> QED
  BY <1>5, <1>6, <1>9

LEMMA ListsAreFound ==
    ASSUME NEW K \in SUBSET ChunkKeys, NEW l \in Lists(K)
    PROVE  Found(l)
<1>1. PICK n \in 0..MaxList : l \in [1..n -> [key : K, score : Scores]]
  BY DEF Lists
<1>2. n \in Nat
  BY KnowledgeParameters
<1>3. \A i, j \in 1..n : i < j => l[i].key # l[j].key
  BY <1>1 DEF Lists
<1>4. l \in [1..n -> Items]
  BY <1>1 DEF Items
<1>5. l \in Seq(Items) /\ Len(l) = n /\ DOMAIN l = 1..n
  BY <1>2, <1>4
<1>6. PICK p : p = Plain(l)
  OBVIOUS
<1>7. DOMAIN p = 1..n /\ \A i \in 1..n : p[i] = l[i].key
  BY <1>5, <1>6 DEF Plain
<1>8. ASSUME NEW i \in 1..n, NEW j \in 1..n, p[i] = p[j] PROVE i = j
  <2>1. ~(i < j) /\ ~(j < i)
    BY <1>3, <1>7, <1>8
  <2> QED
    BY <1>2, <2>1
<1>9. Distinct(p)
  BY <1>7, <1>8 DEF Distinct
<1> QED
  BY <1>2, <1>5, <1>6, <1>9 DEF Found

\* _conversation_document_context: the newest documents, each chunk once.
LEMMA ContextIsComplete ==
    ASSUME TypedIndex, NEW context \in ConversationContext
    PROVE  Complete(context, context, <<>>, <<>>, text)
<1>1. PICK own : own = {k \in Chunks(search.inside) : k[1] \in InConversation}
  OBVIOUS
<1>2. own \subseteq ChunkKeys /\ IsFiniteSet(own)
  <2>1. Chunks(search.inside) \subseteq ChunkKeys /\ IsFiniteSet(Chunks(search.inside))
    BY ChunksAreKeys
  <2>2. own \in SUBSET Chunks(search.inside)
    BY <1>1
  <2>3. IsFiniteSet(own)
    BY <2>1, <2>2, FS_Subset
  <2> QED
    BY <2>1, <2>2, <2>3
<1>3. PICK R : R = {p \in own \X own : p[1][1] > p[2][1] \/ (p[1][1] = p[2][1] /\ p[1][2] < p[2][2])}
  OBVIOUS
<1>4. StrictOrder(own, R)
  <2>1. \A x, y \in own : <<x, y>> \in R <=> x[1] > y[1] \/ (x[1] = y[1] /\ x[2] < y[2])
    BY <1>3
  <2>2. ASSUME NEW x \in own PROVE x[1] \in Nat /\ x[2] \in Nat /\ x = <<x[1], x[2]>>
    <3>1. x \in Docs \X Nat
      BY <1>2 DEF ChunkKeys
    <3>2. x[1] \in Docs /\ x[2] \in Nat /\ x = <<x[1], x[2]>>
      BY <3>1
    <3> QED
      BY <3>2, KnowledgeParameters
  <2>3. \A x \in own : <<x, x>> \notin R
    BY <2>1, <2>2
  <2>4. ASSUME NEW x \in own, NEW y \in own, NEW z \in own, <<x, y>> \in R, <<y, z>> \in R
        PROVE  <<x, z>> \in R
    BY <2>1, <2>2, <2>4
  <2>5. ASSUME NEW x \in own, NEW y \in own, x # y PROVE <<x, y>> \in R \/ <<y, x>> \in R
    <3>1. x[1] # y[1] \/ x[2] # y[2]
      BY <2>2, <2>5
    <3> QED
      BY <2>1, <2>2, <3>1
  <2> QED
    BY <2>3, <2>4, <2>5 DEF StrictOrder
<1>5. PICK all : all = Ordered(own, R)
  OBVIOUS
<1>6. all \in Seq(own) /\ Distinct(all)
  BY <1>2, <1>4, <1>5, OrderedLists
<1>7. context = <<>> \/ context = SubSeq(all, 1, Least(Limit, Len(all)))
  BY <1>1, <1>3, <1>5 DEF ConversationContext
<1>8. Limit \in Nat
  BY RetrievalParameters
<1>9. context \in Seq(own) /\ Distinct(context) /\ Len(context) <= Limit
  <2>1. CASE context = <<>>
    BY <1>8, <2>1 DEF Distinct
  <2>2. CASE context = SubSeq(all, 1, Least(Limit, Len(all)))
    BY <1>6, <1>8, <2>2, BeginningIsDistinct
  <2> QED
    BY <1>7, <2>1, <2>2
<1>10. Cardinality(Range(context)) = Len(context)
  BY <1>9, DistinctCounts
<1>11. Keys(<<>>) = {}
  BY DEF Keys
<1> QED
  BY <1>9, <1>10, <1>11 DEF Complete

LEMMA PoolIsDistinct ==
    ASSUME NEW v, NEW w, Found(v), Found(w), NEW pool \in Reranked(Pooled(Fuse(v, w)))
    PROVE  pool \in Seq(ChunkKeys) /\ Distinct(pool)
<1>1. PICK fused : fused = Fuse(v, w)
  OBVIOUS
<1>2. fused \in Seq(ChunkKeys) /\ Distinct(fused)
  BY <1>1, FuseFacts
<1>3. PICK p : p = Pooled(fused)
  OBVIOUS
<1>4. p \in Seq(ChunkKeys) /\ Distinct(p)
  <2>1. PoolSize \in Nat
    BY RetrievalParameters
  <2> QED
    BY <1>2, <1>3, <2>1, BeginningIsDistinct DEF Pooled
<1>5. \/ pool = p
      \/ \E f \in [DOMAIN p -> DOMAIN p] :
             Range(f) = DOMAIN p /\ pool = [i \in DOMAIN p |-> p[f[i]]]
  BY <1>1, <1>3 DEF Reranked
<1>6. CASE pool = p
  BY <1>4, <1>6
<1>7. CASE pool # p
  <2>1. PICK f \in [DOMAIN p -> DOMAIN p] :
             Range(f) = DOMAIN p /\ pool = [i \in DOMAIN p |-> p[f[i]]]
    BY <1>5, <1>7
  <2> QED
    BY <1>4, <2>1, PermutedIsDistinct
<1> QED
  BY <1>6, <1>7

\* _rerank: what was found by either channel, thinned out.
LEMMA ResultIsComplete ==
    ASSUME NEW v, NEW w, Found(v), Found(w), NEW pool \in Reranked(Pooled(Fuse(v, w)))
    PROVE  Complete(pool, Diverse(pool, Texts(Range(pool)), Titles(Range(pool))), v, w, text)
<1>1. pool \in Seq(ChunkKeys) /\ Distinct(pool)
  BY PoolIsDistinct
<1>2. PICK t : t = Texts(Range(pool))
  OBVIOUS
<1>3. PICK s : s = Titles(Range(pool))
  OBVIOUS
<1>4. PICK result : result = Diverse(pool, t, s)
  OBVIOUS
<1>5. PICK c \in Seq(DOMAIN pool) :
              /\ Distinct(c) /\ Len(c) <= Limit
              /\ Len(c) = Limit \/ Open(pool, t, s, c) = {}
              /\ pool # <<>> => c # <<>> /\ c[1] = 1
              /\ result \in [DOMAIN c -> ChunkKeys]
              /\ \A k \in DOMAIN c : result[k] = pool[c[k]]
  <2>1. \E c : Chosen(pool, t, s, result, c)
    BY <1>1, <1>4, DiverseFacts
  <2>2. PICK c : Chosen(pool, t, s, result, c)
    BY <2>1
  <2>3. \A k \in DOMAIN c : pool[c[k]] \in ChunkKeys
    BY <1>1, <2>2 DEF Chosen
  <2> QED
    BY <2>2, <2>3 DEF Chosen
<1>6. PICK n \in Nat : n = Len(c) /\ DOMAIN c = 1..n
  BY <1>5
<1>7. \A k \in 1..n : c[k] \in DOMAIN pool /\ pool[c[k]] \in ChunkKeys
  BY <1>1, <1>5, <1>6
<1>8. DOMAIN result = 1..n /\ \A k \in 1..n : result[k] = pool[c[k]]
  BY <1>5, <1>6
<1>9. result \in Seq(ChunkKeys) /\ Len(result) = n
  <2>1. result \in [1..n -> ChunkKeys]
    BY <1>5, <1>6
  <2> QED
    BY <2>1
<1>10. Distinct(result)
  <2>1. ASSUME NEW i \in 1..n, NEW j \in 1..n, result[i] = result[j] PROVE i = j
    <3>1. pool[c[i]] = pool[c[j]]
      BY <1>8, <2>1
    <3>2. c[i] = c[j]
      BY <1>1, <1>7, <3>1 DEF Distinct
    <3> QED
      BY <1>5, <1>6, <3>2 DEF Distinct
  <2> QED
    BY <1>8, <2>1 DEF Distinct
<1>11. Cardinality(Range(result)) = Len(result)
  BY <1>9, <1>10, DistinctCounts
<1>12. Range(result) \subseteq Range(pool)
  BY <1>7, <1>8 DEF Range
<1>13. ASSUME pool # <<>> PROVE result # <<>> /\ Head(result) = Head(pool)
  <2>1. n # 0 /\ c[1] = 1
    BY <1>5, <1>6, <1>13
  <2>2. 1 \in 1..n
    BY <2>1
  <2>3. result[1] = pool[1]
    BY <1>8, <2>1, <2>2
  <2>4. result # <<>>
    BY <1>9, <2>1
  <2> QED
    BY <1>1, <1>9, <1>13, <2>3, <2>4
<1>14. ASSUME NEW k \in Range(pool) \ Range(result), Len(result) # Limit
       PROVE  \E r \in Range(result) : r[1] = k[1] /\ TextIn(text, r) = TextIn(text, k)
  <2>1. PICK i \in DOMAIN pool : pool[i] = k
    BY DEF Range
  <2>2. i \notin Range(c)
    <3> SUFFICES ASSUME i \in Range(c) PROVE FALSE
      OBVIOUS
    <3>1. PICK x \in 1..n : c[x] = i
      BY <1>6 DEF Range
    <3>2. result[x] = k
      BY <1>8, <2>1, <3>1
    <3>3. k \in Range(result)
      BY <1>8, <3>2 DEF Range
    <3> QED
      BY <1>14, <3>3
  <2>3. Open(pool, t, s, c) = {}
    BY <1>5, <1>6, <1>9, <1>14
  <2>4. PICK j \in Range(c) : Omits(t[pool[i]] = t[pool[j]], s[pool[i]] = s[pool[j]])
    BY <2>2, <2>3 DEF Open
  <2>5. t[pool[i]] = t[pool[j]] /\ s[pool[i]] = s[pool[j]]
    BY <2>4 DEF Omits
  <2>6. PICK x \in 1..n : c[x] = j
    BY <1>6 DEF Range
  <2>7. PICK r : r = result[x]
    OBVIOUS
  <2>8. r \in Range(result) /\ r = pool[j]
    BY <1>8, <2>6, <2>7 DEF Range
  <2>9. k \in Range(pool) /\ r \in Range(pool)
    BY <1>12, <1>14, <2>8
  <2>10. t[k] = TextIn(text, k) /\ t[r] = TextIn(text, r)
    BY <1>2, <2>9 DEF Texts, TextOf, TextIn
  <2>11. s[k] = k[1] /\ s[r] = r[1]
    BY <1>3, <2>9 DEF Titles
  <2> QED
    BY <2>1, <2>5, <2>8, <2>10, <2>11
<1>15. \A a, b \in Keys(v) \cap Keys(w) :
          RankOf(v, a) < RankOf(v, b) /\ RankOf(w, a) < RankOf(w, b) =>
              \E i, j \in DOMAIN Fuse(v, w) : i < j /\ Fuse(v, w)[i] = a /\ Fuse(v, w)[j] = b
  BY FuseFacts
<1>16. Len(result) <= Limit
  BY <1>5, <1>6, <1>9
<1>17. Complete(pool, result, v, w, text)
  BY <1>11, <1>12, <1>13, <1>14, <1>15, <1>16 DEF Complete
<1> QED
  BY <1>2, <1>3, <1>4, <1>17

LEMMA SearchNext ==
    ASSUME TypedIndex, SearchInv, [RagNext]_ragVars
    PROVE  SearchInv'
<1>1. CASE search' = search /\ text' = text
  BY <1>1 DEF SearchInv
<1>2. CASE FindByWords
  <2>1. PICK inside \in BOOLEAN : \E words \in Lists(Chunks(inside)) :
           search' = [step |-> "words", inside |-> inside, words |-> words]
    BY <1>2 DEF FindByWords
  <2>2. PICK words \in Lists(Chunks(inside)) :
           search' = [step |-> "words", inside |-> inside, words |-> words]
    BY <2>1
  <2>3. Found(words)
    BY ChunksAreKeys, ListsAreFound
  <2> QED
    BY <2>2, <2>3 DEF SearchInv
<1>3. CASE FindByVector
  <2>1. search.step = "words" /\ text' = text
    BY <1>3 DEF FindByVector, index
  <2>2. PICK words : words = search.words /\ Found(words)
    BY <2>1 DEF SearchInv
  <2>3. PICK K : K = {k \in Chunks(search.inside) : chunks[k[1]][k[2]] # 0}
    OBVIOUS
  <2>4. K \in SUBSET ChunkKeys
    BY <2>3, ChunksAreKeys
  <2>5. PICK vectors \in Lists(K) :
          IF vectors = <<>> /\ words = <<>>
          THEN \E context \in ConversationContext :
                  search' = [step |-> "found", words |-> <<>>, vectors |-> <<>>,
                             pool |-> context, result |-> context]
          ELSE \E pool \in Reranked(Pooled(Fuse(vectors, words))) :
                  search' = [step |-> "found", words |-> words, vectors |-> vectors,
                             pool |-> pool,
                             result |-> Diverse(pool, Texts(Range(pool)), Titles(Range(pool)))]
    BY <1>3, <2>2, <2>3 DEF FindByVector
  <2>6. Found(vectors)
    BY <2>4, ListsAreFound
  <2>7. CASE vectors = <<>> /\ words = <<>>
    <3>1. PICK context \in ConversationContext :
            search' = [step |-> "found", words |-> <<>>, vectors |-> <<>>,
                       pool |-> context, result |-> context]
      BY <2>5, <2>7
    <3>2. Complete(context, context, <<>>, <<>>, text)
      BY ContextIsComplete
    <3> QED
      BY <2>1, <3>1, <3>2 DEF SearchInv
  <2>8. CASE ~(vectors = <<>> /\ words = <<>>)
    <3>1. PICK pool \in Reranked(Pooled(Fuse(vectors, words))) :
            search' = [step |-> "found", words |-> words, vectors |-> vectors, pool |-> pool,
                       result |-> Diverse(pool, Texts(Range(pool)), Titles(Range(pool)))]
      BY <2>5, <2>8
    <3>2. PICK result : result = Diverse(pool, Texts(Range(pool)), Titles(Range(pool)))
      OBVIOUS
    <3>3. Complete(pool, result, vectors, words, text)
      BY <2>2, <2>6, <3>2, ResultIsComplete
    <3>4. search' = [step |-> "found", words |-> words, vectors |-> vectors, pool |-> pool,
                     result |-> result]
      BY <3>1, <3>2
    <3> QED
      BY <2>1, <3>3, <3>4 DEF SearchInv
  <2> QED
    BY <2>7, <2>8
<1>4. CASE Answered
  <2>1. search'.step = "none"
    BY <1>4 DEF Answered, NoSearch
  <2> QED
    BY <2>1 DEF SearchInv
<1> QED
  BY <1>1, <1>2, <1>3, <1>4 DEF RagNext, ragVars, index, looking, Upload, InsertDocument, EmbedBatch, LockDocument, WriteIndex, Deadlock, DeleteChunks, DeleteDocuments

LEMMA SearchInvariant == RagSpec => []SearchInv
<1>1. RagInit => SearchInv
  BY DEF RagInit, SearchInv, NoSearch
<1>2. IndexInv /\ SearchInv /\ [RagNext]_ragVars => SearchInv'
  BY SearchNext DEF IndexInv
<1> QED
  BY <1>1, <1>2, IndexInvariant, PTL DEF RagSpec

\* A search returns nothing twice and no more than asked for, leaves a candidate
\* out only for want of room or because a result of the same document has its text,
\* keeps the first candidate first, and fuses in the order both channels agree on
\* (RagService.search, _fuse, _rerank, diverse_indices).
THEOREM SearchesAreComplete == RagSpec => []SearchIsComplete
<1>1. SearchInv => SearchIsComplete
  BY DEF SearchInv, Complete, SearchIsComplete, TextOf, TextIn
<1> QED
  BY <1>1, SearchInvariant, PTL
=============================================================================
