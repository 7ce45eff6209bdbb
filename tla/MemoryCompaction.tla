-------------------------- MODULE MemoryCompaction --------------------------
(***************************************************************************)
(* Compaction of one conversation's old messages into its memory summary   *)
(* (MemoryService), and the routes that disable or delete a summary while  *)
(* the model is writing a new one.                                         *)
(*                                                                         *)
(* Compaction holds the conversation's row FOR UPDATE from its first       *)
(* statement to its commit: other compactions skip, and inserting a        *)
(* message (which shares the row's key) waits. Disabling does not lock the *)
(* conversation. An action is a statement, or several between which nobody *)
(* else can change what they read.                                         *)
(*                                                                         *)
(* Messages are numbered in the order of (created_at, id). An instant is   *)
(* the number of messages that were there. A message has Size equal        *)
(* pieces: the code counts characters.                                     *)
(***************************************************************************)
EXTENDS Naturals, FiniteSets

CONSTANTS
    Summaries,      \* ids of rows of memory_summaries
    NoSummary,      \* no active summary to go on from
    NoTime,         \* valid_to IS NULL
    Size,           \* pieces of a message
    Budget,         \* agent_memory_input_max_chars, in pieces
    Fetched,        \* the LIMIT of _source_messages, 50 in the code
    Recent,         \* agent_memory_message_limit
    MaxMessages     \* bound: the length of the conversation

ASSUME MemoryParameters ==
    /\ NoSummary \notin Summaries /\ NoTime \notin Nat
    /\ Size \in Nat \ {0} /\ Budget \in Nat \ {0} /\ Fetched \in Nat \ {0}
    /\ Recent \in Nat /\ MaxMessages \in Nat

VARIABLES
    messages,   \* how many messages there are
    cursor,     \* memory_cursor in the conversation's metadata
    state,      \* of a summary: "absent", "active", "disabled" or "deleted"
    covers,     \* the pieces a summary is made from
    retired,    \* valid_to
    job,        \* the compaction that holds the conversation's row
    disabling,  \* per summary, valid_to of a request that has yet to write it
    deleting,   \* summaries that a request to delete has read
    folded,     \* the pieces that compaction has put into summaries
    late,       \* summaries forgotten after the first compaction had begun
    lines       \* the instants at which something was forgotten

rows == <<state, covers, retired>>
requests == <<disabling, deleting>>
history == <<folded, late, lines>>
vars == <<messages, cursor, rows, job, requests, history>>

Pieces == 1..MaxMessages * Size

\* {}, {"after_time": ...} and {"message_id": ..., "offset": ...}
NoCursor == [kind |-> "none", message |-> 0, offset |-> 0]
AfterTime(n) == [kind |-> "after", message |-> n, offset |-> 0]
AtMessage(m, offset) == [kind |-> "at", message |-> m, offset |-> offset]
Cursors == [kind : {"none", "after", "at"}, message : 0..MaxMessages, offset : 0..(Size - 1)]

Idle == [phase |-> "idle", batch |-> {}, next |-> NoCursor, existing |-> NoSummary]

TypeOK ==
    /\ messages \in 0..MaxMessages
    /\ cursor \in Cursors
    /\ state \in [Summaries -> {"absent", "active", "disabled", "deleted"}]
    /\ covers \in [Summaries -> SUBSET Pieces]
    /\ retired \in [Summaries -> 0..MaxMessages \cup {NoTime}]
    /\ job \in [phase : {"idle", "batched", "summarizing"}, batch : SUBSET Pieces,
                next : Cursors, existing : Summaries \cup {NoSummary}]
    /\ disabling \in [Summaries -> 0..MaxMessages \cup {NoTime}]
    /\ deleting \subseteq Summaries
    /\ folded \subseteq Pieces
    /\ late \subseteq Summaries
    /\ lines \subseteq 0..MaxMessages

\* A conversation from before the cursor: it may have a summary of all that
\* was said, which may have been disabled since.
Init ==
    /\ messages \in 0..MaxMessages
    /\ cursor = NoCursor
    /\ \E old \in SUBSET Summaries :
           /\ \A i, j \in old : i = j
           /\ \E s \in {"active", "disabled"} :
                  /\ state = [i \in Summaries |-> IF i \in old THEN s ELSE "absent"]
                  /\ retired = [i \in Summaries |->
                         IF i \in old /\ s = "disabled" THEN messages ELSE NoTime]
           /\ covers = [i \in Summaries |-> IF i \in old THEN 1..messages * Size ELSE {}]
    /\ job = Idle
    /\ disabling = [i \in Summaries |-> NoTime]
    /\ deleting = {}
    /\ folded = {}
    /\ late = {}
    /\ lines = {retired[i] : i \in Summaries} \ {NoTime}

-----------------------------------------------------------------------------
(* Faulty variants, one line away from the code; no action uses them.      *)

SourceDropsTheTail(from) ==
    {m \in 1..messages : m + Recent <= messages /\ m > from.message}

ForgetLineIgnored == 0

ExistingIgnored(i) == FALSE

RowNotLocked(i) == TRUE

-----------------------------------------------------------------------------
(* MemoryService._update.                                                  *)

Active == {i \in Summaries : state[i] = "active"}

\* The latest valid_to of the conversation, 0 if there is none.
RetiredAt ==
    LET times == {retired[i] : i \in {j \in Summaries : state[j] = "disabled"}} IN
    IF times = {} THEN 0 ELSE CHOOSE t \in times : \A u \in times : u <= t

\* Without a cursor, compaction starts after the last disabled summary.
Start ==
    IF cursor.kind # "none" THEN cursor
    ELSE IF RetiredAt # 0 THEN AfterTime(RetiredAt) ELSE NoCursor

\* _source_messages before its LIMIT.
Source(from) ==
    {m \in 1..messages :
        /\ m + Recent <= messages
        /\ IF from.offset # 0 THEN m >= from.message ELSE m > from.message}

\* The cursor when the pieces up to end, counted from the start of first, are
\* read: offset 0 stands for a complete message.
Advanced(first, end) ==
    AtMessage(first + (end - 1) \div Size, end % Size)

\* _batch reads on from the offset until the messages or the budget are used up.
ReadBatch ==
    LET source == Source(Start)
        first == CHOOSE m \in source : \A n \in source : m <= n
        count == IF Cardinality(source) < Fetched THEN Cardinality(source) ELSE Fetched
        left == count * Size - Start.offset
        end == Start.offset + (IF left < Budget THEN left ELSE Budget)
        before == (first - 1) * Size
    IN /\ job.phase = "idle"
       /\ source # {}
       /\ job' = [phase |-> "batched",
                  batch |-> (before + Start.offset + 1)..(before + end),
                  next |-> Advanced(first, end), existing |-> NoSummary]
       /\ UNCHANGED <<messages, cursor, rows, requests, history>>

IsActive(i) == state[i] = "active"

\* The active summary is locked for as long as the model takes.
PickExisting ==
    /\ job.phase = "batched"
    /\ \/ \E i \in Summaries :
              IsActive(i) /\ job' = [job EXCEPT !.phase = "summarizing", !.existing = i]
       \/ /\ \A i \in Summaries : ~IsActive(i)
          /\ job' = [job EXCEPT !.phase = "summarizing"]
    /\ UNCHANGED <<messages, cursor, rows, requests, history>>

\* Summary and cursor are committed together.
Commit ==
    /\ job.phase = "summarizing"
    /\ \/ /\ job.existing # NoSummary
          /\ covers' = [covers EXCEPT ![job.existing] = @ \cup job.batch]
          /\ UNCHANGED state
       \/ /\ job.existing = NoSummary
          /\ \E i \in Summaries :
                 /\ state[i] = "absent"
                 /\ state' = [state EXCEPT ![i] = "active"]
                 /\ covers' = [covers EXCEPT ![i] = job.batch]
    /\ cursor' = job.next
    /\ folded' = folded \cup job.batch
    /\ job' = Idle
    /\ UNCHANGED <<messages, retired, requests, late, lines>>

\* The model fails or writes nothing usable, the time limit, a cancellation or a
\* crash: everything is rolled back.
RollBack ==
    /\ job.phase # "idle"
    /\ job' = Idle
    /\ UNCHANGED <<messages, cursor, rows, requests, history>>

-----------------------------------------------------------------------------
(* The routes of a summary, and the conversation.                          *)

\* Compaction has neither laid a cursor nor begun to: for the history only.
Untouched == cursor.kind = "none" /\ job.phase = "idle"

\* The active summary is selected FOR UPDATE.
RowFree(i) == job.existing # i

\* POST /memory/summaries/{id}/disable reads the row without a lock ...
BeginDisable(i) ==
    /\ state[i] = "active"
    /\ disabling[i] = NoTime
    /\ disabling' = [disabling EXCEPT ![i] = messages]
    /\ UNCHANGED <<messages, cursor, rows, job, deleting, history>>

\* ... and writes it when compaction lets go of it. The row may be gone.
Disable(i) ==
    /\ disabling[i] # NoTime
    /\ RowFree(i)
    /\ IF state[i] = "deleted" THEN UNCHANGED <<state, retired, late, lines>>
       ELSE /\ state' = [state EXCEPT ![i] = "disabled"]
            /\ retired' = [retired EXCEPT ![i] = disabling[i]]
            /\ lines' = lines \cup {disabling[i]}
            /\ late' = IF Untouched THEN late ELSE late \cup {i}
    /\ disabling' = [disabling EXCEPT ![i] = NoTime]
    /\ UNCHANGED <<messages, cursor, covers, job, deleting, folded>>

\* DELETE /memory/summaries/{id} reads the row ...
BeginDelete(i) ==
    /\ state[i] \in {"active", "disabled"}
    /\ deleting' = deleting \cup {i}
    /\ UNCHANGED <<messages, cursor, rows, job, disabling, history>>

\* Where compaction must not start before, once a summary is deleted.
ForgetLine == messages

\* ... waits for the conversation, and leaves a boundary if there is none.
Delete(i) ==
    /\ i \in deleting
    /\ job.phase = "idle"
    /\ cursor' = IF cursor.kind = "none" THEN AfterTime(ForgetLine) ELSE cursor
    /\ state' = [state EXCEPT ![i] = "deleted"]
    /\ lines' = lines \cup {messages}
    /\ late' = IF state[i] = "active" /\ ~Untouched THEN late \cup {i} ELSE late
    /\ deleting' = deleting \ {i}
    /\ UNCHANGED <<messages, covers, retired, job, disabling, folded>>

\* A message of either role that is not empty.
Say ==
    /\ messages < MaxMessages
    /\ job.phase = "idle"
    /\ messages' = messages + 1
    /\ UNCHANGED <<cursor, rows, job, requests, history>>

-----------------------------------------------------------------------------

Next ==
    \/ ReadBatch \/ PickExisting \/ Commit \/ RollBack \/ Say
    \/ \E i \in Summaries : BeginDisable(i) \/ Disable(i) \/ BeginDelete(i) \/ Delete(i)

Spec == Init /\ [][Next]_vars

-----------------------------------------------------------------------------
(* Properties.                                                             *)

\* The pieces up to the cursor: all it claims to have been read.
UpTo(c) == IF c.offset = 0 THEN c.message * Size ELSE (c.message - 1) * Size + c.offset

\* "Large messages are consumed in consecutive bounded parts; unread tails are
\* not dropped": what has been folded into summaries is exactly what lies between
\* the place where compaction started and the cursor, whatever failed or was
\* forgotten in between; it started at the beginning or where something had
\* been forgotten, and no piece is about to be folded a second time. Cursors,
\* batches and summaries are of their types.
CursorTellsWhatIsFolded ==
    /\ TypeOK
    /\ job.batch \cap folded = {}
    /\ folded # {} =>
           \E start \in {0} \cup lines : folded = (start * Size + 1)..UpTo(cursor)

\* A conversation has one active summary, though several processes compact it
\* and summaries are disabled and deleted meanwhile.
OneActiveSummary == \A i, j \in Active : i = j

\* "... never seed themselves with a disabled summary": the model writes for
\* seconds, and its text still never goes into a summary that the user has
\* disabled or deleted meanwhile.
ForgottenIsNotExtended ==
    [][\A i \in Summaries :
           state[i] \in {"disabled", "deleted"} =>
               covers'[i] = covers[i] /\ state'[i] # "active"]_vars

\* What a forgotten summary was made from is in an active one.
Regenerated(i) ==
    state[i] \in {"disabled", "deleted"} /\ \E j \in Active : covers[i] \cap covers[j] # {}

\* Legacy summaries and others: what was forgotten does not come back, unless
\* it was a legacy summary that was forgotten after compaction had begun to read
\* its history a second time.
ForgottenStaysForgotten ==
    \A i \in Summaries : Regenerated(i) => i \in late
=============================================================================
