----------------------------- MODULE Knowledge -----------------------------
(***************************************************************************)
(* The knowledge base of a user: documents are indexed and indexed anew    *)
(* while the embedding service may fail, a conversation is deleted with    *)
(* its documents, and searches read the index in two statements.           *)
(*                                                                         *)
(* A step is a statement, a transaction that needs no further lock, or one *)
(* request to a service. The locks that outlive a statement are variables. *)
(***************************************************************************)
EXTENDS Retrieval

CONSTANTS
    Docs,           \* documents, as numbers
    InConversation, \* those that belong to the conversation; the others are global
    Reindexers,     \* requests to index a document anew
    Deleter, Free,  \* the request to delete the conversation; nobody
    Batch,          \* embedding_batch_size
    Scenarios,      \* what may happen: [texts, stored, uploads, reindexers, searches, deletes]
    MaxList,        \* bound: how many chunks a channel finds, MAX_CANDIDATES at most
    Scores          \* bound: the similarities a channel gives, as numbers

ASSUME KnowledgeParameters ==
    /\ Docs \subseteq Nat /\ IsFiniteSet(Docs) /\ InConversation \subseteq Docs
    /\ Docs \cap Reindexers = {} /\ Deleter \notin Docs \cup Reindexers
    /\ Free \notin Reindexers \cup {Deleter}
    /\ Batch \in Nat \ {0} /\ MaxList \in 0..120 /\ Scores \subseteq Nat
    /\ \A c \in Scenarios :
          /\ c.texts \subseteq [Docs -> Seq({"x", "s", "p"})]
          /\ c.reindexers \subseteq Reindexers
          /\ c.stored \cup c.uploads \subseteq Docs /\ c.stored \cap c.uploads = {}

VARIABLES
    text,           \* the text of each document
    chunks,         \* the vectors of its chunks, 0 for none; NotThere if not stored
    meta,           \* what its metadata says: [count, embedded]
    conversation,   \* "there" or "gone"
    request,            \* the requests: an upload per document, the reindexers, the deletion
    docLock, chunkLock,     \* who holds the document's row, the rows of its chunks
    search,         \* the search in progress
    searches, deletes       \* how many more there may be

index == <<text, chunks, meta, conversation>>
locks == <<docLock, chunkLock>>
looking == <<search, searches>>
ragVars == <<index, request, locks, looking, deletes>>

NotThere == <<>>
Stored(d) == chunks[d] # NotThere
HasVectors(d) == Stored(d) /\ \E i \in DOMAIN chunks[d] : chunks[d][i] # 0
Jobs == Docs \cup Reindexers \cup {Deleter}
SpanCount(d) == Len(SplitSpans(text[d]))

NotBegun == [step |-> "idle"]
NoSearch == [step |-> "none"]

RagTypeOK ==
    /\ \A d \in Docs : Stored(d) => chunks[d] \in Seq(Nat) /\ meta[d].count \in Nat
    /\ conversation \in {"there", "gone"}
    /\ docLock \in [Docs -> {Free} \cup Reindexers] /\ chunkLock \in [Docs -> {Free, Deleter}]
    /\ \A j \in Jobs : request[j].step \in {"idle", "embedding", "embedded", "chunks", "over"}
    /\ search.step \in {"none", "words", "found"}

\* Documents stored at the start have their vectors.
RagInit ==
    \E c \in Scenarios :
        /\ text \in c.texts
        /\ chunks = [d \in Docs |-> IF d \in c.stored THEN [i \in 1..SpanCount(d) |-> i] ELSE NotThere]
        /\ meta = [d \in Docs |-> IF d \in c.stored THEN [count |-> SpanCount(d), embedded |-> SpanCount(d)]
                                  ELSE [count |-> 0, embedded |-> 0]]
        /\ conversation = "there"
        /\ request = [j \in Jobs |-> IF j \in c.uploads \cup c.reindexers \cup {Deleter}
                                 THEN NotBegun ELSE [step |-> "over"]]
        /\ docLock = [d \in Docs |-> Free] /\ chunkLock = [d \in Docs |-> Free]
        /\ search = NoSearch /\ searches = c.searches /\ deletes = c.deletes

SetJob(j, r) == request' = [request EXCEPT ![j] = r]
Embedding(d) == [step |-> "embedding", doc |-> d, vectors |-> <<>>]
Finished == [step |-> "over"]

-----------------------------------------------------------------------------
(* Indexing.                                                               *)

\* The routes that add a document check the conversation; a text without
\* content is refused.
Upload(d) ==
    /\ request[d] = NotBegun
    /\ IF (d \in InConversation /\ conversation = "gone") \/ SplitSpans(text[d]) = <<>>
       THEN SetJob(d, Finished) ELSE SetJob(d, Embedding(d))
    /\ UNCHANGED <<index, locks, looking, deletes>>

\* An answer that cannot be used, and a service that does not answer in spite of
\* retries, leave the whole document without vectors.
EmbeddingFails(j) == SetJob(j, [request[j] EXCEPT !.step = "embedded", !.vectors = <<>>])

\* One batch: the rows of the answer name the texts they are for.
EmbedBatch(j) ==
    LET done == request[j].vectors
        n == Least(Batch, SpanCount(request[j].doc) - Len(done))
    IN
    /\ request[j].step = "embedding"
    /\ \E rows \in UNION {[1..m -> 1..n] : m \in 0..n} :
          LET got == done \o [i \in DOMAIN Aligned(rows) |-> Len(done) + Aligned(rows)[i]]
          IN  IF ~ValidResponse(rows, n)
              THEN EmbeddingFails(j)
              ELSE SetJob(j, [request[j] EXCEPT
                     !.step = IF Len(got) = SpanCount(request[j].doc) THEN "embedded" ELSE "embedding",
                     !.vectors = got])
    /\ UNCHANGED <<index, locks, looking, deletes>>

\* Vectors for all chunks or for none; the metadata says which.
Write(d, vectors) ==
    /\ chunks' = [chunks EXCEPT ![d] = IF vectors = <<>> THEN [i \in 1..SpanCount(d) |-> 0] ELSE vectors]
    /\ meta' = [meta EXCEPT ![d] = [count |-> SpanCount(d), embedded |-> Len(vectors)]]

\* The document and its chunks are one commit, which fails if the conversation
\* has been deleted while the text was embedded.
InsertDocument(d) ==
    /\ request[d].step = "embedded"
    /\ IF d \in InConversation /\ conversation = "gone" THEN UNCHANGED <<chunks, meta>>
       ELSE Write(d, request[d].vectors)
    /\ SetJob(d, Finished)
    /\ UNCHANGED <<text, conversation, locks, looking, deletes>>

\* reindex_document locks the document's row for as long as the service takes.
LockDocument(r) ==
    /\ request[r] = NotBegun
    /\ \E d \in Docs :
          /\ Stored(d) /\ docLock[d] = Free
          /\ docLock' = [docLock EXCEPT ![d] = r]
          /\ SetJob(r, Embedding(d))
    /\ UNCHANGED <<index, chunkLock, looking, deletes>>

Overwrites(r) == TRUE

\* "Do not destroy a usable vector index during a provider outage."
MayWrite(r) == request[r].vectors # <<>> \/ ~HasVectors(request[r].doc)

Unlock(r) == docLock' = [d \in Docs |-> IF docLock[d] = r THEN Free ELSE docLock[d]]

WriteIndex(r) ==
    LET d == request[r].doc IN
    /\ r \in Reindexers /\ request[r].step = "embedded"
    /\ IF MayWrite(r) THEN chunkLock[d] = Free /\ Write(d, request[r].vectors)
       ELSE UNCHANGED <<chunks, meta>>
    /\ SetJob(r, Finished) /\ Unlock(r)
    /\ UNCHANGED <<text, conversation, chunkLock, looking, deletes>>

-----------------------------------------------------------------------------
(* DELETE /conversations/{id}.                                             *)

\* cleanup_conversation_records deletes the chunks first ...
DeleteChunks ==
    /\ request[Deleter] = NotBegun /\ deletes > 0 /\ conversation = "there"
    /\ chunkLock' = [d \in Docs |-> IF d \in InConversation /\ Stored(d) THEN Deleter ELSE Free]
    /\ SetJob(Deleter, [step |-> "chunks"]) /\ deletes' = deletes - 1
    /\ UNCHANGED <<index, docLock, looking>>

\* ... then the documents, for which it needs their rows, and commits. A
\* document added in between goes with the conversation.
DeleteDocuments ==
    /\ request[Deleter].step = "chunks"
    /\ \A d \in InConversation : docLock[d] = Free
    /\ conversation' = "gone"
    /\ chunks' = [d \in Docs |-> IF d \in InConversation THEN NotThere ELSE chunks[d]]
    /\ chunkLock' = [d \in Docs |-> Free]
    /\ SetJob(Deleter, NotBegun)
    /\ UNCHANGED <<text, meta, docLock, looking, deletes>>

\* The reindexer has the document and wants the chunks, the deletion the other
\* way round: the database aborts one of them.
Deadlock(r) ==
    LET d == request[r].doc IN
    /\ r \in Reindexers /\ request[r].step = "embedded" /\ MayWrite(r) /\ chunkLock[d] = Deleter
    /\ \/ SetJob(r, Finished) /\ Unlock(r) /\ UNCHANGED chunkLock
       \/ /\ SetJob(Deleter, NotBegun) /\ UNCHANGED docLock
          /\ chunkLock' = [e \in Docs |-> Free]
    /\ UNCHANGED <<index, looking, deletes>>

-----------------------------------------------------------------------------
(* Searching.                                                              *)

\* Global documents and, in a conversation, its own.
InScope(d, inside) == Stored(d) /\ (d \in InConversation => inside)
Chunks(inside) == UNION {{<<d, i>> : i \in DOMAIN chunks[d]} : d \in {e \in Docs : InScope(e, inside)}}

Lists(keys) ==
    {l \in UNION {[1..n -> [key : keys, score : Scores]] : n \in 0..MaxList} :
        \A i, j \in DOMAIN l : i < j => l[i].key # l[j].key /\ l[i].score >= l[j].score}

TextOf(key) == Content(text[key[1]], SplitSpans(text[key[1]])[key[2]])
Texts(keys) == [key \in keys |-> TextOf(key)]
Titles(keys) == [key \in keys |-> key[1]]

\* The words are looked up before the question is embedded.
FindByWords ==
    /\ search.step = "none" /\ searches > 0
    /\ searches' = searches - 1
    /\ \E inside \in BOOLEAN : \E words \in Lists(Chunks(inside)) :
          search' = [step |-> "words", inside |-> inside, words |-> words]
    /\ UNCHANGED <<index, request, locks, deletes>>

\* The chunks of the conversation's documents, if the question is about them.
ConversationContext ==
    LET own == {k \in Chunks(search.inside) : k[1] \in InConversation}
        newer(a, b) == a[1] > b[1] \/ (a[1] = b[1] /\ a[2] < b[2])
        all == Ordered(own, {p \in own \X own : newer(p[1], p[2])})
    IN  {<<>>, SubSeq(all, 1, Least(Limit, Len(all)))}

FindByVector ==
    /\ search.step = "words"
    /\ \E vectors \in Lists({k \in Chunks(search.inside) : chunks[k[1]][k[2]] # 0}) :
          IF vectors = <<>> /\ search.words = <<>>
          THEN \E context \in ConversationContext :
                  search' = [step |-> "found", words |-> <<>>, vectors |-> <<>>,
                             pool |-> context, result |-> context]
          ELSE \E pool \in Reranked(Pooled(Fuse(vectors, search.words))) :
                  search' = [step |-> "found", words |-> search.words, vectors |-> vectors,
                             pool |-> pool,
                             result |-> Diverse(pool, Texts(Range(pool)), Titles(Range(pool)))]
    /\ UNCHANGED <<index, request, locks, searches, deletes>>

Answered ==
    /\ search.step = "found"
    /\ search' = NoSearch
    /\ UNCHANGED <<index, request, locks, searches, deletes>>

RagNext ==
    \/ \E d \in Docs : Upload(d) \/ InsertDocument(d)
    \/ \E j \in Docs \cup Reindexers : EmbedBatch(j)
    \/ \E r \in Reindexers : LockDocument(r) \/ WriteIndex(r) \/ Deadlock(r)
    \/ DeleteChunks \/ DeleteDocuments
    \/ FindByWords \/ FindByVector \/ Answered

RagSpec == RagInit /\ [][RagNext]_ragVars

-----------------------------------------------------------------------------
(* Properties.                                                             *)

\* A stored document has a chunk for each span, the spans cover its text, and
\* either every chunk has the vector of its own text or none has any; the
\* metadata says which. So it stays through failures of the service in any
\* batch, rows in any order, requests that overlap and the deadlock.
IndexIsWhole ==
    /\ RagTypeOK
    /\ \A d \in Docs : Stored(d) =>
          /\ Covers(SplitSpans(text[d]), text[d]) /\ Len(chunks[d]) = SpanCount(d)
          /\ chunks[d] \in {[i \in 1..SpanCount(d) |-> i], [i \in 1..SpanCount(d) |-> 0]}
          /\ meta[d] = [count |-> SpanCount(d), embedded |-> IF HasVectors(d) THEN SpanCount(d) ELSE 0]

\* Indexing anew never takes the vectors of a document away.
VectorsSurviveOutage ==
    [][\A d \in Docs : HasVectors(d) /\ Stored(d)' => HasVectors(d)']_ragVars

\* What a search returns: nothing twice, no more than asked for, only what was
\* found. A candidate is left out only for want of room or because a result of
\* the same document has its text; the first candidate stays first. And fusion
\* puts a chunk that both channels rank above another one before it.
SearchIsComplete ==
    search.step = "found" =>
        LET pool == search.pool result == search.result
            fused == Fuse(search.vectors, search.words)
            before(seq, a, b) == \E i, j \in DOMAIN seq : i < j /\ seq[i] = a /\ seq[j] = b
        IN
        /\ Len(result) <= Limit /\ Cardinality(Range(result)) = Len(result)
        /\ Range(result) \subseteq Range(pool)
        /\ pool # <<>> => result # <<>> /\ Head(result) = Head(pool)
        /\ \A a, b \in Keys(search.vectors) \cap Keys(search.words) :
              RankOf(search.vectors, a) < RankOf(search.vectors, b)
              /\ RankOf(search.words, a) < RankOf(search.words, b) => before(fused, a, b)
        /\ \A k \in Range(pool) \ Range(result) :
              \/ Len(result) = Limit
              \/ \E r \in Range(result) : r[1] = k[1] /\ TextOf(r) = TextOf(k)
=============================================================================
