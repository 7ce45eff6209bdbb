----------------------------- MODULE Retrieval -----------------------------
(***************************************************************************)
(* The algorithms of the knowledge base on plain data: how a text is split *)
(* into overlapping spans, how the vectors of a batch are matched with     *)
(* their texts, how two ranked lists are fused and how diverse results are *)
(* picked.                                                                 *)
(*                                                                         *)
(* A text is a sequence of characters of three kinds: "p" breaks a         *)
(* paragraph, "s" is a space, "x" is anything else; separators of two      *)
(* characters count as one. Two chunks are as good as identical or have    *)
(* nothing in common.                                                      *)
(***************************************************************************)
EXTENDS Naturals, FiniteSets, SequencesExt

CONSTANTS
    ChunkSize, Overlap,     \* chunk_size and overlap of _split_spans
    Limit,                  \* how many results a search asks for
    PoolSize                \* rag_rerank_candidates, among those that fusion keeps

ASSUME RetrievalParameters ==
    /\ ChunkSize \in Nat \ {0} /\ Overlap \in 0..(ChunkSize - 1)
    /\ Limit \in Nat \ {0} /\ PoolSize \in Nat \ {0}

Least(a, b) == IF a < b THEN a ELSE b
Most(a, b) == IF a > b THEN a ELSE b

-----------------------------------------------------------------------------
(* _split_spans. Spans are pairs of offsets, from 0, the end not included. *)

\* text.strip()
Clean(text) ==
    LET solid == {i \in DOMAIN text : text[i] = "x"}
    IN  IF solid = {} THEN <<>>
        ELSE SubSeq(text, CHOOSE i \in solid : \A j \in solid : i <= j,
                          CHOOSE i \in solid : \A j \in solid : i >= j)

\* The end of the span that starts here: after the last separator of the
\* strongest kind in its second half, or else the full size.
SpanEnd(text, start) ==
    LET end == Least(start + ChunkSize, Len(text))
        floor == start + Most(ChunkSize \div 2, Overlap + 1)
        at(kind) == {i \in floor..(end - 1) : text[i + 1] = kind}
        last(S) == CHOOSE i \in S : \A j \in S : j <= i
    IN  IF end = Len(text) THEN end
        ELSE IF at("p") # {} THEN last(at("p")) + 1
        ELSE IF at("s") # {} THEN last(at("s")) + 1
        ELSE end

NextStart(end) == Most(end - Overlap, 0)

SplitSpans(raw) ==
    LET text == Clean(raw)
        from[start \in 0..Len(text)] ==
            LET end == SpanEnd(text, start)
            IN  <<<<start, end>>>> \o IF end = Len(text) THEN <<>> ELSE from[NextStart(end)]
    IN  IF text = <<>> THEN <<>> ELSE from[0]

\* What a span holds.
Content(raw, span) == SubSeq(Clean(raw), span[1] + 1, span[2])

\* The spans leave nothing of the text out and never stand still.
Covers(spans, raw) ==
    /\ spans # <<>> <=> Clean(raw) # <<>>
    /\ spans # <<>> => Head(spans)[1] = 0 /\ Last(spans)[2] = Len(Clean(raw))
    /\ \A i \in DOMAIN spans : spans[i][1] < spans[i][2] /\ spans[i][2] - spans[i][1] <= ChunkSize
    /\ \A i \in 1..(Len(spans) - 1) :
          /\ spans[i + 1][1] = spans[i][2] - Overlap
          /\ spans[i][1] < spans[i + 1][1] /\ spans[i][2] < spans[i + 1][2]

-----------------------------------------------------------------------------
(* _validate_embeddings. A response is the list of the indices its rows    *)
(* bear, from 1; the row of index i has the vector of the i-th text.       *)

ValidResponse(rows, n) == Len(rows) = n /\ Range(rows) = 1..n

AlignedAsSent(rows) == rows

\* Vectors in the order of their index, whatever the order of the rows.
Aligned(rows) == [i \in DOMAIN rows |-> rows[CHOOSE j \in DOMAIN rows : rows[j] = i]]

-----------------------------------------------------------------------------
(* _fuse, _rerank and diverse_indices. A list has items [key, score], best *)
(* first; a key is a pair <<document, chunk>>.                             *)

Keys(list) == {list[i].key : i \in DOMAIN list}

\* Equal scores share the rank of the first.
RankAt(list, p) ==
    CHOOSE q \in 1..p : /\ \A r \in q..p : list[r].score = list[p].score
                        /\ q = 1 \/ list[q - 1].score # list[p].score
RankOf(list, key) == RankAt(list, CHOOSE p \in DOMAIN list : list[p].key = key)

\* 1 / (RRF_K + rank) as a pair <<numerator, denominator>>; nothing for a chunk
\* that the channel has not found. The code adds these up as floats.
Share(list, key) == IF key \in Keys(list) THEN <<1, 60 + RankOf(list, key)>> ELSE <<0, 1>>
Above(p, q) == p[1] * q[2] > q[1] * p[2]

KeyBefore(a, b) == a[1] < b[1] \/ (a[1] = b[1] /\ a[2] < b[2])

Score(vector, keyword, key) ==
    LET v == Share(vector, key) w == Share(keyword, key)
    IN  <<v[1] * w[2] + w[1] * v[2], v[2] * w[2]>>

\* A chunk without a rank in the keyword channel has MAX_CANDIDATES + 1.
Lexical(keyword, key) == IF key \in Keys(keyword) THEN RankOf(keyword, key) ELSE 121

FusedBefore(vector, keyword, a, b) ==
    LET p == Score(vector, keyword, a)
        q == Score(vector, keyword, b)
        equal == ~Above(p, q) /\ ~Above(q, p)
    IN  \/ Above(p, q)
        \/ equal /\ Lexical(keyword, a) < Lexical(keyword, b)
        \/ equal /\ Lexical(keyword, a) = Lexical(keyword, b) /\ KeyBefore(a, b)

\* The elements of a finite set in a strict order: each has a place of its own,
\* behind those that are before it. (SetToSortSeq, but defined for the proofs.)
Ordered(S, before) ==
    [k \in 1..Cardinality(S) |->
        CHOOSE x \in S : Cardinality({y \in S : <<y, x>> \in before}) = k - 1]

Plain(list) == [i \in DOMAIN list |-> list[i].key]

Fuse(vector, keyword) ==
    LET keys == Keys(vector) \cup Keys(keyword)
    IN  IF vector = <<>> THEN Plain(keyword)
        ELSE IF keyword = <<>> THEN Plain(vector)
        ELSE Ordered(keys, {p \in keys \X keys : FusedBefore(vector, keyword, p[1], p[2])})

Pooled(keys) == SubSeq(keys, 1, Least(PoolSize, Len(keys)))

\* A reranker that answers orders the pool anew; any other answer is ignored.
Reranked(pool) ==
    {pool} \cup IF Len(pool) < 2 THEN {}
                ELSE {[i \in DOMAIN pool |-> pool[f[i]]] :
                        f \in {g \in [DOMAIN pool -> DOMAIN pool] : Range(g) = DOMAIN pool}}

OmitsSameText(sameText, sameTitle) == sameText

\* Identical wording is left out only within one section.
Omits(sameText, sameTitle) == sameText /\ sameTitle

\* Keys of the pool are chosen one by one, by relevance less redundancy; text
\* and title give those of each key. A choice is a position in the pool.
Open(pool, text, title, chosen) ==
    {i \in DOMAIN pool \ Range(chosen) :
        \A j \in Range(chosen) :
            ~Omits(text[pool[i]] = text[pool[j]], title[pool[i]] = title[pool[j]])}

Worth(pool, text, chosen, i) ==
    LET redundant == \E j \in Range(chosen) : text[pool[i]] = text[pool[j]]
    IN  7 * (Len(pool) - (i - 1)) + 3 * Len(pool) - IF redundant THEN 3 * Len(pool) ELSE 0

\* The first of those with the greatest worth.
Best(pool, text, title, chosen) ==
    CHOOSE i \in Open(pool, text, title, chosen) :
        \A j \in Open(pool, text, title, chosen) :
            \/ Worth(pool, text, chosen, i) > Worth(pool, text, chosen, j)
            \/ Worth(pool, text, chosen, i) = Worth(pool, text, chosen, j) /\ i <= j

Choose(pool, text, title, chosen) ==
    IF Open(pool, text, title, chosen) = {} THEN chosen
    ELSE Append(chosen, Best(pool, text, title, chosen))

Diverse(pool, text, title) ==
    LET after[n \in 0..Limit] ==
            IF n = 0 THEN <<>> ELSE Choose(pool, text, title, after[n - 1])
    IN  [k \in DOMAIN after[Limit] |-> pool[after[Limit][k]]]
=============================================================================
