---------------------------- MODULE MCKnowledge ----------------------------
(* Instances of Knowledge for TLC. *)
EXTENDS Knowledge

CONSTANTS r1, r2

AllTexts == UNION {[1..n -> {"x", "s", "p"}] : n \in 0..8}
Short == <<"x", "x">>
Long == <<"x", "x", "x", "x", "x", "x", "x", "x", "x">>     \* three chunks
Twice == <<"x", "x", "x", "x", "x", "x", "x">>              \* two chunks with one text

Scenario(texts, stored, uploads, reindexers, m, n) ==
    [texts |-> texts, stored |-> stored, uploads |-> uploads, reindexers |-> reindexers,
     searches |-> m, deletes |-> n]
Same(t) == [d \in Docs |-> t]

\* Any text is added; requests that overlap and a deletion; a search among
\* equal texts; a search while the index changes.
SomeScenarios ==
    {Scenario({Same(t) : t \in AllTexts}, {}, {1}, {}, 0, 0),
     Scenario({Same(Long)}, {1, 3}, {2}, {r1, r2}, 0, 2),
     Scenario({Same(Twice)}, {1, 3}, {}, {}, 1, 0),
     Scenario({Same(Short)}, {1, 3}, {2}, {r1}, 1, 1)}
=============================================================================
