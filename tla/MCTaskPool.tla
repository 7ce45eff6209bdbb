----------------------------- MODULE MCTaskPool -----------------------------
(* Instances of TaskPool for TLC. *)
EXTENDS TaskPool

CONSTANTS a, b, c, d, e, k1, k2, k3

Some == {a, b, c, d, e}
KeyOf == a :> k1 @@ b :> k2 @@ c :> k3 @@ d :> k3 @@ e :> NoKey
PromptOf == [r \in Some |-> IF r = b THEN "q" ELSE "p"]
RestOf == a :> "x" @@ b :> "x" @@ c :> "x" @@ d :> "y" @@ e :> "x"
AttemptsOf == [r \in Some |-> IF r = a THEN 2 ELSE 1]

\* More rows than the pool takes, one of them with a second attempt; a request
\* that finds the pool full; two requests with one key that differ; a request
\* with the key of a row of an earlier release.
SomeScenarios ==
    {[legacy |-> {a, b, c}, sent |-> {}], [legacy |-> {b, c}, sent |-> {e}],
     [legacy |-> {b}, sent |-> {c, d}], [legacy |-> {c}, sent |-> {d}]}
=============================================================================
