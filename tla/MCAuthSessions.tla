--------------------------- MODULE MCAuthSessions ---------------------------
(* Instances of AuthSessions for TLC. *)
EXTENDS AuthSessions

CONSTANTS ann, bob, l1, l2, l3, r1, v1

SomeNames == [c \in SignIns |-> IF c \in {l1, l2, l3} THEN ann ELSE bob]
SameRequests == Permutations({l1, l2, l3})
=============================================================================
