----------------------------- MODULE MCPlatform -----------------------------
(* A small instance of Platform. *)
EXTENDS Platform, TLC

CONSTANTS w1, w2, u1, t1, t2, t3, a1, a2, b1, b2, m1, m2, s1, s2, c1, k1, k2, d1, d2, probe, seeded, g1, g2, g3, p1, none

\* A plan that allows one user and one invoice a month, unlimited favourites, a debt of three.
Limits1 == [r \in Resources |-> IF r = "favourites" THEN none ELSE IF r = "credit" THEN 3 ELSE 1]
Sizes1 == [r \in Resources |-> IF r = "credit" THEN {1, 2} ELSE {1}]

Interchangeable == Permutations(Workers)
=============================================================================
