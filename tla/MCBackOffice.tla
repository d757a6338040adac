---------------------------- MODULE MCBackOffice ----------------------------
(* A small instance of BackOffice. *)
EXTENDS BackOffice, TLC

CONSTANTS w1, w2, f1, f2, f3, i1, v1, p1, s1, none

OneEach == [Variants -> {1}]
UpToTwo == [Variants -> 1..2]
OneOrNone == [Variants -> 0..1]

Interchangeable == Permutations(Workers) \cup Permutations(RefundIds)
=============================================================================
