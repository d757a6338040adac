------------------------------ MODULE MCSales ------------------------------
(* Small instances of Sales. *)
EXTENDS Sales, TLC

CONSTANTS i1, i2, v1, v2, r1, r2

L(v, q) == [variant |-> v, qty |-> q]

Forth == <<L(v1, 2), L(v2, 1)>>
Back  == <<L(v2, 1), L(v1, 2)>>

\* Two carts that lock the same rows in opposite orders.
OppositeCarts == {Forth, Back}
\* The same variant on two lines.
SplitCarts == {<<L(v1, 1), L(v1, 1)>>}

OppositeStart == (i1 :> Forth) @@ (i2 :> Back)

SplitStart == [i \in Invoices |-> <<L(v1, 1), L(v1, 1)>>]

\* A payment, and one that takes it back.
OneEitherWay == {1, -1}

FewOnHand == [v \in Stocked |-> 3]
OneOnHand == [v \in Stocked |-> 1]
=============================================================================
