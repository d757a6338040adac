--------------------------- MODULE MCStockBatches ---------------------------
(* A small instance of StockBatches. *)
EXTENDS StockBatches, TLC

CONSTANTS b1, b2, s1, r1, r2

\* A dated lot and a returned, undated one at b1; nothing at b2.
TwoLots == (b1 :> <<1, 1>>) @@ (b2 :> <<0, 0>>)
AtB1 == [i \in Sales |-> b1]
=============================================================================
