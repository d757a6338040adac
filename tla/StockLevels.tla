---------------------------- MODULE StockLevels ----------------------------
(* The stock of one branch, as the documents of the back office see it. *)
EXTENDS Workers, FiniteSetsExt, Functions

CONSTANT Variants

VARIABLE stock   \* StockLevel.quantity of each variant

\* Quantities per variant, as a basket or the lines of a document.
Nothing == [v \in Variants |-> 0]
Units(basket) == MapThenSumSet(LAMBDA v : basket[v], Variants)

StockInit == stock = Nothing

\* The row is locked before it is read, so an addition is never lost.
AddStock(basket) == stock' = [v \in Variants |-> stock[v] + basket[v]]

StockTypeOK == stock \in [Variants -> Int]
=============================================================================
