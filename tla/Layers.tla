------------------------------- MODULE Layers -------------------------------
(***************************************************************************)
(* First-in first-out consumption of cost layers: what                     *)
(* inventory/storage_service.py does with the list of StorageStock rows it *)
(* has locked.  A layer is named by its place in the order of moved_in_at, *)
(* and `left` gives the quantity_remaining of each; 0 stands for a layer   *)
(* that is not there, or emptied and so soft-deleted.                      *)
(***************************************************************************)
EXTENDS Integers

\* Quantity in the layers 0, 1, ... n of `left`, for each n up to last.
UpTo(left, last) ==
  LET sum[n \in 0..last] == IF n = 0 THEN 0 ELSE sum[n-1] + left[n]
  IN  sum

Parked(left, last) == UpTo(left, last)[last]

Least(a, b) == IF a <= b THEN a ELSE b

\* Mutant: the layers are consumed newest first.
LeftNewestFirst(left, last, qty) ==
  [n \in 1..last |->
     left[n] - Least(left[n], Least(qty, IF Parked(left, last) - UpTo(left, last)[n] >= qty
                                         THEN 0
                                         ELSE qty - (Parked(left, last) - UpTo(left, last)[n])))]

\* Mutant: a layer is charged the whole remaining quantity.
LeftUnbounded(left, last, qty) ==
  [n \in 1..last |->
     IF UpTo(left, last)[n-1] >= qty THEN left[n] ELSE left[n] - (qty - UpTo(left, last)[n-1])]

\* What remains in each layer when qty is taken oldest first.
Left(left, last, qty) ==
  [n \in 1..last |->
     IF UpTo(left, last)[n-1] >= qty THEN left[n]
     ELSE left[n] - Least(left[n], qty - UpTo(left, last)[n-1])]

=============================================================================
