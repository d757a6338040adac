----------------------------- MODULE MCStorage -----------------------------
(* A small instance of Storage. *)
EXTENDS Storage, TLC

CONSTANTS b1, b2, r1, r2

\* One branch oversold while the store still allowed it.
FewOnHand == (b1 :> 3) @@ (b2 :> -1)
Losses == {-1}
=============================================================================
