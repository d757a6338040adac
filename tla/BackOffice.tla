----------------------------- MODULE BackOffice -----------------------------
(***************************************************************************)
(* The back office of a store: refunds, purchases and service orders,      *)
(* whose requests are served by the same workers, over the same stock.     *)
(***************************************************************************)
EXTENDS Refunds, Purchasing, Services

vars == <<slots, stock, refundVars, purchaseVars, serviceVars>>

Init == SlotsInit /\ StockInit /\ RefundsInit /\ PurchasingInit /\ ServicesInit

Refunding(w)  == req[w].at \in {"refund.lock", "refund.number", "refund.commit", "refund.save"}
Buying(w)    == req[w].at \in {"purchase.old", "purchase.update", "purchase.add", "purchase.save"}

\* A worker dies, or an exception ends its request, between any two statements.
Die(w) ==
  \/ Refunding(w) /\ Crash(w) /\ UNCHANGED <<stock, refundVars, purchaseVars, serviceVars>>
  \/ Buying(w) /\ DiePurchasing(w) /\ UNCHANGED <<refundVars, serviceVars>>
  \/ ~Refunding(w) /\ ~Buying(w) /\ DieServing(w) /\ UNCHANGED <<stock, refundVars, purchaseVars>>

Next ==
  \/ \E w \in Workers :
       \/ RefundSteps(w) /\ UNCHANGED <<purchaseVars, serviceVars>>
       \/ PurchaseSteps(w) /\ UNCHANGED <<refundVars, serviceVars>>
       \/ ServiceSteps(w) /\ UNCHANGED <<stock, refundVars, purchaseVars>>
       \/ Die(w)
  \/ Hour /\ UNCHANGED <<stock, refundVars, purchaseVars>>

Spec == Init /\ [][Next]_vars

TypeOK == StockTypeOK /\ RefundsTypeOK /\ PurchasingTypeOK /\ ServicesTypeOK
=============================================================================
