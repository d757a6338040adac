------------------------------ MODULE Refunds ------------------------------
(***************************************************************************)
(* Returns of sold goods (RefundInvoice, RefundItem).                     *)
(*                                                                         *)
(* Creating a refund is one transaction: it reads what is still            *)
(* refundable, locks the refunds the store has, takes the next number, and *)
(* inserts.  What it inserts is seen by others when it commits.  Other     *)
(* requests read a row and later save all its columns.                     *)
(*                                                                         *)
(* Amounts are left out: the restocking fee, and the customer's store      *)
(* credit.  So is the order in which the last statements of a refund lock  *)
(* stock rows.                                                             *)
(***************************************************************************)
EXTENDS StockLevels

CONSTANTS
  RefundIds,   \* rows of RefundInvoice
  Invoices,    \* posted sales invoices
  NoInvoice,   \* original_invoice is NULL
  Carts,       \* what the lines of a sale may hold: units of each variant
  TooOld,      \* invoices outside the store's return window
  Baskets      \* what a refund may return: units of each variant

ASSUME RefundsAssumption ==
  /\ IsFiniteSet(RefundIds)
  /\ NoInvoice \notin Invoices
  /\ Carts \subseteq [Variants -> Nat]
  /\ TooOld \subseteq Invoices
  /\ Baskets \subseteq [Variants -> Nat]

VARIABLES
  refunds,   \* the table
  sold,      \* units of a variant on the lines of an invoice
  loose      \* history: invoices with overlapping requests, or a refund moved to them

refundTables == <<refunds, sold>>
refundVars   == <<refundTables, loose>>

Row == [state : {"none", "live", "deleted"}, inv : Invoices \cup {NoInvoice},
        qty : [Variants -> Nat], number : Nat, blind : BOOLEAN]

NoRow == [state |-> "none", inv |-> NoInvoice, qty |-> Nothing,
          number |-> 0, blind |-> FALSE]

\* The store may have a refund already, that was deleted.
RefundsInit ==
  /\ \/ refunds = [i \in RefundIds |-> NoRow]
     \/ \E old \in RefundIds, inv \in Invoices, basket \in Baskets :
          refunds = [i \in RefundIds |->
                       IF i = old THEN [state |-> "deleted", inv |-> inv, qty |-> basket, number |-> 1, blind |-> FALSE]
                       ELSE NoRow]
  /\ sold \in [Invoices -> Carts]
  /\ loose = {}

Rows == {i \in RefundIds : refunds[i].state # "none"}

Refunded(inv, v) ==
  SumFunction([i \in RefundIds |->
                 IF refunds[i].state = "live" /\ refunds[i].inv = inv THEN refunds[i].qty[v] ELSE 0])

\* Mutant: what was refunded already is not taken off.
RefundableIgnoring(inv, basket) ==
  \A v \in Variants : basket[v] > 0 => basket[v] <= sold[inv][v]

\* _validate_against_original: a cap per variant, and nothing that was not sold.
Refundable(inv, basket) ==
  \A v \in Variants : basket[v] > 0 =>
    sold[inv][v] # 0 /\ basket[v] <= sold[inv][v] - Refunded(inv, v)

\* _validate_return_window: a store with no limit, or a return of nothing it sold, has none too old.
InWindow(inv) == inv \notin TooOld

\* Requests in progress about the refunds of an invoice.
About(inv) == {w \in Workers : req[w].at \in {"refund.lock", "refund.number", "refund.commit", "refund.save"}
                                 /\ (req[w].inv = inv \/ req[w].was = inv)}

BeginRefund(w, inv, basket, restock) ==
  /\ inv # NoInvoice => Refundable(inv, basket) /\ InWindow(inv)
  /\ Begin(w, [at |-> "refund.lock", inv |-> inv, was |-> inv, qty |-> basket, restock |-> restock,
               held |-> {}, number |-> 0])
  /\ loose' = IF About(inv) = {} THEN loose ELSE loose \cup {inv}
  /\ UNCHANGED <<stock, refundTables>>

\* Row locks on refunds that requests hold.
Held(W) == UNION {req[w].held : w \in {u \in W : req[u].at \in {"refund.number", "refund.commit"}}}

\* Mutant: the rows are read without FOR UPDATE.
LockNothing(w) ==
  /\ At(w, "refund.lock")
  /\ Proceed(w, [req[w] EXCEPT !.at = "refund.number", !.held = Rows])
  /\ UNCHANGED <<stock, refundVars>>

\* select_for_update on all refunds of the store: the query names the rows it finds when it starts.
LockRefunds(w) ==
  /\ At(w, "refund.lock")
  /\ Held(Others(w)) \cap Rows = {}
  /\ Proceed(w, [req[w] EXCEPT !.at = "refund.number", !.held = Rows])
  /\ UNCHANGED <<stock, refundVars>>

\* Max('refund_number') + 1, over what is committed.
TakeNumber(w) ==
  /\ At(w, "refund.number")
  /\ Proceed(w, [req[w] EXCEPT !.at = "refund.commit",
                               !.number = 1 + Max({refunds[i].number : i \in RefundIds})])
  /\ UNCHANGED <<stock, refundVars>>

\* The lines, their stock, the fee and the customer's wallet are in the transaction.
CommitRefund(w) ==
  LET job == req[w] IN
  /\ At(w, "refund.commit")
  /\ \E i \in RefundIds \ Rows :
       refunds' = [refunds EXCEPT ![i] = [state |-> "live", inv |-> job.inv, qty |-> job.qty,
                                          number |-> job.number, blind |-> job.held = {}]]
  /\ AddStock(IF job.restock THEN job.qty ELSE Nothing)
  /\ Answer(w)
  /\ UNCHANGED <<sold, loose>>

\* PATCH (which may change original_invoice and checks nothing) and DELETE: read, then save.
ReadRefund(w, i) ==
  /\ refunds[i].state = "live"
  /\ \E copy \in {[refunds[i] EXCEPT !.inv = inv] : inv \in Invoices \cup {NoInvoice}} \cup {[refunds[i] EXCEPT !.state = "deleted"]} :
       /\ Begin(w, [at |-> "refund.save", row |-> i, copy |-> copy, inv |-> copy.inv, was |-> refunds[i].inv])
       /\ loose' = loose \cup {inv \in {copy.inv, refunds[i].inv} : About(inv) # {} \/ copy.inv # refunds[i].inv}
  /\ UNCHANGED <<stock, refundTables>>

\* The trash of the platform gives a refund back without asking what was refunded since.
RestoreRefund(w, i) ==
  /\ refunds[i].state = "deleted"
  /\ LET copy == [refunds[i] EXCEPT !.state = "live"] IN
     Begin(w, [at |-> "refund.save", row |-> i, copy |-> copy, inv |-> copy.inv, was |-> copy.inv])
  /\ loose' = loose \cup {refunds[i].inv}
  /\ UNCHANGED <<stock, refundTables>>

SaveRefund(w) ==
  /\ At(w, "refund.save")
  /\ req[w].row \notin Held(Others(w))
  /\ refunds' = [refunds EXCEPT ![req[w].row] = req[w].copy]
  /\ Answer(w)
  /\ UNCHANGED <<stock, sold, loose>>

\* PATCH of a sale, POSTED as it is: its lines are deleted and written anew in one transaction,
\* and nothing asks what was refunded of the old ones.
EditSale(w, inv, cart) ==
  /\ AtOnce(w)
  /\ sold' = [sold EXCEPT ![inv] = cart]
  /\ loose' = IF About(inv) = {} THEN loose ELSE loose \cup {inv}
  /\ UNCHANGED <<stock, refunds>>

RefundSteps(w) ==
  \/ \E inv \in Invoices \cup {NoInvoice}, b \in Baskets, restock \in BOOLEAN :
       BeginRefund(w, inv, b, restock)
  \/ LockRefunds(w) \/ TakeNumber(w) \/ CommitRefund(w)
  \/ \E i \in RefundIds : ReadRefund(w, i) \/ RestoreRefund(w, i)
  \/ SaveRefund(w)
  \/ \E inv \in Invoices, cart \in Carts : EditSale(w, inv, cart)

RefundsTypeOK ==
  /\ refunds \in [RefundIds -> Row]
  /\ sold \in [Invoices -> Carts]
  /\ loose \subseteq Invoices \cup {NoInvoice}

\* Two refunds carry the same number only if one of them found no refund of the store to lock:
\* as soon as the store has one, its row makes RefundInvoice.save take turns.
RefundNumbersClashWhenBlind ==
  \A i, j \in Rows : i # j /\ refunds[i].number = refunds[j].number =>
    refunds[i].blind \/ refunds[j].blind

\* No step takes what is refunded of an invoice above what is on its lines now, whatever was
\* deleted or replaced before.  Shrinking the lines of a sale may leave less than was refunded, but
\* then nothing more is.  The cap is checked without a lock, so this is about invoices whose requests
\* never overlapped, and to which no refund was moved or given back by the trash.
RefundedWithinSale ==
  [][\A inv \in Invoices, v \in Variants :
       inv \in loose' \/ Refunded(inv, v)' <= Refunded(inv, v) \/ Refunded(inv, v)' <= sold'[inv][v]]_refundVars
=============================================================================
