----------------------------- MODULE Purchasing -----------------------------
(***************************************************************************)
(* Purchases from suppliers (PurchaseInvoice, PurchaseItem), what receiving*)
(* them adds to stock, and what the store owes.                            *)
(*                                                                         *)
(* Creating and editing are transactions; receiving and deleting are not:  *)
(* there the stock a pre_save receiver adds commits before the row that    *)
(* says RECEIVED is written.  Every save writes all columns of a row read  *)
(* earlier, and the lines a request moves are those prefetched with it.    *)
(*                                                                         *)
(* One supplier.  A line costs one per unit.  A line for a product that    *)
(* does not exist yet is staged until the purchase has a supplier; what    *)
(* the product is called is in Catalogue.  A typed purchase number is 0    *)
(* like a blank one, for only the counted ones are compared.               *)
(***************************************************************************)
EXTENDS StockLevels

CONSTANTS
  Purchases,   \* rows of PurchaseInvoice
  Orders       \* what the lines of a purchase may be: units of each variant

ASSUME PurchasingAssumption == IsFiniteSet(Purchases) /\ Orders \subseteq [Variants -> Nat]

VARIABLES
  purchases,   \* the table, with draft_items
  lines,       \* PurchaseItem: units of each variant
  counted,     \* PurchaseSequence.last_number
  paid,        \* SupplierPayment: the sum
  added,       \* history: times each purchase was added to stock
  brought,     \* history: the goods last added to stock for each purchase
  late,        \* history: purchases with staged lines that became real when it was received, or after
  jostled      \* history: purchases with overlapping requests, one that died, or status set by hand

purchaseTables  == <<purchases, lines, counted, paid>>
receipts        == <<added, brought, late>>
purchaseHistory == <<receipts, jostled>>
purchaseVars    == <<purchaseTables, purchaseHistory>>

PurchaseStatus == {"DRAFT", "RECEIVED"}
Purchase == [state : {"none", "live", "deleted"}, status : PurchaseStatus, supplier : BOOLEAN,
             number : Nat, total : Nat, staged : [Variants -> Nat]]

NoPurchase == [state |-> "none", status |-> "DRAFT", supplier |-> FALSE, number |-> 0,
               total |-> 0, staged |-> Nothing]

PurchasingInit ==
  /\ purchases = [p \in Purchases |-> NoPurchase]
  /\ lines = [p \in Purchases |-> Nothing]
  /\ counted = 0
  /\ paid = 0
  /\ added = [p \in Purchases |-> 0]
  /\ brought = [p \in Purchases |-> Nothing]
  /\ late = {}
  /\ jostled = {}

\* PurchaseInvoice.save: the next number of the supplier, once there is one.
NeedsNumber(copy) == copy.supplier /\ copy.number = 0
Numbered(copy) == IF NeedsNumber(copy) THEN [copy EXCEPT !.number = counted + 1] ELSE copy
CountOn(copy) == counted' = IF NeedsNumber(copy) THEN counted + 1 ELSE counted

\* Mutant: the total is not recomputed when lines replace others.
TotalledOnce(copy, goods) == IF copy.total # 0 THEN copy ELSE [copy EXCEPT !.total = Units(goods)]

\* PurchaseItem.save writes the sum of the lines on the invoice; without lines nothing does.
Totalled(copy, goods) == IF goods = Nothing THEN copy ELSE [copy EXCEPT !.total = Units(goods)]

\* _apply_lines, for lines of existing products and of new ones: those need a supplier.
Kept(copy, existing, new) == IF copy.supplier THEN [v \in Variants |-> existing[v] + new[v]] ELSE existing
Applied(copy, existing, new) ==
  [Totalled(copy, Kept(copy, existing, new)) EXCEPT !.staged = IF copy.supplier THEN Nothing ELSE new]

\* Created with whatever status was sent: an insert is never seen as DRAFT becoming RECEIVED.
CreatePurchase(w, p) ==
  /\ purchases[p].state = "none"
  /\ AtOnce(w)
  /\ \E supplier \in BOOLEAN, status \in PurchaseStatus, existing, new \in Orders :
       LET copy == [NoPurchase EXCEPT !.state = "live", !.status = status, !.supplier = supplier] IN
       /\ purchases' = [purchases EXCEPT ![p] = Applied(Numbered(copy), existing, new)]
       /\ lines' = [lines EXCEPT ![p] = Kept(copy, existing, new)]
       /\ CountOn(copy)
       /\ jostled' = IF status = "RECEIVED" THEN jostled \cup {p} ELSE jostled
  /\ UNCHANGED <<stock, paid, receipts>>

OnPurchase(p) == {w \in Workers : req[w].at \in {"purchase.old", "purchase.update", "purchase.add", "purchase.save"}
                                    /\ req[w].row = p}

\* get_object, with the lines prefetched, and the change the request makes to its copy.
ReadPurchase(w, p, copy, how) ==
  /\ purchases[p].state = IF how = "restore" THEN "deleted" ELSE "live"
  /\ Begin(w, [at |-> "purchase.old", row |-> p, copy |-> copy, goods |-> lines[p], how |-> how,
               had |-> purchases[p].supplier])
  /\ jostled' = IF OnPurchase(p) = {} THEN jostled ELSE jostled \cup {p}
  /\ UNCHANGED <<stock, purchaseTables, receipts>>

Receive(w, p) ==
  /\ purchases[p].status = "DRAFT"
  /\ purchases[p].supplier
  /\ ReadPurchase(w, p, [purchases[p] EXCEPT !.status = "RECEIVED"], "receive")

DeletePurchase(w, p) == ReadPurchase(w, p, [purchases[p] EXCEPT !.state = "deleted"], "delete")

\* The trash of the platform; the stock has not moved and does not.
RestorePurchase(w, p) == ReadPurchase(w, p, [purchases[p] EXCEPT !.state = "live"], "restore")

\* PATCH of status, supplier or neither, with or without new lines.
PatchPurchase(w, p) ==
  \E status \in PurchaseStatus, supplier \in BOOLEAN :
    ReadPurchase(w, p, [purchases[p] EXCEPT !.status = status, !.supplier = supplier], "patch")

\* A PATCH keeps the PurchaseSequence row locked from its first save to its commit.
SequenceHeld == \E w \in Workers : At(w, "purchase.update") /\ NeedsNumber(req[w].copy)

\* Mutant: the committed row is not compared.
MovesAlways(old, copy) == copy.status = "RECEIVED"

Moves(old, copy) == old.state = "live" /\ old.status = "DRAFT" /\ copy.status = "RECEIVED"

\* handle_purchase_stock reads the committed row, or finds it deleted, before any lock; a
\* number is taken before that, and one taken by a request that is no PATCH stays taken.
CompareOld(w) ==
  LET job == req[w]
      old == purchases[job.row]
      copy == Numbered(job.copy)
      moves == Moves(old, copy)
  IN
  /\ At(w, "purchase.old")
  /\ NeedsNumber(job.copy) => ~SequenceHeld
  /\ Proceed(w, [at |-> IF job.how = "patch" THEN "purchase.update"
                        ELSE IF moves THEN "purchase.add" ELSE "purchase.save",
                 row |-> job.row, goods |-> job.goods, had |-> job.had, moves |-> moves,
                 copy |-> IF job.how = "patch" THEN job.copy ELSE copy])
  /\ IF job.how = "patch" THEN UNCHANGED counted ELSE CountOn(job.copy)
  /\ UNCHANGED <<stock, purchases, lines, paid, purchaseHistory>>

\* Receiving: the stock first, in a transaction of its own, and then the row.
AddGoods(w) ==
  /\ At(w, "purchase.add")
  /\ AddStock(req[w].goods)
  /\ added' = [added EXCEPT ![req[w].row] = @ + 1]
  /\ brought' = [brought EXCEPT ![req[w].row] = req[w].goods]
  /\ Proceed(w, [req[w] EXCEPT !.at = "purchase.save"])
  /\ UNCHANGED <<purchaseTables, late, jostled>>

SavePurchase(w) ==
  /\ At(w, "purchase.save")
  /\ purchases' = [purchases EXCEPT ![req[w].row] = req[w].copy]
  /\ Answer(w)
  /\ UNCHANGED <<stock, lines, counted, paid, purchaseHistory>>

\* The transaction of PATCH: stock, row, and lines, all or none.  The stock is given the lines
\* prefetched with the row, not those the request then makes.
CommitPatch(w, goods, copy) ==
  LET job == req[w] IN
  /\ At(w, "purchase.update")
  /\ purchases' = [purchases EXCEPT ![job.row] = copy]
  /\ lines' = [lines EXCEPT ![job.row] = goods]
  /\ CountOn(job.copy)
  /\ AddStock(IF job.moves THEN job.goods ELSE Nothing)
  /\ added' = IF job.moves THEN [added EXCEPT ![job.row] = @ + 1] ELSE added
  /\ brought' = IF job.moves THEN [brought EXCEPT ![job.row] = job.goods] ELSE brought
  /\ late' = IF copy.status = "RECEIVED" /\ goods # lines[job.row] THEN late \cup {job.row} ELSE late
  /\ jostled' = IF purchases[job.row].status = "RECEIVED" /\ copy.status = "DRAFT"
                THEN jostled \cup {job.row} ELSE jostled
  /\ Answer(w)
  /\ UNCHANGED paid

\* A received purchase refuses new lines: ValidationError, and everything is rolled back.
ReplaceLines(w, existing, new) ==
  LET copy == Numbered(req[w].copy) IN
  /\ At(w, "purchase.update")
  /\ copy.status # "RECEIVED"
  /\ CommitPatch(w, Kept(copy, existing, new), Applied(copy, existing, new))

RefuseLines(w) ==
  /\ At(w, "purchase.update")
  /\ req[w].copy.status = "RECEIVED"
  /\ Answer(w)
  /\ UNCHANGED <<stock, purchaseVars>>

\* No lines sent.  With the first supplier the staged lines become real ones.
KeepLines(w) ==
  LET job == req[w]
      copy == Numbered(job.copy)
      goods == [v \in Variants |-> lines[job.row][v] + copy.staged[v]]
  IN
  /\ At(w, "purchase.update")
  /\ IF ~job.had /\ copy.supplier /\ copy.staged # Nothing
     THEN CommitPatch(w, goods, [Totalled(copy, goods) EXCEPT !.staged = Nothing])
     ELSE CommitPatch(w, lines[job.row], copy)

PaySupplier(w) ==
  /\ AtOnce(w)
  /\ paid' = paid + 1
  /\ UNCHANGED <<stock, purchases, lines, counted, purchaseHistory>>

\* A request that dies between the stock and the row leaves goods received by a draft.
DiePurchasing(w) ==
  /\ Crash(w)
  /\ jostled' = IF At(w, "purchase.save") THEN jostled \cup {req[w].row} ELSE jostled
  /\ UNCHANGED <<stock, purchaseTables, receipts>>

PurchaseSteps(w) ==
  \/ \E p \in Purchases :
       CreatePurchase(w, p) \/ Receive(w, p) \/ PatchPurchase(w, p)
       \/ DeletePurchase(w, p) \/ RestorePurchase(w, p)
  \/ CompareOld(w) \/ AddGoods(w) \/ SavePurchase(w)
  \/ \E existing, new \in Orders : ReplaceLines(w, existing, new)
  \/ RefuseLines(w) \/ KeepLines(w) \/ PaySupplier(w)

PurchasingTypeOK ==
  /\ purchases \in [Purchases -> Purchase]
  /\ lines \in [Purchases -> [Variants -> Nat]]
  /\ counted \in Nat /\ paid \in Nat
  /\ \A p \in Purchases : purchases[p].number <= counted
  /\ added \in [Purchases -> Nat] /\ brought \in [Purchases -> [Variants -> Nat]]
  /\ late \subseteq Purchases
  /\ jostled \subseteq Purchases

\* Without overlapping requests, a death in between or a status set by hand, goods are added to
\* stock once, by the request that makes the purchase RECEIVED, and they are those of its lines then
\* and ever after: a received purchase refuses other lines.  The one way past that is to give the
\* first supplier to a purchase with staged lines in the request that receives it, or later: they
\* become lines whose goods no stock has.
ReceivedOnce ==
  \A p \in Purchases \ jostled :
    /\ added[p] <= 1
    /\ OnPurchase(p) = {} => (added[p] = 1 <=> purchases[p].status = "RECEIVED")
    /\ added[p] = 1 => p \in late \/ lines[p] = brought[p]

\* What a supplier is owed for a purchase is the cost of its lines, however the lines were
\* replaced, staged and materialised; except that replacing them by none keeps the old total.
OwedForLines ==
  \A p \in Purchases \ jostled :
    OnPurchase(p) = {} /\ lines[p] # Nothing => purchases[p].total = Units(lines[p])
=============================================================================
