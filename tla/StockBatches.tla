---------------------------- MODULE StockBatches ----------------------------
(***************************************************************************)
(* Stock of an expiry-tracked variant: the cached total of each branch     *)
(* (StockLevel.quantity) and the dated batches (StockBatch) that are meant *)
(* to add up to it (inventory/models.py, finance/models.py,                *)
(* inventory/serializers.py).                                              *)
(*                                                                         *)
(* Every operation but two locks the StockLevel row before its first read  *)
(* and keeps it to its commit, so it is one step here, taken when the row  *)
(* is free.  The two are the void view, which commits the movement before  *)
(* the status, and the transfer, which reads the destination row without   *)
(* locking it.  How requests race for the status itself is module Sales;   *)
(* here checkout and PATCH take the invoice row as they find it.  A        *)
(* request that is refused changes nothing and is not a step.              *)
(*                                                                         *)
(* Left out: costs, and the expired-stock and stock policies of checkout,  *)
(* which can only refuse (a manager's PATCH posts without them).           *)
(***************************************************************************)
EXTENDS Layers, FiniteSets, Functions

CONSTANTS
  Branches,
  LastLot,        \* a branch's lots, 1..LastLot: by expiry date, then received_date
  Opening,        \* quantity in each lot of each branch at the start
  Sales,          \* invoices, each with one line of the variant
  Home,           \* the branch of each
  Quantities,     \* base units on a line, received, refunded, adjusted, transferred
  AllowNegative,  \* StoreSettings.allow_negative_stock
  Requests,
  Nobody,
  MaxOps          \* bound: operations begun in a behaviour

Lot == 1..LastLot

\* The lot of expiry_date None, which FEFO takes last.
Undated == LastLot

ASSUME BatchConstants ==
  /\ IsFiniteSet(Sales)
  /\ LastLot \in Nat \ {0}
  /\ Opening \in [Branches -> [Lot -> Nat]]
  /\ Home \in [Sales -> Branches]
  /\ Quantities \subseteq Nat \ {0}
  /\ AllowNegative \in BOOLEAN
  /\ Nobody \notin Requests
  /\ MaxOps \in Nat

VARIABLES
  level,      \* StockLevel.quantity of each branch
  batch,      \* StockBatch.quantity_remaining of each lot of each branch
  tracked,    \* StoreSettings.expiry_tracking_enabled
  invoice,    \* status, quantity and edition of the line, per sale
  consumed,   \* SaleBatchConsumption of the line: what it drew from each lot
  lock,       \* holder of each StockLevel row lock
  job,        \* the request in progress in each slot
  served,
  uncovered,  \* history: what was taken from each branch that no batch covered
  out,        \* history: what posting took for each sale and no void put back
  lots,       \* history: net of all entries into and exits from each lot, sales apart
  strayed     \* history: branches where total and batches were moved apart

stockVars == <<level, batch>>
saleVars  == <<invoice, consumed>>
history   == <<uncovered, out, lots, strayed>>
vars      == <<stockVars, tracked, saleVars, lock, job, served, history>>

Status  == {"ABSENT", "DRAFT", "POSTED", "VOID"}
Invoice == [status : Status, qty : Quantities \cup {0}, edition : Nat]
NoSale  == [status |-> "ABSENT", qty |-> 0, edition |-> 0]

Idle   == [op |-> "none"]
Void   == [op : {"void"}, at : {"old", "move", "write"}, sale : Sales, qty : Quantities, edition : Nat]
Moving == [op : {"transfer"}, from : Branches, to : Branches, qty : Quantities, seen : Int]

Empty == [n \in Lot |-> 0]
Total(b) == Parked(batch[b], LastLot)

Init ==
  /\ batch = Opening
  /\ level = [b \in Branches |-> Parked(Opening[b], LastLot)]
  /\ tracked = TRUE
  /\ invoice = [i \in Sales |-> NoSale]
  /\ consumed = [i \in Sales |-> Empty]
  /\ lock = [b \in Branches |-> Nobody]
  /\ job = [r \in Requests |-> Idle]
  /\ served = 0
  /\ uncovered = [b \in Branches |-> 0]
  /\ out = [i \in Sales |-> 0]
  /\ lots = Opening
  /\ strayed = {}

Served == served < MaxOps /\ served' = served + 1

----------------------------------------------------------------------------
(* draw_from_batches and restock_to_batch, on the lots of a branch *)

\* Mutant: the undated lot is drawn first.
DrawnUndatedFirst(b, qty) ==
  LET rest == qty - Least(qty, batch[b][Undated])
      dated == Left([batch[b] EXCEPT ![Undated] = 0], LastLot, rest)
  IN  [dated EXCEPT ![Undated] = batch[b][Undated] - (qty - rest)]

\* The lots after a draw: earliest expiry first, and no more than there is.
Drawn(b, qty) == Left(batch[b], LastLot, qty)

\* Both the total and a batch: receiving, refunding, counting up.
Enter(b, n, qty) ==
  /\ level' = [level EXCEPT ![b] = @ + qty]
  /\ IF tracked
       THEN /\ batch' = [batch EXCEPT ![b][n] = @ + qty]
            /\ lots' = [lots EXCEPT ![b][n] = @ + qty]
       ELSE UNCHANGED <<batch, lots>>
  /\ strayed' = IF tracked THEN strayed ELSE strayed \cup {b}

----------------------------------------------------------------------------
(* Sales *)

\* A draft, or the legacy direct post, which moves no stock.
Create(i, s, qty) ==
  /\ Served
  /\ invoice[i].status = "ABSENT"
  /\ invoice' = [invoice EXCEPT ![i] = [status |-> s, qty |-> qty, edition |-> 0]]
  /\ UNCHANGED <<stockVars, tracked, consumed, lock, job, history>>

\* handle_sale_stock, DRAFT to POSTED.
TakeOut(i) ==
  LET b == Home[i]
      qty == invoice[i].qty
      drawn == [n \in Lot |-> batch[b][n] - Drawn(b, qty)[n]]
  IN
  /\ level' = [level EXCEPT ![b] = @ - qty]
  /\ out' = [out EXCEPT ![i] = @ + qty]
  /\ UNCHANGED lots
  /\ IF tracked
       THEN /\ batch' = [batch EXCEPT ![b] = Drawn(b, qty)]
            /\ consumed' = [consumed EXCEPT ![i] = [n \in Lot |-> @[n] + drawn[n]]]
            /\ uncovered' = [uncovered EXCEPT ![b] = @ + qty - Parked(drawn, LastLot)]
            /\ UNCHANGED strayed
       ELSE /\ strayed' = strayed \cup {b}
            /\ UNCHANGED <<batch, consumed, uncovered>>

\* Mutant: the records of the draws are kept after they are put back.
PutBackKept(i, qty, edition) ==
  LET b == Home[i] IN
  /\ level' = [level EXCEPT ![b] = @ + qty]
  /\ out' = [out EXCEPT ![i] = 0]
  /\ UNCHANGED <<lots, consumed>>
  /\ batch' = [batch EXCEPT ![b] = [n \in Lot |-> @[n] + consumed[i][n]]]
  /\ uncovered' = [uncovered EXCEPT ![b] = @ - (qty - Parked(consumed[i], LastLot))]
  /\ strayed' = IF qty = out[i] THEN strayed ELSE strayed \cup {b}

\* handle_sale_stock, POSTED to VOID, on a line read as (qty, edition) earlier. The records
\* of the draws are read under the lock: they are gone if the line was replaced, or if
\* another void put them back.
PutBack(i, qty, edition) ==
  LET b == Home[i]
      back == IF tracked /\ edition = invoice[i].edition THEN consumed[i] ELSE Empty
  IN
  /\ level' = [level EXCEPT ![b] = @ + qty]
  /\ out' = [out EXCEPT ![i] = 0]
  /\ UNCHANGED lots
  /\ batch' = [batch EXCEPT ![b] = [n \in Lot |-> @[n] + back[n]]]
  /\ consumed' = [consumed EXCEPT ![i] = [n \in Lot |-> @[n] - back[n]]]
  /\ uncovered' = [uncovered EXCEPT ![b] = @ - (qty - Parked(back, LastLot))]
  /\ strayed' = IF tracked /\ qty = out[i] /\ edition = invoice[i].edition
                THEN strayed ELSE strayed \cup {b}

\* checkout, or a PATCH of the status, which is any status.
Save(i, s) ==
  /\ Served
  /\ invoice[i].status # "ABSENT"
  /\ lock[Home[i]] = Nobody
  /\ CASE invoice[i].status = "DRAFT" /\ s = "POSTED" -> TakeOut(i)
       [] invoice[i].status = "POSTED" /\ s = "VOID" -> PutBack(i, invoice[i].qty, invoice[i].edition)
       [] OTHER -> UNCHANGED <<stockVars, consumed, history>>
  /\ invoice' = [invoice EXCEPT ![i].status = s]
  /\ UNCHANGED <<tracked, lock, job>>

\* A PATCH that replaces the line, whatever the status: the row goes, and with it
\* (on_delete=CASCADE) the records of its draws.
Edit(i, qty) ==
  /\ Served
  /\ invoice[i].status # "ABSENT"
  /\ invoice' = [invoice EXCEPT ![i].qty = qty, ![i].edition = @ + 1]
  /\ consumed' = [consumed EXCEPT ![i] = Empty]
  /\ lots' = [lots EXCEPT ![Home[i]] = [n \in Lot |-> @[n] - consumed[i][n]]]
  /\ strayed' = IF consumed[i] = Empty THEN strayed ELSE strayed \cup {Home[i]}
  /\ UNCHANGED <<stockVars, tracked, lock, job, uncovered, out>>

BeginVoid(r, i) ==
  /\ Served
  /\ job[r] = Idle
  /\ invoice[i].status \in {"DRAFT", "POSTED"}
  /\ job' = [job EXCEPT ![r] = [op |-> "void", at |-> "old", sale |-> i,
                                 qty |-> invoice[i].qty, edition |-> invoice[i].edition]]
  /\ UNCHANGED <<stockVars, tracked, saleVars, lock, history>>

At(r, where) == job[r].op = "void" /\ job[r].at = where

\* The receiver compares with the row as it is now.
ReadOld(r) ==
  /\ At(r, "old")
  /\ job' = [job EXCEPT ![r].at = IF invoice[job[r].sale].status = "POSTED" THEN "move" ELSE "write"]
  /\ UNCHANGED <<stockVars, tracked, saleVars, lock, served, history>>

Move(r) ==
  /\ At(r, "move")
  /\ lock[Home[job[r].sale]] = Nobody
  /\ PutBack(job[r].sale, job[r].qty, job[r].edition)
  /\ job' = [job EXCEPT ![r].at = "write"]
  /\ UNCHANGED <<tracked, invoice, lock, served>>

WriteVoid(r) ==
  /\ At(r, "write")
  /\ invoice' = [invoice EXCEPT ![job[r].sale].status = "VOID"]
  /\ job' = [job EXCEPT ![r] = Idle]
  /\ UNCHANGED <<stockVars, tracked, consumed, lock, served, history>>

----------------------------------------------------------------------------
(* Purchases, refunds, adjustments *)

\* handle_purchase_stock, one line; a positive StockAdjustment does the same.
Receive(b, n, qty) ==
  /\ Served
  /\ lock[b] = Nobody
  /\ Enter(b, n, qty)
  /\ UNCHANGED <<tracked, saleVars, lock, job, uncovered, out>>

\* Mutant: a refund puts the goods in the total only.
RefundTotalOnly(b, qty) ==
  /\ Served
  /\ lock[b] = Nobody
  /\ level' = [level EXCEPT ![b] = @ + qty]
  /\ UNCHANGED <<batch, tracked, saleVars, lock, job, history>>

\* RefundItem.save: where the goods came from is not known.
Refund(b, qty) ==
  /\ Served
  /\ lock[b] = Nobody
  /\ Enter(b, Undated, qty)
  /\ UNCHANGED <<tracked, saleVars, lock, job, uncovered, out>>

\* A negative StockAdjustment.
CountDown(b, qty) ==
  LET drawn == [n \in Lot |-> batch[b][n] - Drawn(b, qty)[n]] IN
  /\ Served
  /\ lock[b] = Nobody
  /\ level[b] >= qty \/ AllowNegative
  /\ level' = [level EXCEPT ![b] = @ - qty]
  /\ IF tracked
       THEN /\ batch' = [batch EXCEPT ![b] = Drawn(b, qty)]
            /\ lots' = [lots EXCEPT ![b] = [n \in Lot |-> @[n] - drawn[n]]]
            /\ uncovered' = [uncovered EXCEPT ![b] = @ + qty - Parked(drawn, LastLot)]
            /\ UNCHANGED strayed
       ELSE /\ strayed' = strayed \cup {b}
            /\ UNCHANGED <<batch, lots, uncovered>>
  /\ UNCHANGED <<tracked, saleVars, lock, job, out>>

\* The owner turns expiry tracking off or on; no batch is made or dropped.
Switch ==
  /\ Served
  /\ tracked' = ~tracked
  /\ UNCHANGED <<stockVars, saleVars, lock, job, history>>

----------------------------------------------------------------------------
(* StockTransferSerializer.create, one line *)

\* The source row is locked and the destination row only read. Batches are not looked at.
TransferOut(r, from, to, qty) ==
  /\ Served
  /\ job[r] = Idle
  /\ from # to
  /\ lock[from] = Nobody
  /\ level[from] >= qty
  /\ lock' = [lock EXCEPT ![from] = r]
  /\ job' = [job EXCEPT ![r] = [op |-> "transfer", from |-> from, to |-> to, qty |-> qty,
                                 seen |-> level[to]]]
  /\ UNCHANGED <<stockVars, tracked, saleVars, history>>

Unlocked(r) ==
  /\ lock' = [b \in Branches |-> IF lock[b] = r THEN Nobody ELSE lock[b]]
  /\ job' = [job EXCEPT ![r] = Idle]

\* Mutant: the source row stays locked.
TransferInHolding(r) ==
  /\ job[r].op = "transfer"
  /\ lock[job[r].to] = Nobody
  /\ level' = [level EXCEPT ![job[r].from] = @ - job[r].qty, ![job[r].to] = job[r].seen + job[r].qty]
  /\ strayed' = strayed \cup {job[r].from, job[r].to}
  /\ job' = [job EXCEPT ![r] = Idle]
  /\ UNCHANGED <<batch, tracked, saleVars, lock, served, uncovered, out, lots>>

\* The UPDATE of the destination waits for the row, and writes what was read before.
TransferIn(r) ==
  /\ job[r].op = "transfer"
  /\ lock[job[r].to] = Nobody
  /\ level' = [level EXCEPT ![job[r].from] = @ - job[r].qty, ![job[r].to] = job[r].seen + job[r].qty]
  /\ strayed' = strayed \cup {job[r].from, job[r].to}
  /\ Unlocked(r)
  /\ UNCHANGED <<batch, tracked, saleVars, served, uncovered, out, lots>>

\* Two transfers in opposite directions wait for each other until PostgreSQL cancels one.
Deadlocked(r) ==
  /\ job[r].op = "transfer"
  /\ \E q \in Requests \ {r} :
       job[q].op = "transfer" /\ lock[job[r].to] = q /\ lock[job[q].to] = r

Cancelled(r) == Unlocked(r) /\ UNCHANGED <<stockVars, tracked, saleVars, served, history>>

BreakDeadlock(r) == Deadlocked(r) /\ Cancelled(r)

\* Any request may die where it stands.
Fail(r) == job[r] # Idle /\ Cancelled(r)

----------------------------------------------------------------------------

Begins(r) ==
  \/ \E i \in Sales : BeginVoid(r, i)
  \/ \E from, to \in Branches, qty \in Quantities : TransferOut(r, from, to, qty)

Step(r) == ReadOld(r) \/ Move(r) \/ WriteVoid(r) \/ TransferIn(r) \/ BreakDeadlock(r)

AtOnce ==
  \/ \E i \in Sales, s \in {"DRAFT", "POSTED"}, qty \in Quantities : Create(i, s, qty)
  \/ \E i \in Sales, s \in {"DRAFT", "POSTED", "VOID"} : Save(i, s)
  \/ \E i \in Sales, qty \in Quantities : Edit(i, qty)
  \/ \E b \in Branches, n \in Lot, qty \in Quantities : Receive(b, n, qty)
  \/ \E b \in Branches, qty \in Quantities : CountDown(b, qty)
  \/ \E b \in Branches, qty \in Quantities : Refund(b, qty)
  \/ Switch

Next == AtOnce \/ \E r \in Requests : Begins(r) \/ Step(r) \/ Fail(r)

Spec == Init /\ [][Next]_vars

\* Workers and the lock queues are fair to the requests in progress.
FairSpec == Spec /\ \A r \in Requests : WF_vars(Step(r))

----------------------------------------------------------------------------

TypeOK ==
  /\ level \in [Branches -> Int]
  /\ batch \in [Branches -> [Lot -> Nat]]
  /\ tracked \in BOOLEAN
  /\ invoice \in [Sales -> Invoice]
  /\ consumed \in [Sales -> [Lot -> Nat]]
  /\ lock \in [Branches -> Requests \cup {Nobody}]
  /\ \A r \in Requests : job[r] \in {Idle} \cup Void \cup Moving
  /\ served \in 0..MaxOps
  /\ uncovered \in [Branches -> Int]
  /\ out \in [Sales -> Nat]
  /\ lots \in [Branches -> [Lot -> Nat]]
  /\ strayed \subseteq Branches

\* The batches of a branch add up to its total and what was sold beyond them, whatever
\* is sold, voided, received, refunded and counted, as long as nothing moved the one
\* without the other: a transfer, a sale voided twice, never deducted or edited after it
\* was posted, or anything done while tracking was off.
InStep == \A b \in Branches \ strayed : level[b] + uncovered[b] = Total(b)

\* A lot holds what entered it less what left it: a void puts back exactly what the sale
\* drew, and only once, however many voids race and whatever became of the invoice.
LotsAccounted ==
  \A b \in Branches, n \in Lot :
    batch[b][n] + SumFunction([i \in Sales |-> IF Home[i] = b THEN consumed[i][n] ELSE 0])
      = lots[b][n]

\* Nothing leaves a lot while an earlier one of the branch has anything left.
EarliestDrawn ==
  \A b \in Branches, m, n \in Lot :
    m < n /\ batch'[b][n] < batch[b][n] => batch'[b][m] = 0
FirstExpiredFirstOut == [][EarliestDrawn]_vars

\* Opposite transfers and voids all end.
EveryRequestEnds == \A r \in Requests : job[r] # Idle ~> job[r] = Idle

\* What the docstring of StockBatch says: total and batches move together on every
\* stock-touch point. It is not so of transfers.
BothMoveTogether == [][\A b \in Branches :
    tracked /\ level[b] = Total(b) /\ level'[b] >= 0 => level'[b] = Total(b)']_vars

\* A transfer moves stock: what one branch loses is what the other gains.
TransferConserves == [][\A r \in Requests :
    job[r].op = "transfer" /\ job'[r] = Idle /\ level' # level =>
      LET from == job[r].from
          to == job[r].to
      IN  level'[from] + level'[to] = level[from] + level[to]]_vars

=============================================================================
