------------------------------- MODULE Sales -------------------------------
(***************************************************************************)
(* The life of a sales invoice (finance/models.py, finance/views.py,       *)
(* finance/serializers.py) under concurrent HTTP requests.                 *)
(*                                                                         *)
(* The database runs at READ COMMITTED and the views are not atomic unless *)
(* they say so, so a request is a sequence of steps: it reads the invoice  *)
(* row into memory (`copy`), perhaps takes row locks with                  *)
(* select_for_update, and in the end writes ALL the fields of its copy     *)
(* back (Model.save without update_fields).  checkout, create and the      *)
(* PATCH handler wrap their work in transaction.atomic(); void, payment    *)
(* and delete do not, so their stock movement commits before their row     *)
(* update does.                                                            *)
(*                                                                         *)
(* The variables row, items, seq, stock and payments hold what is          *)
(* committed; what a transaction has written and not committed is in the   *)
(* request's copy, seen and moved.  issued, ledger, sold, returned,        *)
(* reopened, late and astray are history variables: they are read to keep  *)
(* history only.                                                           *)
(*                                                                         *)
(* Left out: prices, taxes, discounts, cost snapshots, notifications and   *)
(* log lines.  The credit and expired-stock policies of checkout can only  *)
(* refuse it, which is Fail.  Dated batches are in module StockBatches.     *)
(***************************************************************************)
EXTENDS Integers, Sequences, FiniteSets, Functions

CONSTANTS
  Invoices,       \* invoice rows of one store and branch
  Variants,       \* product variants
  Stocked,        \* the variants that have a StockLevel row at the branch
  Carts,          \* the line lists an invoice may carry
  Drafts,         \* the invoices that exist at the start, as drafts
  StartCart,      \* the lines each invoice has at the start
  Opening,        \* quantity on hand of each stocked variant at the start
  Amounts,        \* what a payment may be of; nothing requires it to be positive
  AllowNegative,  \* StoreSettings.allow_negative_stock
  Requests,       \* worker slots: requests in progress at one time
  Nobody,         \* the holder of a free lock
  MaxRequests,    \* bound: requests served in a behaviour
  MaxEdits        \* bound: PATCHes that replace the lines of one invoice

Line == [variant : Variants, qty : Nat \ {0}]

ASSUME SalesConstants ==
  /\ Stocked \subseteq Variants
  /\ Carts \subseteq Seq(Line)
  /\ Drafts \subseteq Invoices
  /\ StartCart \in [Invoices -> Carts]
  /\ Opening \in [Stocked -> Int]
  /\ Amounts \subseteq Int
  /\ AllowNegative \in BOOLEAN
  /\ Nobody \notin Requests
  /\ MaxRequests \in Nat
  /\ MaxEdits \in Nat

VARIABLES
  row,        \* the committed row of each invoice
  items,      \* its committed lines; edition changes when they are replaced
  seq,        \* InvoiceSequence.last_number
  stock,      \* StockLevel.quantity, in base units
  payments,   \* sum of the committed Payment rows of each invoice
  stockLock,  \* holder of each StockLevel row lock
  seqLock,    \* holder of the InvoiceSequence row lock
  pc,         \* where each request is
  job,        \* what it was asked
  copy,       \* its in-memory invoice instance
  line,       \* the line its loop is at
  seen,       \* quantity it read when it locked a stock row
  moved,      \* what it has taken from (or, if negative, put in) that row
  fresh,      \* it has taken a number that is not committed yet
  served,     \* requests begun so far
  issued,     \* history: <<number, invoice>> pairs committed
  ledger,     \* history: net quantity committed out of each stock row
  sold,       \* history: committed deductions of each invoice
  returned,   \* history: committed reversals of each invoice
  reopened,   \* history: the row of the invoice was taken back to DRAFT
  late,       \* history: requests whose paid_amount another has made out of date
  astray      \* history: invoices with a lost payer or a late save since the last good sum

dbVars    == <<row, items, seq, stock, payments>>
lockVars  == <<stockLock, seqLock>>
localVars == <<pc, job, copy, line, seen, moved, fresh>>
history   == <<issued, ledger, sold, returned, reopened, late, astray>>
vars      == <<dbVars, lockVars, localVars, served, history>>

----------------------------------------------------------------------------
(* Rows, requests *)

\* SalesInvoice.Status, and ABSENT for a row that is not inserted yet.
Status == {"DRAFT", "POSTED", "VOID"}
Row    == [status : Status \cup {"ABSENT"}, number : Nat, paid : Int, deleted : BOOLEAN]
Lines  == [cart : Carts, edition : Nat]

Ops    == {"create", "checkout", "void", "pay", "patch", "destroy", "restore"}
Points == {"idle", "check", "number", "insert", "sum", "old", "move", "release", "write"}
Job    == [op : Ops, inv : Invoices, lines : Lines, cart : Carts]

\* What a slot holds between two requests.
NoLines == [cart |-> << >>, edition |-> 0]
NoJob   == [op |-> "none", inv |-> CHOOSE i \in Invoices : TRUE, lines |-> NoLines, cart |-> << >>]
NoCopy  == [status |-> "ABSENT", number |-> 0, paid |-> 0, deleted |-> FALSE]
NoStock == [v \in Stocked |-> 0]

\* Is the handler inside one transaction.atomic() from its first lock to its last write?
Atomic(r) == job[r].op \in {"create", "checkout", "patch"}

\* TenantSoftDeleteManager: what SalesInvoice.objects can see.
Visible(i) == row[i].status # "ABSENT" /\ ~row[i].deleted

\* Mutants: select_for_update dropped from a query.
CanLockUnlocked(r, v) == TRUE
CanNumberUnlocked(r) == TRUE

\* select_for_update returns only when nobody else holds the row.
CanLock(r, v) == stockLock[v] \in {r, Nobody}
CanNumber(r)  == seqLock \in {r, Nobody}

Cart(r)      == job[r].lines.cart
AtVariant(r) == Cart(r)[line[r]].variant
AtQty(r)     == Cart(r)[line[r]].qty

\* The row lock and the value under it: read when the lock is new.
Locked(r, v) ==
  /\ stockLock' = [stockLock EXCEPT ![v] = r]
  /\ seen' = [seen EXCEPT ![r][v] = IF stockLock[v] = r THEN @ ELSE stock[v]]

\* Mutant: the loop runs one line too far.
NextLineLate(r, done) ==
  /\ line' = [line EXCEPT ![r] = @ + 1]
  /\ pc' = IF line[r] > Len(Cart(r)) THEN [pc EXCEPT ![r] = done] ELSE pc

\* The loop goes on to the next line, or, after the last one, to `done`.
NextLine(r, done) ==
  /\ line' = [line EXCEPT ![r] = @ + 1]
  /\ pc' = IF line[r] = Len(Cart(r)) THEN [pc EXCEPT ![r] = done] ELSE pc

\* Where SalesInvoice.save starts: it takes a number only for a POSTED copy without one.
SaveAt(c) == IF c.status = "POSTED" /\ c.number = 0 THEN "number" ELSE "old"

----------------------------------------------------------------------------
(* How a request starts and ends *)

Begin(r, op, i, c, newCart, at) ==
  /\ pc[r] = "idle"
  /\ served < MaxRequests
  /\ served' = served + 1
  /\ job' = [job EXCEPT ![r] = [op |-> op, inv |-> i, lines |-> items[i], cart |-> newCart]]
  /\ copy' = [copy EXCEPT ![r] = c]
  /\ line' = [line EXCEPT ![r] = 1]
  /\ pc' = [pc EXCEPT ![r] = at]
  /\ UNCHANGED <<dbVars, lockVars, seen, moved, fresh, history>>

\* The end of a transaction releases every lock and forgets what it wrote.
Released(r) ==
  /\ stockLock' = [v \in Stocked |-> IF stockLock[v] = r THEN Nobody ELSE stockLock[v]]
  /\ seqLock' = IF seqLock = r THEN Nobody ELSE seqLock
  /\ moved' = [moved EXCEPT ![r] = NoStock]
  /\ fresh' = [fresh EXCEPT ![r] = FALSE]

Answered(r) ==
  /\ pc' = [pc EXCEPT ![r] = "idle"]
  /\ job' = [job EXCEPT ![r] = NoJob]
  /\ copy' = [copy EXCEPT ![r] = NoCopy]
  /\ line' = [line EXCEPT ![r] = 1]
  /\ seen' = [seen EXCEPT ![r] = NoStock]

\* The payment is in the table, and the request has not saved its sum yet.
Inserted(r) == job[r].op = "pay" /\ pc[r] \notin {"idle", "insert"}

\* ROLLBACK: an exception, a refused policy, a lost connection or a killed worker.
\* What an earlier transaction of the same request committed stays.
Rollback(r) ==
  /\ Released(r)
  /\ Answered(r)
  /\ late' = late \ {r}
  /\ astray' = IF Inserted(r) THEN astray \cup {job[r].inv} ELSE astray
  /\ UNCHANGED <<dbVars, served, issued, ledger, sold, returned, reopened>>

\* The committed effect of stock.quantity -= base_qty; stock.save() on the locked rows.
StockAfter(r) ==
  [v \in Stocked |-> IF moved[r][v] # 0 THEN seen[r][v] - moved[r][v] ELSE stock[v]]

StockCommitted(r) ==
  LET i == job[r].inv IN
  /\ stock' = StockAfter(r)
  /\ ledger' = [v \in Stocked |-> ledger[v] + moved[r][v]]
  /\ sold' = IF \E v \in Stocked : moved[r][v] > 0
             THEN [sold EXCEPT ![i] = @ + 1] ELSE sold
  /\ returned' = IF \E v \in Stocked : moved[r][v] < 0
                 THEN [returned EXCEPT ![i] = @ + 1] ELSE returned

\* Mutant: without transaction.atomic, what was saved before the failure stays.
FailHalfway(r) ==
  /\ pc[r] # "idle"
  /\ StockCommitted(r)
  /\ Released(r)
  /\ Answered(r)
  /\ UNCHANGED <<row, items, seq, payments, served, issued, reopened, late, astray>>

\* Any request may fail, anywhere.
Fail(r) == pc[r] # "idle" /\ Rollback(r)

\* UPDATE ... SET every column of the copy.
RowWritten(r) ==
  LET i == job[r].inv IN
  /\ row' = [row EXCEPT ![i] = copy[r]]
  /\ reopened' = [reopened EXCEPT ![i] =
       @ \/ (row[i].status \in {"POSTED", "VOID"} /\ copy[r].status = "DRAFT")]
  /\ late' = (late \cup {q \in Requests : /\ copy[r].paid # row[i].paid
                                         /\ pc[q] # "idle" /\ job[q].inv = i
                                         /\ job[q].op # "pay"}) \ {r}
  /\ astray' = IF r \in late THEN astray \cup {i}
               ELSE IF job[r].op = "pay" THEN astray \ {i} ELSE astray

----------------------------------------------------------------------------
(* The requests *)

Init ==
  /\ row = [i \in Invoices |->
              [NoCopy EXCEPT !.status = IF i \in Drafts THEN "DRAFT" ELSE "ABSENT"]]
  /\ items = [i \in Invoices |-> [cart |-> StartCart[i], edition |-> 0]]
  /\ seq = 0
  /\ stock = Opening
  /\ payments = [i \in Invoices |-> 0]
  /\ stockLock = [v \in Stocked |-> Nobody]
  /\ seqLock = Nobody
  /\ pc = [r \in Requests |-> "idle"]
  /\ job = [r \in Requests |-> NoJob]
  /\ copy = [r \in Requests |-> NoCopy]
  /\ line = [r \in Requests |-> 1]
  /\ seen = [r \in Requests |-> NoStock]
  /\ moved = [r \in Requests |-> NoStock]
  /\ fresh = [r \in Requests |-> FALSE]
  /\ served = 0
  /\ issued = {}
  /\ ledger = NoStock
  /\ sold = [i \in Invoices |-> 0]
  /\ returned = [i \in Invoices |-> 0]
  /\ reopened = [i \in Invoices |-> FALSE]
  /\ late = {}
  /\ astray = {}

\* SalesInvoiceSerializer.create: a draft cart, or the legacy direct post. The
\* invoice stands for a new UUID, so two creates never share one.
BeginCreate(r, i, s, cart) ==
  /\ row[i].status = "ABSENT"
  /\ \A q \in Requests : pc[q] # "idle" => job[q].inv # i
  /\ LET c == [row[i] EXCEPT !.status = s]
     IN  Begin(r, "create", i, c, cart, SaveAt(c))

\* SalesInvoiceViewSet.checkout, to the start of its transaction.
BeginCheckout(r, i) ==
  /\ Visible(i) /\ row[i].status = "DRAFT"
  /\ items[i].cart # << >>
  /\ LET c == [row[i] EXCEPT !.status = "POSTED"]
     IN  Begin(r, "checkout", i, c, items[i].cart,
               IF AllowNegative THEN SaveAt(c) ELSE "check")

BeginVoid(r, i) ==
  /\ Visible(i) /\ row[i].status # "VOID"
  /\ Begin(r, "void", i, [row[i] EXCEPT !.status = "VOID"], items[i].cart, "old")

BeginPay(r, i) ==
  /\ Visible(i)
  /\ Begin(r, "pay", i, row[i], items[i].cart, "insert")

\* SalesInvoiceSerializer.update: status is writable, and the lines may be replaced.
BeginPatch(r, i, s, cart) ==
  /\ Visible(i)
  /\ cart # items[i].cart => items[i].edition < MaxEdits
  /\ LET c == [row[i] EXCEPT !.status = s]
     IN  Begin(r, "patch", i, c, cart, SaveAt(c))

\* SoftDeleteModel.delete and .restore (the trash view) end in the same full save.
BeginDestroy(r, i) ==
  /\ Visible(i)
  /\ Begin(r, "destroy", i, [row[i] EXCEPT !.deleted = TRUE], items[i].cart, SaveAt(row[i]))

BeginRestore(r, i) ==
  /\ row[i].deleted
  /\ Begin(r, "restore", i, [row[i] EXCEPT !.deleted = FALSE], items[i].cart, SaveAt(row[i]))

----------------------------------------------------------------------------
(* Checkout: lock each stock row the cart needs and compare, before posting *)

\* Quantity the request reads when it selects the row for update.
Available(r, v) == IF stockLock[v] = r THEN seen[r][v] ELSE stock[v]

Covers(r) == AtVariant(r) \in Stocked /\ AtQty(r) <= Available(r, AtVariant(r))

\* Mutant: availability is compared before the row is locked.
CheckLineUnlocked(r) ==
  /\ pc[r] = "check"
  /\ Covers(r)
  /\ NextLine(r, SaveAt(copy[r]))
  /\ UNCHANGED <<dbVars, lockVars, job, copy, seen, moved, fresh, served, history>>

CheckLine(r) ==
  /\ pc[r] = "check"
  /\ Covers(r)
  /\ CanLock(r, AtVariant(r))
  /\ Locked(r, AtVariant(r))
  /\ NextLine(r, SaveAt(copy[r]))
  /\ UNCHANGED <<dbVars, seqLock, job, copy, moved, fresh, served, history>>

\* Mutant: the view waits for stock to come in.
ShortageWaits(r) == pc[r] = "check" /\ ~Covers(r) /\ UNCHANGED vars

\* The view gathers the shortages of all the lines and then raises; nothing is kept.
Shortage(r) ==
  /\ pc[r] = "check"
  /\ AtVariant(r) \in Stocked => CanLock(r, AtVariant(r))
  /\ ~Covers(r)
  /\ Rollback(r)

----------------------------------------------------------------------------
(* Payment.save: insert the payment, sum, then save the invoice it holds *)

InsertPayment(r) ==
  LET i == job[r].inv IN
  /\ pc[r] = "insert"
  /\ \E amount \in Amounts : payments' = [payments EXCEPT ![i] = @ + amount]
  /\ pc' = [pc EXCEPT ![r] = "sum"]
  /\ late' = late \cup {q \in Requests : Inserted(q) /\ pc[q] # "sum" /\ job[q].inv = i}
  /\ UNCHANGED <<row, items, seq, stock, lockVars, job, copy, line, seen, moved, fresh,
                 served, issued, ledger, sold, returned, reopened, astray>>

\* Mutant: the new amount is added to a sum that has it already.
SumPaymentsTwice(r) ==
  /\ pc[r] = "sum"
  /\ copy' = [copy EXCEPT ![r].paid = payments[job[r].inv] + 1]
  /\ pc' = [pc EXCEPT ![r] = SaveAt(copy[r])]
  /\ UNCHANGED <<dbVars, lockVars, job, line, seen, moved, fresh, served, history>>

SumPayments(r) ==
  /\ pc[r] = "sum"
  /\ copy' = [copy EXCEPT ![r].paid = payments[job[r].inv]]
  /\ pc' = [pc EXCEPT ![r] = SaveAt(copy[r])]
  /\ UNCHANGED <<dbVars, lockVars, job, line, seen, moved, fresh, served, history>>

----------------------------------------------------------------------------
(* SalesInvoice.save and its pre_save receiver handle_sale_stock *)

\* Mutant: the number is committed by itself, before the invoice that takes it.
NumberApart(r) ==
  /\ pc[r] = "number"
  /\ CanNumber(r)
  /\ seq' = seq + 1
  /\ copy' = [copy EXCEPT ![r].number = seq + 1]
  /\ pc' = [pc EXCEPT ![r] = "old"]
  /\ UNCHANGED <<row, items, stock, payments, lockVars, job, line, seen, moved, fresh,
                 served, history>>

Number(r) ==
  /\ pc[r] = "number"
  /\ CanNumber(r)
  /\ seqLock' = r
  /\ copy' = [copy EXCEPT ![r].number = seq + 1]
  /\ fresh' = [fresh EXCEPT ![r] = TRUE]
  /\ pc' = [pc EXCEPT ![r] = "old"]
  /\ UNCHANGED <<dbVars, stockLock, job, line, seen, moved, served, history>>

\* Mutant: any save of a POSTED copy is taken for a posting.
PostingAlways(i, c) == Visible(i) /\ c.status = "POSTED"

\* The receiver reads the committed row again and compares it with the copy.
Posting(i, c) == Visible(i) /\ row[i].status = "DRAFT" /\ c.status = "POSTED"
Voiding(i, c) == Visible(i) /\ row[i].status = "POSTED" /\ c.status = "VOID"

ReadOld(r) ==
  /\ pc[r] = "old"
  /\ line' = [line EXCEPT ![r] = 1]
  /\ pc' = [pc EXCEPT ![r] =
       IF /\ Posting(job[r].inv, copy[r]) \/ Voiding(job[r].inv, copy[r])
          /\ Cart(r) # << >>
       THEN "move" ELSE "write"]
  /\ UNCHANGED <<dbVars, lockVars, job, copy, seen, moved, fresh, served, history>>

\* instance.items is the list fetched with the invoice, not the committed one.
LinesIntact(r) == job[r].lines.edition = items[job[r].inv].edition

Take(r, sign) ==
  /\ pc[r] = "move"
  /\ IF AtVariant(r) \in Stocked
       THEN /\ CanLock(r, AtVariant(r))
            /\ Locked(r, AtVariant(r))
            /\ moved' = [moved EXCEPT ![r][AtVariant(r)] = @ + sign * AtQty(r)]
       ELSE UNCHANGED <<stockLock, seen, moved>>
  /\ NextLine(r, IF Atomic(r) THEN "write" ELSE "release")
  /\ UNCHANGED <<dbVars, seqLock, job, copy, fresh, served, history>>

\* Posting also writes cost_at_sale into the line, which raises if the line is gone.
MoveOut(r)  == copy[r].status = "POSTED" /\ LinesIntact(r) /\ Take(r, 1)
MoveBack(r) == copy[r].status = "VOID" /\ Take(r, -1)

LineGone(r) ==
  /\ pc[r] = "move"
  /\ copy[r].status = "POSTED" /\ ~LinesIntact(r)
  /\ Rollback(r)

\* Outside an enclosing transaction the receiver's own atomic block ends here: the
\* stock is committed and the row is not written yet.
Release(r) ==
  /\ pc[r] = "release"
  /\ StockCommitted(r)
  /\ Released(r)
  /\ pc' = [pc EXCEPT ![r] = "write"]
  /\ UNCHANGED <<row, items, seq, payments, job, copy, line, seen, served,
                 issued, reopened, late, astray>>

Update(r) ==
  /\ pc[r] = "write" /\ ~Atomic(r)
  /\ RowWritten(r)
  /\ Answered(r)
  /\ UNCHANGED <<items, seq, stock, payments, lockVars, moved, fresh,
                 served, issued, ledger, sold, returned>>

ItemsWritten(r) ==
  LET i == job[r].inv IN
  items' = CASE job[r].op = "create" -> [items EXCEPT ![i].cart = job[r].cart]
             [] job[r].op = "patch" /\ job[r].cart # Cart(r) ->
                  [items EXCEPT ![i] = [cart |-> job[r].cart, edition |-> @.edition + 1]]
             [] OTHER -> items

Commit(r) ==
  /\ pc[r] = "write" /\ Atomic(r)
  /\ RowWritten(r)
  /\ ItemsWritten(r)
  /\ StockCommitted(r)
  /\ seq' = IF fresh[r] THEN copy[r].number ELSE seq
  /\ issued' = IF fresh[r] THEN issued \cup {<<copy[r].number, job[r].inv>>} ELSE issued
  /\ Released(r)
  /\ Answered(r)
  /\ UNCHANGED <<payments, served>>

----------------------------------------------------------------------------
(* PostgreSQL cancels a request of a cycle of lock waits *)

BlockedBy(r) ==
  IF pc[r] \in {"check", "move"} /\ AtVariant(r) \in Stocked
    THEN {stockLock[AtVariant(r)]} \ {r, Nobody}
  ELSE IF pc[r] = "number" THEN {seqLock} \ {r, Nobody}
  ELSE {}

Deadlocked(r) == \E S \in SUBSET Requests : r \in S /\ \A q \in S : BlockedBy(q) \cap S # {}

BreakDeadlock(r) == Deadlocked(r) /\ Rollback(r)

----------------------------------------------------------------------------

Begins(r) ==
  \E i \in Invoices :
    \/ \E s \in Status, cart \in Carts : BeginCreate(r, i, s, cart)
    \/ BeginCheckout(r, i)
    \/ BeginVoid(r, i)
    \/ BeginPay(r, i)
    \/ \E s \in Status, cart \in Carts : BeginPatch(r, i, s, cart)
    \/ BeginDestroy(r, i)
    \/ BeginRestore(r, i)

Step(r) ==
  \/ CheckLine(r) \/ Shortage(r)
  \/ InsertPayment(r) \/ SumPayments(r)
  \/ Number(r) \/ ReadOld(r)
  \/ MoveOut(r) \/ MoveBack(r) \/ LineGone(r) \/ Release(r)
  \/ Update(r) \/ Commit(r)
  \/ BreakDeadlock(r)

Next == \E r \in Requests : Begins(r) \/ Step(r) \/ Fail(r)

Spec == Init /\ [][Next]_vars

\* A worker that can run does run: the server's threads and the lock queues of the
\* database are fair. Nobody is obliged to send a request or to fail.
FairSpec == Spec /\ \A r \in Requests : WF_vars(Step(r))

----------------------------------------------------------------------------
(* What is true of the code *)

TypeOK ==
  /\ row \in [Invoices -> Row]
  /\ items \in [Invoices -> Lines]
  /\ seq \in Nat
  /\ stock \in [Stocked -> Int]
  /\ payments \in [Invoices -> Int]
  /\ stockLock \in [Stocked -> Requests \cup {Nobody}]
  /\ seqLock \in Requests \cup {Nobody}
  /\ pc \in [Requests -> Points]
  /\ job \in [Requests -> Job \cup {NoJob}]
  /\ copy \in [Requests -> Row]
  /\ line \in [Requests -> Nat \ {0}]
  /\ seen \in [Requests -> [Stocked -> Int]]
  /\ moved \in [Requests -> [Stocked -> Int]]
  /\ fresh \in [Requests -> BOOLEAN]
  /\ served \in 0..MaxRequests
  /\ issued \subseteq Nat \X Invoices
  /\ ledger \in [Stocked -> Int]
  /\ sold \in [Invoices -> Nat]
  /\ returned \in [Invoices -> Nat]
  /\ reopened \in [Invoices -> BOOLEAN]
  /\ late \subseteq Requests
  /\ astray \subseteq Invoices
  /\ \A r \in Requests : pc[r] # "idle" => job[r] \in Job
  /\ \A r \in Requests : pc[r] \in {"check", "move"} => line[r] <= Len(Cart(r))

\* A number is given to one invoice only, whatever is renumbered, reverted or
\* deleted later; a POSTED row always carries a number its invoice was given.
NumbersAreUnique ==
  /\ \A m, n \in issued : m[1] = n[1] => m[2] = n[2]
  /\ \A i \in Invoices : row[i].number # 0 => <<row[i].number, i>> \in issued
  /\ \A i \in Invoices : row[i].status = "POSTED" => row[i].number # 0

\* Every committed movement of a stock row is still in it: no write is lost.
NoLostStockWrite == \A v \in Stocked : stock[v] = Opening[v] - ledger[v]

\* Unless some write takes the row back to DRAFT, the stock of an invoice is deducted
\* at most once, however many checkouts, patches, payments and restores race for it.
DeductedOnce == \A i \in Invoices : ~reopened[i] => sold[i] <= 1

\* What an invoice says is paid is the sum of its payments, no more and no less and whatever
\* their signs, but for a payment whose request has not saved the sum, or failed before it
\* did, and for a save of a sum that another request had put out of date; and the next
\* payment that is not overtaken puts either right.
PaidIsTheSum ==
  \A i \in Invoices :
    row[i].paid # payments[i] =>
      i \in astray \/ \E r \in Requests : Inserted(r) /\ job[r].inv = i

\* The sequence advances by one, in the transaction that writes the number in a row:
\* a posting that is rolled back gives its number back.
NumberTakenByARow ==
  seq' # seq => seq' = seq + 1 /\ \E i \in Invoices : row'[i].number = seq' /\ row[i].number # seq'
GaplessNumbers == [][NumberTakenByARow]_vars

\* Base units of v on each line of a cart, and on all of them.
UnitsOn(cart, v) == [n \in DOMAIN cart |-> IF cart[n].variant = v THEN cart[n].qty ELSE 0]
Needs(cart, v) == SumFunction(UnitsOn(cart, v))

\* Stock moves by whole invoices: every line of one cart is taken, or put back, at once.
StockMovesByCart ==
  stock' # stock =>
    \E cart \in Carts, sign \in {1, -1} :
      \A v \in Stocked : stock'[v] = stock[v] - sign * Needs(cart, v)
WholeCarts == [][StockMovesByCart]_vars

\* A cart with two lines of one variant passes a check made line by line.
OneLinePerVariant(cart) ==
  \A m, n \in 1..Len(cart) : cart[m].variant = cart[n].variant => m = n

\* When the store forbids negative stock, a checkout whose lines name distinct variants
\* takes no row below zero, whatever else is being sold at the same time.
CheckoutCovered ==
  \A r \in Requests, v \in Stocked :
    (/\ pc[r] = "write" /\ job[r].op = "checkout" /\ ~AllowNegative
     /\ OneLinePerVariant(Cart(r))
     /\ pc'[r] = "idle" /\ stock'[v] < stock[v]) => stock'[v] >= 0
NoOversell == [][CheckoutCovered]_vars

\* The same without the proviso on the lines, as the help text of the setting has it.
NeverOversold == [][\A r \in Requests, v \in Stocked :
    (/\ pc[r] = "write" /\ job[r].op = "checkout" /\ ~AllowNegative
     /\ pc'[r] = "idle" /\ stock'[v] < stock[v]) => stock'[v] >= 0]_vars

\* Voiding puts back no more than posting took.
ReturnsOnlyWhatWasSold == \A i \in Invoices : returned[i] <= sold[i]

\* Every request is answered: nobody waits for a lock for ever.
EveryRequestEnds == \A r \in Requests : pc[r] # "idle" ~> pc[r] = "idle"

=============================================================================
