---------------------------- MODULE SalesProofs ----------------------------
(***************************************************************************)
(* Theorems about Sales, for every set of invoices, variants, carts and    *)
(* requests: invoice numbers are unique and gapless, no stock write is     *)
(* lost, an invoice is deducted once, and is credited with the sum of its  *)
(* payments while nobody overtakes them; a cart leaves stock whole or not  *)
(* at all, and a checkout that the store's policy guards never sells what  *)
(* is not there.                                                           *)
(***************************************************************************)
EXTENDS Sales, Sums

----------------------------------------------------------------------------
(* Typing *)

\* The lines a request loops over are a sequence of lines.
LEMMA CartType ==
  ASSUME TypeOK, NEW r \in Requests
  PROVE  /\ Cart(r) \in Seq(Line)
         /\ Len(Cart(r)) \in Nat
         /\ pc[r] \in {"check", "move"} =>
              AtVariant(r) \in Variants /\ AtQty(r) \in Nat /\ AtQty(r) > 0
<1>1. Cart(r) \in Seq(Line)
  <2>1. CASE job[r] \in Job
    BY <2>1, SalesConstants DEF Job, Lines, Cart
  <2>2. CASE job[r] = NoJob
    <3>1. Cart(r) = << >>
      BY <2>2 DEF NoJob, NoLines, Cart
    <3>2. << >> \in Seq(Line)
      OBVIOUS
    <3>3. QED BY <3>1, <3>2
  <2>3. QED BY <2>1, <2>2 DEF TypeOK
<1>2. Len(Cart(r)) \in Nat
  BY <1>1
<1>3. ASSUME pc[r] \in {"check", "move"}
      PROVE  AtVariant(r) \in Variants /\ AtQty(r) \in Nat /\ AtQty(r) > 0
  <2>1. line[r] \in 1..Len(Cart(r))
    BY <1>2, <1>3 DEF TypeOK
  <2>2. Cart(r)[line[r]] \in Line
    BY <1>1, <2>1
  <2>3. QED BY <2>2 DEF Line, AtVariant, AtQty
<1>4. QED BY <1>1, <1>2, <1>3

\* A row read into memory, changed in one field, is a row.
LEMMA CopyType ==
  ASSUME TypeOK, NEW i \in Invoices
  PROVE  /\ row[i] \in Row
         /\ \A s \in Status : [row[i] EXCEPT !.status = s] \in Row
         /\ \A d \in BOOLEAN : [row[i] EXCEPT !.deleted = d] \in Row
<1>1. row[i] \in Row
  BY DEF TypeOK
<1>2. QED BY <1>1 DEF Row, Status

\* Beginning a request keeps the types.
LEMMA BeginTyped ==
  ASSUME TypeOK, NEW r \in Requests, NEW op \in Ops, NEW i \in Invoices,
         NEW c \in Row, NEW cart \in Carts, NEW at \in Points,
         at = "check" => items[i].cart # << >>, at # "move",
         Begin(r, op, i, c, cart, at)
  PROVE  TypeOK'
<1>1. items[i].cart \in Seq(Line)
  BY SalesConstants DEF TypeOK, Lines
<1>2. [op |-> op, inv |-> i, lines |-> items[i], cart |-> cart] \in Job
  BY DEF TypeOK, Job
<1>3. job' \in [Requests -> Job \cup {NoJob}]
  BY <1>2 DEF TypeOK, Begin
<1>4. at = "check" => Len(items[i].cart) >= 1
  BY <1>1
<1>5. \A q \in Requests : pc'[q] \in {"check", "move"} => line'[q] <= Len(Cart(q)')
  <2> SUFFICES ASSUME NEW q \in Requests, pc'[q] \in {"check", "move"}
               PROVE  line'[q] <= Len(Cart(q)')
    OBVIOUS
  <2>1. CASE q = r
    <3>1. line'[q] = 1 /\ Cart(q)' = items[i].cart /\ at = "check"
      BY <2>1 DEF TypeOK, Begin, Cart
    <3>2. QED BY <3>1, <1>4
  <2>2. CASE q # r
    BY <2>2 DEF TypeOK, Begin, Cart
  <2>3. QED BY <2>1, <2>2
<1>6. served' \in 0..MaxRequests
  BY SalesConstants DEF TypeOK, Begin
<1>7. \A q \in Requests : pc'[q] # "idle" => job'[q] \in Job
  BY <1>2 DEF TypeOK, Begin
<1>8. line' \in [Requests -> Nat \ {0}] /\ copy' \in [Requests -> Row] /\ pc' \in [Requests -> Points]
  BY DEF TypeOK, Begin
<1>9. QED BY <1>3, <1>5, <1>6, <1>7, <1>8 DEF TypeOK, Begin, dbVars, lockVars, history

\* So does ending one.
LEMMA AnsweredTyped ==
  ASSUME TypeOK, NEW r \in Requests, Answered(r)
  PROVE  /\ pc' \in [Requests -> Points]
         /\ job' \in [Requests -> Job \cup {NoJob}]
         /\ copy' \in [Requests -> Row]
         /\ line' \in [Requests -> Nat \ {0}]
         /\ seen' \in [Requests -> [Stocked -> Int]]
         /\ \A q \in Requests : pc'[q] # "idle" => job'[q] \in Job
         /\ \A q \in Requests : pc'[q] \in {"check", "move"} => line'[q] <= Len(Cart(q)')
<1>1. NoCopy \in Row /\ NoStock \in [Stocked -> Int]
  BY DEF NoCopy, NoStock, Row, Status
<1>2. "idle" \in Points
  BY DEF Points
<1>3. QED BY <1>1, <1>2 DEF TypeOK, Answered, Cart

LEMMA ReleasedTyped ==
  ASSUME TypeOK, NEW r \in Requests, Released(r)
  PROVE  /\ stockLock' \in [Stocked -> Requests \cup {Nobody}]
         /\ seqLock' \in Requests \cup {Nobody}
         /\ moved' \in [Requests -> [Stocked -> Int]]
         /\ fresh' \in [Requests -> BOOLEAN]
<1>1. NoStock \in [Stocked -> Int]
  BY DEF NoStock
<1>2. QED BY <1>1 DEF TypeOK, Released

LEMMA RollbackTyped ==
  ASSUME TypeOK, NEW r \in Requests, Rollback(r)
  PROVE  TypeOK'
<1>1. late' \subseteq Requests /\ astray' \subseteq Invoices
  BY DEF TypeOK, Rollback, Inserted, Job
<1>2. QED BY <1>1, AnsweredTyped, ReleasedTyped DEF TypeOK, Rollback, dbVars

LEMMA StockCommittedTyped ==
  ASSUME TypeOK, NEW r \in Requests, StockCommitted(r)
  PROVE  /\ stock' \in [Stocked -> Int]
         /\ ledger' \in [Stocked -> Int]
         /\ sold' \in [Invoices -> Nat]
         /\ returned' \in [Invoices -> Nat]
<1>1. /\ stock \in [Stocked -> Int] /\ ledger \in [Stocked -> Int]
      /\ moved[r] \in [Stocked -> Int] /\ seen[r] \in [Stocked -> Int]
      /\ sold \in [Invoices -> Nat] /\ returned \in [Invoices -> Nat]
  BY DEF TypeOK
<1>2. stock' \in [Stocked -> Int] /\ ledger' \in [Stocked -> Int]
  BY <1>1 DEF StockCommitted, StockAfter
<1>3. sold' \in [Invoices -> Nat]
  <2>1. sold' \in {sold, [sold EXCEPT ![job[r].inv] = @ + 1]}
    BY DEF StockCommitted
  <2>2. QED BY <1>1, <2>1
<1>4. returned' \in [Invoices -> Nat]
  <2>1. returned' \in {returned, [returned EXCEPT ![job[r].inv] = @ + 1]}
    BY DEF StockCommitted
  <2>2. QED BY <1>1, <2>1
<1>5. QED BY <1>2, <1>3, <1>4

LEMMA RowWrittenTyped ==
  ASSUME TypeOK, NEW r \in Requests, pc[r] # "idle", RowWritten(r)
  PROVE  /\ row' \in [Invoices -> Row]
         /\ reopened' \in [Invoices -> BOOLEAN]
         /\ late' \subseteq Requests /\ astray' \subseteq Invoices
BY DEF TypeOK, RowWritten, Job

\* The loop over the lines ends at the last one.
LEMMA NextLineTyped ==
  ASSUME TypeOK, NEW r \in Requests, NEW done \in Points, done \notin {"check", "move"},
         pc[r] \in {"check", "move"}, NextLine(r, done), UNCHANGED job
  PROVE  /\ pc' \in [Requests -> Points]
         /\ line' \in [Requests -> Nat \ {0}]
         /\ \A q \in Requests : pc'[q] # "idle" => job'[q] \in Job
         /\ \A q \in Requests : pc'[q] \in {"check", "move"} => line'[q] <= Len(Cart(q)')
<1>1. line[r] \in Nat /\ line[r] <= Len(Cart(r)) /\ Len(Cart(r)) \in Nat
  BY CartType DEF TypeOK
<1>2. pc' \in [Requests -> Points] /\ line' \in [Requests -> Nat \ {0}]
  BY <1>1 DEF TypeOK, NextLine
<1>3. ASSUME NEW q \in Requests, pc'[q] \in {"check", "move"}
      PROVE  line'[q] <= Len(Cart(q)')
  <2>1. Cart(q)' = Cart(q)
    BY DEF Cart
  <2>2. CASE q = r
    <3>1. line[r] # Len(Cart(r)) /\ line'[r] = line[r] + 1
      BY <1>3, <2>2 DEF TypeOK, NextLine
    <3>2. QED BY <1>1, <2>1, <2>2, <3>1
  <2>3. CASE q # r
    BY <1>3, <2>1, <2>3 DEF TypeOK, NextLine
  <2>4. QED BY <2>2, <2>3
<1>4. \A q \in Requests : pc'[q] # "idle" => job'[q] \in Job
  BY DEF TypeOK, NextLine
<1>5. QED BY <1>2, <1>3, <1>4

LEMMA LockedTyped ==
  ASSUME TypeOK, NEW r \in Requests, NEW v \in Stocked, Locked(r, v)
  PROVE  /\ stockLock' \in [Stocked -> Requests \cup {Nobody}]
         /\ seen' \in [Requests -> [Stocked -> Int]]
BY DEF TypeOK, Locked

\* A step of a request other than its last keeps the types.
LEMMA StepTyped ==
  ASSUME TypeOK, NEW r \in Requests, Step(r)
  PROVE  TypeOK'
<1>0. /\ SaveAt(copy[r]) \in Points \ {"check", "move"}
      /\ {"write", "release", "sum", "old", "number", "move"} \subseteq Points
      /\ copy[r] \in Row
  BY DEF SaveAt, Points, TypeOK
<1>1. CASE CheckLine(r)
  <2>1. AtVariant(r) \in Stocked
    BY <1>1 DEF CheckLine, Covers
  <2>2. QED
    BY <1>0, <1>1, <2>1, LockedTyped, NextLineTyped
    DEF CheckLine, TypeOK, dbVars, history
<1>2. CASE Shortage(r)
  BY <1>2, RollbackTyped DEF Shortage
<1>3. CASE InsertPayment(r)
  <2>1. job[r].inv \in Invoices
    BY <1>3 DEF InsertPayment, TypeOK, Job
  <2>2. payments' \in [Invoices -> Int]
    <3>1. PICK amount \in Int : payments' = [payments EXCEPT ![job[r].inv] = @ + amount]
      BY <1>3, SalesConstants DEF InsertPayment
    <3>2. QED BY <2>1, <3>1 DEF TypeOK
  <2>3. late' \subseteq Requests
    BY <1>3 DEF InsertPayment, TypeOK
  <2>4. QED
    BY <1>0, <1>3, <2>2, <2>3 DEF InsertPayment, TypeOK, Cart, lockVars
<1>4. CASE SumPayments(r)
  <2>1. payments[job[r].inv] \in Int
    BY <1>4 DEF SumPayments, TypeOK, Job
  <2>2. [copy[r] EXCEPT !.paid = payments[job[r].inv]] \in Row
    BY <1>0, <2>1 DEF Row
  <2>3. copy' = [copy EXCEPT ![r] = [copy[r] EXCEPT !.paid = payments[job[r].inv]]]
    BY <1>4 DEF SumPayments, TypeOK
  <2>4. QED
    BY <1>0, <1>4, <2>2, <2>3 DEF SumPayments, TypeOK, Cart, dbVars, lockVars, history
<1>5. CASE Number(r)
  <2>0. seq + 1 \in Nat
    BY DEF TypeOK
  <2>1. [copy[r] EXCEPT !.number = seq + 1] \in Row
    BY <1>0, <2>0 DEF Row
  <2>2. copy' = [copy EXCEPT ![r] = [copy[r] EXCEPT !.number = seq + 1]]
    BY <1>5 DEF Number, TypeOK
  <2>3. QED
    BY <1>0, <1>5, <2>1, <2>2 DEF Number, TypeOK, Cart, dbVars, history
<1>6. CASE ReadOld(r)
  <2>1. Cart(r) # << >> => Len(Cart(r)) >= 1
    BY CartType
  <2>2. \A q \in Requests : pc'[q] \in {"check", "move"} => line'[q] <= Len(Cart(q)')
    BY <1>6, <2>1 DEF ReadOld, TypeOK, Cart
  <2>3. QED
    BY <1>0, <1>6, <2>2 DEF ReadOld, TypeOK, dbVars, lockVars, history
<1>7. ASSUME NEW sign \in {1, -1}, Take(r, sign)
      PROVE  TypeOK'
  <2>1. pc[r] = "move" /\ AtQty(r) \in Nat
    BY <1>7, CartType DEF Take
  <2>2. sign * AtQty(r) \in Int
    BY <2>1
  <2>3. /\ stockLock' \in [Stocked -> Requests \cup {Nobody}]
        /\ seen' \in [Requests -> [Stocked -> Int]]
    BY <1>7, LockedTyped DEF Take, TypeOK
  <2>4. moved' \in [Requests -> [Stocked -> Int]]
    <3>1. ASSUME AtVariant(r) \in Stocked
          PROVE  moved' = [moved EXCEPT ![r] =
                             [moved[r] EXCEPT ![AtVariant(r)] = @ + sign * AtQty(r)]]
      BY <1>7, <3>1 DEF Take, TypeOK
    <3>2. moved[r] \in [Stocked -> Int]
      BY DEF TypeOK
    <3>3. ASSUME AtVariant(r) \in Stocked
          PROVE  [moved[r] EXCEPT ![AtVariant(r)] = @ + sign * AtQty(r)] \in [Stocked -> Int]
      BY <2>2, <3>2, <3>3
    <3>4. QED BY <1>7, <3>1, <3>3 DEF Take, TypeOK
  <2>5. QED
    BY <1>0, <1>7, <2>1, <2>3, <2>4, NextLineTyped DEF Take, TypeOK, dbVars, history
<1>8. CASE MoveOut(r)
  BY <1>7, <1>8 DEF MoveOut
<1>9. CASE MoveBack(r)
  BY <1>7, <1>9 DEF MoveBack
<1>10. CASE LineGone(r)
  BY <1>10, RollbackTyped DEF LineGone
<1>11. CASE Release(r)
  BY <1>0, <1>11, StockCommittedTyped, ReleasedTyped DEF Release, TypeOK, Cart
<1>12. CASE Update(r)
  BY <1>12, RowWrittenTyped, AnsweredTyped DEF Update, TypeOK, lockVars
<1>13. CASE Commit(r)
  <2>1. job[r] \in Job
    BY <1>13 DEF Commit, TypeOK
  <2>2. items' \in [Invoices -> Lines]
    <3>1. job[r].inv \in Invoices /\ job[r].cart \in Carts /\ items[job[r].inv] \in Lines
      BY <2>1 DEF TypeOK, Job
    <3>2. /\ [items[job[r].inv] EXCEPT !.cart = job[r].cart] \in Lines
          /\ [cart |-> job[r].cart, edition |-> items[job[r].inv].edition + 1] \in Lines
      BY <3>1 DEF Lines
    <3>3. items' \in {items,
            [items EXCEPT ![job[r].inv] = [@ EXCEPT !.cart = job[r].cart]],
            [items EXCEPT ![job[r].inv] =
               [cart |-> job[r].cart, edition |-> items[job[r].inv].edition + 1]]}
      BY <1>13, <3>1 DEF Commit, ItemsWritten, TypeOK
    <3>4. QED BY <3>1, <3>2, <3>3 DEF TypeOK
  <2>3. seq' \in Nat /\ issued' \subseteq Nat \X Invoices
    BY <1>0, <1>13, <2>1 DEF Commit, TypeOK, Job, Row
  <2>4. QED
    BY <1>13, <2>2, <2>3, RowWrittenTyped, StockCommittedTyped, ReleasedTyped, AnsweredTyped
    DEF Commit, TypeOK
<1>14. CASE BreakDeadlock(r)
  BY <1>14, RollbackTyped DEF BreakDeadlock
<1>15. QED
  BY <1>1, <1>2, <1>3, <1>4, <1>5, <1>6, <1>8, <1>9, <1>10, <1>11, <1>12, <1>13, <1>14
  DEF Step

\* What a handler has in memory when it begins: the row it read, with at most the status
\* and the trash flag changed, and where that takes it.
Started(op, i, c, at) ==
  /\ c.number = row[i].number /\ c.paid = row[i].paid
  /\ c.status = "ABSENT" => row[i].status = "ABSENT" /\ row[i].deleted
  /\ \/ op \in {"create", "checkout", "patch"}
     \/ c.status \in {row[i].status, "VOID"}
  /\ \/ at = SaveAt(c) /\ op # "pay"
     \/ at = "check" /\ op = "checkout" /\ items[i].cart # << >>
     \/ at = "insert" /\ op = "pay"
  /\ op = "checkout" /\ ~AllowNegative => at = "check"

LEMMA BegunAs ==
  ASSUME TypeOK, NEW r \in Requests, Begins(r)
  PROVE  \E op \in Ops, i \in Invoices, c \in Row, cart \in Carts, at \in Points \ {"move"} :
           Begin(r, op, i, c, cart, at) /\ Started(op, i, c, at)
<1>0. /\ \A c : SaveAt(c) \in Points \ {"move"}
      /\ {"check", "insert"} \subseteq Points \ {"move"}
      /\ Ops = {"create", "checkout", "void", "pay", "patch", "destroy", "restore"}
      /\ Status = {"DRAFT", "POSTED", "VOID"}
  BY DEF SaveAt, Points, Ops, Status
<1>1. PICK i \in Invoices :
        \/ \E s \in Status, cart \in Carts : BeginCreate(r, i, s, cart)
        \/ BeginCheckout(r, i)
        \/ BeginVoid(r, i)
        \/ BeginPay(r, i)
        \/ \E s \in Status, cart \in Carts : BeginPatch(r, i, s, cart)
        \/ BeginDestroy(r, i)
        \/ BeginRestore(r, i)
  BY DEF Begins
<1>2. row[i] \in Row /\ items[i].cart \in Carts
  BY DEF TypeOK, Lines
<1>3. ASSUME NEW s \in Status, NEW cart \in Carts,
             NEW op \in {"create", "patch", "checkout", "void"}, NEW at \in Points \ {"move"},
             op = "void" => s = "VOID",
             at # SaveAt([row[i] EXCEPT !.status = s]) =>
               at = "check" /\ op = "checkout" /\ items[i].cart # << >>,
             op = "checkout" /\ ~AllowNegative => at = "check",
             Begin(r, op, i, [row[i] EXCEPT !.status = s], cart, at)
      PROVE  \E o \in Ops, c \in Row, k \in Carts, a \in Points \ {"move"} :
               Begin(r, o, i, c, k, a) /\ Started(o, i, c, a)
  <2> DEFINE c == [row[i] EXCEPT !.status = s]
  <2>1. c \in Row
    BY <1>2, CopyType
  <2>2. c.number = row[i].number /\ c.paid = row[i].paid /\ c.status = s
    BY <1>2 DEF Row
  <2>3. Started(op, i, c, at)
    BY <1>0, <1>3, <2>2 DEF Started
  <2>4. Begin(r, op, i, c, cart, at)
    BY <1>3
  <2> HIDE DEF c
  <2>5. QED BY <1>0, <2>1, <2>3, <2>4
<1>4. ASSUME NEW d \in BOOLEAN, NEW op \in {"destroy", "restore"},
             op = "destroy" => row[i].status # "ABSENT", op = "restore" => row[i].deleted,
             Begin(r, op, i, [row[i] EXCEPT !.deleted = d], items[i].cart, SaveAt(row[i]))
      PROVE  \E o \in Ops, c \in Row, k \in Carts, a \in Points \ {"move"} :
               Begin(r, o, i, c, k, a) /\ Started(o, i, c, a)
  <2> DEFINE c == [row[i] EXCEPT !.deleted = d]
  <2>1. c \in Row
    BY <1>2, CopyType
  <2>2. c.number = row[i].number /\ c.paid = row[i].paid /\ c.status = row[i].status
    BY <1>2 DEF Row
  <2>3. SaveAt(c) = SaveAt(row[i])
    BY <2>2 DEF SaveAt
  <2>4. Started(op, i, c, SaveAt(c))
    BY <1>4, <2>2 DEF Started
  <2>5. Begin(r, op, i, c, items[i].cart, SaveAt(c))
    BY <1>4, <2>3
  <2> HIDE DEF c
  <2>6. QED BY <1>0, <1>2, <2>1, <2>4, <2>5
<1>5. CASE \E s \in Status, cart \in Carts : BeginCreate(r, i, s, cart) \/ BeginPatch(r, i, s, cart)
  BY <1>0, <1>3, <1>5 DEF BeginCreate, BeginPatch
<1>6. CASE BeginCheckout(r, i)
  BY <1>0, <1>2, <1>3, <1>6 DEF BeginCheckout
<1>7. CASE BeginVoid(r, i)
  <2>1. SaveAt([row[i] EXCEPT !.status = "VOID"]) = "old"
    BY <1>2 DEF SaveAt, Row
  <2>2. QED BY <1>0, <1>2, <1>3, <1>7, <2>1 DEF BeginVoid
<1>8. CASE BeginPay(r, i)
  <2>1. Started("pay", i, row[i], "insert")
    BY <1>8 DEF BeginPay, Started, Visible
  <2>2. QED BY <1>0, <1>2, <1>8, <2>1 DEF BeginPay
<1>9. CASE BeginDestroy(r, i)
  BY <1>4, <1>9 DEF BeginDestroy, Visible
<1>10. CASE BeginRestore(r, i)
  BY <1>4, <1>10 DEF BeginRestore
<1>11. QED BY <1>1, <1>5, <1>6, <1>7, <1>8, <1>9, <1>10

LEMMA BeginsTyped ==
  ASSUME TypeOK, NEW r \in Requests, Begins(r)
  PROVE  TypeOK'
<1>1. PICK op \in Ops, i \in Invoices, c \in Row, cart \in Carts, at \in Points \ {"move"} :
        Begin(r, op, i, c, cart, at) /\ Started(op, i, c, at)
  BY BegunAs
<1>2. at = "check" => items[i].cart # << >>
  BY <1>1 DEF Started, SaveAt
<1>3. QED BY <1>1, <1>2, BeginTyped

LEMMA InitTyped == Init => TypeOK
<1>1. NoCopy \in Row /\ NoStock \in [Stocked -> Int]
  BY DEF NoCopy, NoStock, Row, Status
<1>2. \A i \in Invoices :
        [NoCopy EXCEPT !.status = IF i \in Drafts THEN "DRAFT" ELSE "ABSENT"] \in Row
  <2>1. \A s \in {"DRAFT", "ABSENT"} : [NoCopy EXCEPT !.status = s] \in Row
    BY <1>1 DEF Row, Status
  <2>2. QED BY <2>1
<1>3. \A i \in Invoices : [cart |-> StartCart[i], edition |-> 0] \in Lines
  BY SalesConstants DEF Lines
<1> SUFFICES ASSUME Init PROVE TypeOK
  OBVIOUS
<1>4. /\ row \in [Invoices -> Row] /\ items \in [Invoices -> Lines]
      /\ stock \in [Stocked -> Int] /\ payments \in [Invoices -> Int] /\ ledger \in [Stocked -> Int]
      /\ seen \in [Requests -> [Stocked -> Int]] /\ moved \in [Requests -> [Stocked -> Int]]
      /\ copy \in [Requests -> Row]
  BY <1>1, <1>2, <1>3, SalesConstants DEF Init
<1>5. /\ sold \in [Invoices -> Nat] /\ returned \in [Invoices -> Nat] /\ reopened \in [Invoices -> BOOLEAN]
      /\ issued \subseteq Nat \X Invoices /\ late \subseteq Requests /\ astray \subseteq Invoices
  BY DEF Init
<1>6. QED BY <1>4, <1>5, SalesConstants DEF Init, TypeOK, Points

\* Every variable keeps its type, and a loop over the lines never runs past the last one.
THEOREM Typing == Spec => []TypeOK
<1>1. ASSUME TypeOK, [Next]_vars PROVE TypeOK'
  <2>1. CASE UNCHANGED vars
    BY <1>1, <2>1
    DEF TypeOK, Cart, vars, dbVars, lockVars, localVars, history
  <2>2. CASE Next
    <3>1. PICK r \in Requests : Begins(r) \/ Step(r) \/ Fail(r)
      BY <2>2 DEF Next
    <3>2. QED BY <1>1, <3>1, BeginsTyped, StepTyped, RollbackTyped DEF Fail
  <2>3. QED BY <1>1, <2>1, <2>2
<1>2. QED BY <1>1, InitTyped, PTL DEF Spec

----------------------------------------------------------------------------
(* Stock *)

\* The points at which a request may hold the lock of a stock row.
MayHold(r) == \/ pc[r] \in {"check", "move", "release"}
              \/ pc[r] \in {"number", "old", "write"} /\ Atomic(r)

\* What a request read under a lock is still the committed quantity, it moves only rows
\* it has locked, and it locks rows only at points its transaction covers.
StockInv ==
  /\ \A r \in Requests : pc[r] = "check" => Atomic(r)
  /\ \A r \in Requests, v \in Stocked :
       stockLock[v] = r => MayHold(r) /\ seen[r][v] = stock[v]
  /\ \A r \in Requests, v \in Stocked : moved[r][v] # 0 => stockLock[v] = r
  /\ NoLostStockWrite

LEMMA StockInit == Init => StockInv
BY SalesConstants DEF Init, StockInv, NoLostStockWrite, NoStock

LEMMA StockBegins ==
  ASSUME TypeOK, StockInv, NEW r \in Requests, Begins(r)
  PROVE  StockInv'
<1>1. PICK op \in Ops, i \in Invoices, c \in Row, cart \in Carts, at \in Points \ {"move"} :
        Begin(r, op, i, c, cart, at) /\ Started(op, i, c, at)
  BY BegunAs
<1>2. at = "check" => op = "checkout"
  BY <1>1 DEF Started, SaveAt
<1>3. QED
  BY <1>1, <1>2 DEF Begin, StockInv, MayHold, NoLostStockWrite, Atomic, TypeOK,
    dbVars, lockVars, history

\* A commit takes from each row what the request moved, and no other request holds the rows.
LEMMA StockMoved ==
  ASSUME TypeOK, StockInv, NEW r \in Requests, StockCommitted(r)
  PROVE  \A v \in Stocked :
           /\ stock'[v] = stock[v] - moved[r][v]
           /\ stock'[v] = Opening[v] - ledger'[v]
           /\ stockLock[v] # r => stock'[v] = stock[v]
<1>1. \A v \in Stocked : moved[r][v] \in Int /\ stock[v] \in Int /\ ledger[v] \in Int /\ Opening[v] \in Int
  BY SalesConstants DEF TypeOK
<1>2. \A v \in Stocked :
        stock'[v] = stock[v] - moved[r][v] /\ ledger'[v] = ledger[v] + moved[r][v]
  BY <1>1 DEF StockInv, StockCommitted, StockAfter
<1>3. \A v \in Stocked : stockLock[v] # r => moved[r][v] = 0
  BY DEF StockInv
<1>4. QED BY <1>1, <1>2, <1>3 DEF StockInv, NoLostStockWrite

\* A transaction that ends lets go of its rows.
LEMMA StockReleased ==
  ASSUME TypeOK, StockInv, NEW r \in Requests, Released(r)
  PROVE  \A q \in Requests, v \in Stocked :
           /\ stockLock'[v] # r
           /\ stockLock'[v] = q => q # r /\ stockLock[v] = q
           /\ moved'[q][v] # 0 => q # r /\ stockLock'[v] = q
BY SalesConstants DEF Released, StockInv, TypeOK, NoStock

LEMMA StockRollback ==
  ASSUME TypeOK, StockInv, NEW r \in Requests, Rollback(r)
  PROVE  StockInv'
<1>1. \A q \in Requests \ {r} : pc'[q] = pc[q] /\ job'[q] = job[q] /\ seen'[q] = seen[q]
  BY DEF Rollback, Answered, TypeOK
<1>2. pc'[r] = "idle"
  BY DEF Rollback, Answered, TypeOK
<1>3. \A q \in Requests \ {r} : MayHold(q)' = MayHold(q)
  BY <1>1 DEF MayHold, Atomic
<1>4. NoLostStockWrite'
  BY DEF Rollback, StockInv, NoLostStockWrite, dbVars, history
<1>5. stock' = stock
  BY DEF Rollback, dbVars
<1>6. QED
  BY <1>1, <1>2, <1>3, <1>4, <1>5, StockReleased DEF Rollback, StockInv, Atomic

LEMMA StockStep ==
  ASSUME TypeOK, StockInv, NEW r \in Requests, Step(r)
  PROVE  StockInv'
<1>1. SaveAt(copy[r]) \in {"number", "old"}
  BY DEF SaveAt
<1>2. CASE CheckLine(r)
  <2>1. AtVariant(r) \in Stocked
    BY <1>2 DEF CheckLine, Covers
  <2>2. /\ \A v \in Stocked : stockLock'[v] = IF v = AtVariant(r) THEN r ELSE stockLock[v]
        /\ \A q \in Requests, v \in Stocked :
             seen'[q][v] = IF q = r /\ v = AtVariant(r) /\ stockLock[v] # r
                           THEN stock[v] ELSE seen[q][v]
    BY <1>2, <2>1 DEF CheckLine, Locked, TypeOK
  <2>3. stockLock[AtVariant(r)] \in {r, Nobody}
    BY <1>2 DEF CheckLine, CanLock
  <2>4. \A q \in Requests : q # r => pc'[q] = pc[q]
    BY <1>2 DEF CheckLine, NextLine, TypeOK
  <2>5. pc'[r] \in {"check", "number", "old"} /\ Atomic(r)
    BY <1>1, <1>2 DEF CheckLine, NextLine, TypeOK, StockInv
  <2>6. \A q \in Requests : Atomic(q)' = Atomic(q)
    BY <1>2 DEF CheckLine, Atomic
  <2>7. QED
    BY <1>2, <2>2, <2>3, <2>4, <2>5, <2>6, SalesConstants
    DEF CheckLine, StockInv, MayHold, NoLostStockWrite, dbVars, history
<1>3. CASE Shortage(r)
  BY <1>3, StockRollback DEF Shortage
<1>4. CASE InsertPayment(r) \/ SumPayments(r)
  <2>1. pc[r] \in {"insert", "sum"} /\ pc'[r] \in {"sum", "number", "old"}
    BY <1>1, <1>4 DEF InsertPayment, SumPayments, TypeOK
  <2>2. \A q \in Requests : q # r => pc'[q] = pc[q]
    BY <1>4 DEF InsertPayment, SumPayments, TypeOK
  <2>3. UNCHANGED <<job, stock, stockLock, seen, moved, ledger>>
    BY <1>4 DEF InsertPayment, SumPayments, dbVars, lockVars, history
  <2>4. QED BY <2>1, <2>2, <2>3 DEF StockInv, MayHold, Atomic, NoLostStockWrite
<1>5. CASE Number(r)
  BY <1>5 DEF Number, StockInv, MayHold, Atomic, NoLostStockWrite, TypeOK, dbVars, history
<1>6. CASE ReadOld(r)
  BY <1>6 DEF ReadOld, StockInv, MayHold, Atomic, NoLostStockWrite, TypeOK, dbVars, lockVars, history
<1>7. ASSUME NEW sign \in {1, -1}, Take(r, sign)
      PROVE  StockInv'
  <2>1. \A q \in Requests : q # r => pc'[q] = pc[q]
    BY <1>7 DEF Take, NextLine, TypeOK
  <2>2. pc'[r] \in {"move", "release"} \/ (pc'[r] = "write" /\ Atomic(r))
    BY <1>7 DEF Take, NextLine, TypeOK
  <2>3. \A q \in Requests : Atomic(q)' = Atomic(q)
    BY <1>7 DEF Take, Atomic
  <2>4. \A q \in Requests : q # r => MayHold(q)' = MayHold(q)
    BY <2>1, <2>3 DEF MayHold
  <2>5. MayHold(r)'
    BY <2>2, <2>3 DEF MayHold
  <2>6. CASE AtVariant(r) \in Stocked
    <3>1. /\ \A v \in Stocked : stockLock'[v] = IF v = AtVariant(r) THEN r ELSE stockLock[v]
          /\ \A q \in Requests, v \in Stocked :
               seen'[q][v] = IF q = r /\ v = AtVariant(r) /\ stockLock[v] # r
                             THEN stock[v] ELSE seen[q][v]
      <4>1. Locked(r, AtVariant(r))
        BY <1>7, <2>6 DEF Take
      <4>2. QED BY <2>6, <4>1 DEF Locked, TypeOK
    <3>2. \A q \in Requests, v \in Stocked :
            q # r \/ v # AtVariant(r) => moved'[q][v] = moved[q][v]
      BY <1>7, <2>6 DEF Take, TypeOK
    <3>3. stockLock[AtVariant(r)] \in {r, Nobody}
      BY <1>7, <2>6 DEF Take, CanLock
    <3>4. QED
      BY <1>7, <2>1, <2>2, <2>3, <2>4, <2>5, <2>6, <3>1, <3>2, <3>3, SalesConstants
      DEF Take, StockInv, NoLostStockWrite, dbVars, history
  <2>7. CASE AtVariant(r) \notin Stocked
    BY <1>7, <2>1, <2>2, <2>3, <2>4, <2>5, <2>7
    DEF Take, StockInv, NoLostStockWrite, dbVars, history
  <2>8. QED BY <2>6, <2>7
<1>8. CASE MoveOut(r) \/ MoveBack(r)
  BY <1>7, <1>8 DEF MoveOut, MoveBack
<1>9. CASE LineGone(r)
  BY <1>9, StockRollback DEF LineGone
<1>10. CASE Release(r)
  <2>1. \A q \in Requests : q # r => MayHold(q)' = MayHold(q)
    BY <1>10 DEF Release, MayHold, Atomic, TypeOK
  <2>2. \A q \in Requests : pc'[q] = "check" => Atomic(q)'
    BY <1>10 DEF Release, Atomic, TypeOK, StockInv
  <2>3. \A q \in Requests, v \in Stocked : stockLock'[v] = q => MayHold(q)' /\ seen'[q][v] = stock'[v]
    BY <1>10, <2>1, StockMoved, StockReleased DEF Release, StockInv
  <2>4. QED BY <1>10, <2>2, <2>3, StockMoved, StockReleased DEF Release, StockInv, NoLostStockWrite
<1>11. CASE Update(r)
  <2>1. \A v \in Stocked : stockLock[v] # r
    BY <1>11 DEF Update, StockInv, MayHold
  <2>2. \A q \in Requests : q # r => MayHold(q)' = MayHold(q) /\ seen'[q] = seen[q] /\ pc'[q] = pc[q]
    BY <1>11 DEF Update, Answered, MayHold, Atomic, TypeOK
  <2>3. pc'[r] = "idle"
    BY <1>11 DEF Update, Answered, TypeOK
  <2>4. \A q \in Requests : pc'[q] = "check" => Atomic(q)'
    BY <1>11, <2>2, <2>3 DEF Update, Answered, Atomic, TypeOK, StockInv
  <2>5. QED BY <1>11, <2>1, <2>2, <2>3, <2>4 DEF Update, StockInv, NoLostStockWrite, lockVars
<1>12. CASE Commit(r)
  <2>1. \A q \in Requests : q # r => MayHold(q)' = MayHold(q) /\ seen'[q] = seen[q] /\ pc'[q] = pc[q]
    BY <1>12 DEF Commit, Answered, MayHold, Atomic, TypeOK
  <2>2. pc'[r] = "idle"
    BY <1>12 DEF Commit, Answered, TypeOK
  <2>3. \A q \in Requests : pc'[q] = "check" => Atomic(q)'
    BY <1>12, <2>1, <2>2 DEF Commit, Answered, Atomic, TypeOK, StockInv
  <2>4. \A q \in Requests, v \in Stocked : stockLock'[v] = q => MayHold(q)' /\ seen'[q][v] = stock'[v]
    BY <1>12, <2>1, StockMoved, StockReleased DEF Commit, StockInv
  <2>5. QED BY <1>12, <2>3, <2>4, StockMoved, StockReleased DEF Commit, StockInv, NoLostStockWrite
<1>13. CASE BreakDeadlock(r)
  BY <1>13, StockRollback DEF BreakDeadlock
<1>14. QED
  BY <1>2, <1>3, <1>4, <1>5, <1>6, <1>8, <1>9, <1>10, <1>11, <1>12, <1>13 DEF Step

LEMMA StockAlways == Spec => []StockInv
<1>1. ASSUME TypeOK, StockInv, [Next]_vars PROVE StockInv'
  <2>1. CASE UNCHANGED vars
    BY <1>1, <2>1
    DEF StockInv, MayHold, Atomic, NoLostStockWrite, vars, dbVars, lockVars, localVars, history
  <2>2. CASE Next
    <3>1. PICK r \in Requests : Begins(r) \/ Step(r) \/ Fail(r)
      BY <2>2 DEF Next
    <3>2. QED BY <1>1, <3>1, StockBegins, StockStep, StockRollback DEF Fail
  <2>3. QED BY <1>1, <2>1, <2>2
<1>2. QED BY <1>1, StockInit, Typing, PTL DEF Spec

\* The locks of handle_sale_stock and checkout protect the stock rows: no committed
\* movement is overwritten by another request's.
THEOREM StockSafety == Spec => []NoLostStockWrite
<1>1. StockInv => NoLostStockWrite
  BY DEF StockInv
<1>2. QED BY <1>1, StockAlways, PTL

----------------------------------------------------------------------------
(* Numbers *)

\* A request changes nothing of another request's memory.
LEMMA Local ==
  ASSUME TypeOK, NEW r \in Requests, Begins(r) \/ Step(r) \/ Rollback(r),
         NEW q \in Requests, q # r
  PROVE  /\ pc'[q] = pc[q] /\ job'[q] = job[q] /\ copy'[q] = copy[q]
         /\ fresh'[q] = fresh[q] /\ moved'[q] = moved[q]
<1>1. CASE Rollback(r)
  BY <1>1 DEF Rollback, Released, Answered, TypeOK
<1>2. CASE Begins(r)
  BY <1>2, BegunAs DEF Begin, TypeOK
<1>3. CASE Step(r)
  <2>1. CASE CheckLine(r) \/ InsertPayment(r) \/ SumPayments(r) \/ Number(r) \/ ReadOld(r)
    BY <2>1 DEF CheckLine, InsertPayment, SumPayments, Number, ReadOld, NextLine, TypeOK
  <2>2. CASE Shortage(r) \/ LineGone(r) \/ BreakDeadlock(r)
    BY <1>1, <2>2 DEF Shortage, LineGone, BreakDeadlock
  <2>3. CASE MoveOut(r) \/ MoveBack(r)
    BY <2>3 DEF MoveOut, MoveBack, Take, NextLine, TypeOK
  <2>4. CASE Release(r) \/ Update(r) \/ Commit(r)
    BY <2>4 DEF Release, Update, Commit, Released, Answered, TypeOK
  <2>5. QED BY <1>3, <2>1, <2>2, <2>3, <2>4 DEF Step
<1>4. QED BY <1>1, <1>2, <1>3

\* What holds of a request in progress about the number in its copy.
NumberHeld(r) ==
  /\ pc[r] \in {"check", "number"} => Atomic(r)
  /\ pc[r] = "number" => copy[r].status = "POSTED"
  /\ fresh[r] => /\ pc[r] \in {"old", "move", "write"} /\ Atomic(r) /\ seqLock = r
                 /\ copy[r].status = "POSTED" /\ copy[r].number = seq + 1
  /\ pc[r] # "idle" /\ ~fresh[r] /\ copy[r].number # 0 => <<copy[r].number, job[r].inv>> \in issued
  /\ pc[r] \notin {"idle", "check", "number"} /\ copy[r].status = "POSTED" => copy[r].number # 0

\* Numbers are handed out by the holder of the sequence row only, in order, and a number in
\* a copy was given to its invoice or is the next one.
NumberInv ==
  /\ NumbersAreUnique
  /\ \A n \in issued : 0 < n[1] /\ n[1] <= seq
  /\ \A r \in Requests : NumberHeld(r)

LEMMA NumberInit == Init => NumberInv
BY DEF Init, NumberInv, NumberHeld, NumbersAreUnique, NoCopy

\* Another request's part is untouched while the sequence and its lock are.
LEMMA NumberFrame ==
  ASSUME TypeOK, NumberInv, NEW r \in Requests, Begins(r) \/ Step(r) \/ Rollback(r),
         seq' = seq, issued \subseteq issued',
         \A q \in Requests \ {r} : seqLock = q => seqLock' = q
  PROVE  \A q \in Requests \ {r} : NumberHeld(q)'
BY Local DEF NumberInv, NumberHeld, Atomic

LEMMA NumberRollback ==
  ASSUME TypeOK, NumberInv, NEW r \in Requests, Rollback(r)
  PROVE  NumberInv'
<1>1. UNCHANGED <<seq, issued, row>>
  BY DEF Rollback, dbVars, history
<1>2. \A q \in Requests \ {r} : seqLock = q => seqLock' = q
  BY DEF Rollback, Released
<1>3. NumberHeld(r)'
  BY DEF Rollback, Released, Answered, NumberHeld, TypeOK
<1>4. QED BY <1>1, <1>2, <1>3, NumberFrame DEF NumberInv, NumbersAreUnique

LEMMA NumberBegins ==
  ASSUME TypeOK, NumberInv, NEW r \in Requests, Begins(r)
  PROVE  NumberInv'
<1>1. PICK op \in Ops, i \in Invoices, c \in Row, cart \in Carts, at \in Points \ {"move"} :
        Begin(r, op, i, c, cart, at) /\ Started(op, i, c, at)
  BY BegunAs
<1>2. UNCHANGED <<seq, issued, row, seqLock, fresh>>
  BY <1>1 DEF Begin, dbVars, lockVars, history
<1>3. pc[r] = "idle" /\ pc'[r] = at /\ copy'[r] = c /\ job'[r].inv = i /\ job'[r].op = op
  BY <1>1 DEF Begin, TypeOK
<1>4. c.number # 0 => <<c.number, i>> \in issued
  BY <1>1 DEF Started, NumberInv, NumbersAreUnique
<1>5. ~fresh'[r]
  BY <1>2, <1>3 DEF NumberInv, NumberHeld
<1>6. row[i].status = "POSTED" => row[i].number # 0
  BY DEF NumberInv, NumbersAreUnique
<1>7. at \in {"check", "number"} => op \in {"create", "checkout", "patch"}
  BY <1>1, <1>6 DEF Started, SaveAt
<1>8. at = "number" => c.status = "POSTED"
  BY <1>1 DEF Started, SaveAt
<1>9. at \notin {"idle", "check", "number"} /\ c.status = "POSTED" => c.number # 0
  BY <1>1, <1>6 DEF Started, SaveAt
<1>10. NumberHeld(r)'
  BY <1>2, <1>3, <1>4, <1>5, <1>7, <1>8, <1>9 DEF NumberHeld, Atomic
<1>11. QED BY <1>2, <1>10, NumberFrame DEF NumberInv, NumbersAreUnique

LEMMA NumberStep ==
  ASSUME TypeOK, NumberInv, NEW r \in Requests, Step(r)
  PROVE  NumberInv'
<1>0. /\ NumberHeld(r) /\ NumbersAreUnique
      /\ pc[r] # "idle" => job[r].inv \in Invoices
      /\ copy[r].number \in Nat /\ seq \in Nat
  BY DEF NumberInv, TypeOK, Job, Row
<1>1. CASE CheckLine(r) \/ InsertPayment(r)
  <2>1. UNCHANGED <<seq, issued, row, seqLock, job, copy, fresh>>
    BY <1>1 DEF CheckLine, InsertPayment, dbVars, lockVars, history
  <2>2. pc'[r] \in {"check", "sum", SaveAt(copy[r])}
    BY <1>1 DEF CheckLine, InsertPayment, NextLine, TypeOK
  <2>3. pc'[r] \in {"check", SaveAt(copy[r])} => pc[r] = "check"
    BY <1>1 DEF CheckLine, InsertPayment, NextLine, SaveAt, TypeOK
  <2>4. pc'[r] = "sum" => pc[r] = "insert"
    BY <1>1 DEF CheckLine, InsertPayment, NextLine, SaveAt, TypeOK
  <2>5. NumberHeld(r)'
    BY <1>0, <2>1, <2>2, <2>3, <2>4 DEF NumberHeld, Atomic, SaveAt
  <2>6. QED BY <1>1, <2>1, <2>5, NumberFrame DEF NumberInv, NumbersAreUnique, Step
<1>2. CASE SumPayments(r)
  <2>1. UNCHANGED <<seq, issued, row, seqLock, job, fresh>> /\ pc[r] = "sum"
    BY <1>2 DEF SumPayments, dbVars, lockVars, history
  <2>2. copy'[r].status = copy[r].status /\ copy'[r].number = copy[r].number
    BY <1>2 DEF SumPayments, TypeOK, Row
  <2>3. pc'[r] = "old"
    BY <1>0, <1>2, <2>1 DEF SumPayments, NumberHeld, SaveAt, TypeOK
  <2>4. NumberHeld(r)'
    BY <1>0, <2>1, <2>2, <2>3 DEF NumberHeld, Atomic
  <2>5. QED BY <1>2, <2>1, <2>4, NumberFrame DEF NumberInv, NumbersAreUnique, Step
<1>3. CASE Number(r)
  <2>1. UNCHANGED <<seq, issued, row, job>> /\ pc[r] = "number" /\ pc'[r] = "old"
    BY <1>3 DEF Number, dbVars, history, TypeOK
  <2>2. copy'[r].status = copy[r].status /\ copy'[r].number = seq + 1 /\ fresh'[r]
    BY <1>3 DEF Number, TypeOK, Row
  <2>3. seqLock' = r /\ seqLock \in {r, Nobody}
    BY <1>3 DEF Number, CanNumber
  <2>4. NumberHeld(r)'
    BY <1>0, <2>1, <2>2, <2>3 DEF NumberHeld, Atomic
  <2>5. QED
    BY <1>3, <2>1, <2>3, <2>4, NumberFrame, SalesConstants DEF NumberInv, NumbersAreUnique, Step
<1>4. CASE ReadOld(r) \/ MoveOut(r) \/ MoveBack(r)
  <2>1. UNCHANGED <<seq, issued, row, seqLock, job, copy, fresh>>
    BY <1>4 DEF ReadOld, MoveOut, MoveBack, Take, dbVars, lockVars, history
  <2>2. /\ pc[r] \in {"old", "move"}
        /\ pc'[r] \in {"move", "write", "release"}
        /\ pc'[r] = "release" => ~Atomic(r)
    BY <1>4 DEF ReadOld, MoveOut, MoveBack, Take, NextLine, TypeOK
  <2>3. NumberHeld(r)'
    BY <1>0, <2>1, <2>2 DEF NumberHeld, Atomic
  <2>4. QED BY <1>4, <2>1, <2>3, NumberFrame DEF NumberInv, NumbersAreUnique, Step
<1>5. CASE Release(r)
  <2>1. UNCHANGED <<seq, issued, row, job, copy>> /\ pc[r] = "release" /\ pc'[r] = "write" /\ ~fresh'[r]
    BY <1>5 DEF Release, Released, TypeOK
  <2>2. \A q \in Requests \ {r} : seqLock = q => seqLock' = q
    BY <1>5 DEF Release, Released
  <2>3. NumberHeld(r)'
    BY <1>0, <2>1 DEF NumberHeld
  <2>4. QED BY <1>5, <2>1, <2>2, <2>3, NumberFrame DEF NumberInv, NumbersAreUnique, Step
<1>6. CASE Update(r)
  <2>1. UNCHANGED <<seq, issued, seqLock, fresh>> /\ ~fresh[r] /\ pc[r] = "write" /\ pc'[r] = "idle"
    BY <1>0, <1>6 DEF Update, Answered, NumberHeld, lockVars, TypeOK
  <2>2. \A i \in Invoices : row'[i] = IF i = job[r].inv THEN copy[r] ELSE row[i]
    BY <1>6 DEF Update, RowWritten, TypeOK
  <2>3. NumbersAreUnique'
    BY <1>0, <2>1, <2>2 DEF NumbersAreUnique, NumberHeld
  <2>4. NumberHeld(r)'
    BY <2>1 DEF NumberHeld
  <2>5. QED BY <1>6, <2>1, <2>3, <2>4, NumberFrame DEF NumberInv, Step
<1>7. CASE Commit(r)
  <2>1. pc[r] = "write" /\ pc'[r] = "idle" /\ ~fresh'[r]
    BY <1>7 DEF Commit, Answered, Released, TypeOK
  <2>2. \A i \in Invoices : row'[i] = IF i = job[r].inv THEN copy[r] ELSE row[i]
    BY <1>7 DEF Commit, RowWritten, TypeOK
  <2>3. NumberHeld(r)'
    BY <2>1 DEF NumberHeld
  <2>4. \A q \in Requests \ {r} : seqLock = q => seqLock' = q
    BY <1>7 DEF Commit, Released
  <2>5. CASE ~fresh[r]
    <3>1. UNCHANGED <<seq, issued>>
      BY <1>7, <2>5 DEF Commit
    <3>2. NumbersAreUnique'
      BY <1>0, <2>1, <2>2, <2>5, <3>1 DEF NumbersAreUnique, NumberHeld
    <3>3. QED BY <1>7, <2>3, <2>4, <3>1, <3>2, NumberFrame DEF NumberInv, Step
  <2>6. CASE fresh[r]
    <3>1. seq' = seq + 1 /\ copy[r].number = seq + 1 /\ seqLock = r
      BY <1>0, <1>7, <2>6 DEF Commit, NumberHeld
    <3>2. issued' = issued \cup {<<seq + 1, job[r].inv>>}
      BY <1>7, <2>6, <3>1 DEF Commit
    <3>3. \A n \in issued : n[1] \in Nat /\ n[1] <= seq /\ 0 < n[1]
      BY DEF NumberInv, TypeOK
    <3>4. NumbersAreUnique'
      <4>1. \A m, n \in issued' : m[1] = n[1] => m[2] = n[2]
        BY <1>0, <3>2, <3>3 DEF NumbersAreUnique
      <4>2. QED BY <1>0, <2>1, <2>2, <3>1, <3>2, <4>1 DEF NumbersAreUnique
    <3>5. \A n \in issued' : 0 < n[1] /\ n[1] <= seq'
      BY <1>0, <3>1, <3>2, <3>3
    <3>6. \A q \in Requests \ {r} : ~fresh[q]
      BY <3>1 DEF NumberInv, NumberHeld
    <3>7. \A q \in Requests \ {r} : NumberHeld(q)'
      <4> SUFFICES ASSUME NEW q \in Requests \ {r}
                   PROVE  NumberHeld(q)'
        OBVIOUS
      <4>1. /\ pc'[q] = pc[q] /\ job'[q] = job[q] /\ copy'[q] = copy[q] /\ ~fresh'[q]
        BY <1>7, <3>6, Local DEF Step
      <4>2. NumberHeld(q) /\ ~fresh[q] /\ issued \subseteq issued'
        BY <3>2, <3>6 DEF NumberInv
      <4>3. QED BY <4>1, <4>2 DEF NumberHeld, Atomic
    <3>8. QED BY <2>3, <3>4, <3>5, <3>7 DEF NumberInv
  <2>7. QED BY <2>5, <2>6
<1>8. CASE Shortage(r) \/ LineGone(r) \/ BreakDeadlock(r)
  BY <1>8, NumberRollback DEF Shortage, LineGone, BreakDeadlock
<1>9. QED BY <1>1, <1>2, <1>3, <1>4, <1>5, <1>6, <1>7, <1>8 DEF Step

LEMMA NumberAlways == Spec => []NumberInv
<1>1. ASSUME TypeOK, NumberInv, [Next]_vars PROVE NumberInv'
  <2>1. CASE UNCHANGED vars
    BY <1>1, <2>1
    DEF NumberInv, NumberHeld, Atomic, NumbersAreUnique, vars, dbVars, lockVars, localVars, history
  <2>2. CASE Next
    <3>1. PICK r \in Requests : Begins(r) \/ Step(r) \/ Fail(r)
      BY <2>2 DEF Next
    <3>2. QED BY <1>1, <3>1, NumberBegins, NumberStep, NumberRollback DEF Fail
  <2>3. QED BY <1>1, <2>1, <2>2
<1>2. QED BY <1>1, NumberInit, Typing, PTL DEF Spec

\* SalesInvoice.save never gives two invoices one number, nor posts a row without one.
THEOREM NumberSafety == Spec => []NumbersAreUnique
<1>1. NumberInv => NumbersAreUnique
  BY DEF NumberInv
<1>2. QED BY <1>1, NumberAlways, PTL

\* The sequence never skips a number, whatever fails: each advance is one, and is the
\* number a row takes in the same transaction.
THEOREM NumberGapless == Spec => GaplessNumbers
<1>1. ASSUME TypeOK, NumberInv, [Next]_vars PROVE [NumberTakenByARow]_vars
  <2>1. SUFFICES ASSUME Next, seq' # seq PROVE NumberTakenByARow
    BY <1>1 DEF NumberTakenByARow
  <2>2. PICK r \in Requests : Begins(r) \/ Step(r) \/ Rollback(r)
    BY <2>1 DEF Next, Fail
  <2>3. Commit(r) /\ fresh[r]
    <3>1. ~Rollback(r)
      BY <2>1 DEF Rollback, dbVars
    <3>2. ~Begins(r)
      BY <1>1, <2>1, BegunAs DEF Begin, dbVars
    <3>3. QED
      BY <2>1, <2>2, <3>1, <3>2
      DEF Step, CheckLine, Shortage, InsertPayment, SumPayments, Number, ReadOld, MoveOut, MoveBack,
          Take, LineGone, Release, Update, Commit, BreakDeadlock, dbVars
  <2>4. seq' = seq + 1 /\ copy[r].number = seq + 1 /\ job[r].inv \in Invoices
    BY <1>1, <2>3 DEF Commit, NumberInv, NumberHeld, TypeOK, Job
  <2>5. row'[job[r].inv] = copy[r]
    BY <1>1, <2>3, <2>4 DEF Commit, RowWritten, TypeOK
  <2>6. row[job[r].inv].number # seq + 1
    <3>1. seq \in Nat /\ seq + 1 # 0 /\ ~(seq + 1 <= seq)
      BY <1>1 DEF TypeOK
    <3>2. QED BY <1>1, <2>4, <3>1 DEF NumberInv, NumbersAreUnique
  <2>7. QED BY <2>4, <2>5, <2>6 DEF NumberTakenByARow
<1>2. QED BY <1>1, Typing, NumberAlways, PTL DEF Spec, GaplessNumbers

----------------------------------------------------------------------------
(* Payments *)

\* What a request that nobody made late knows of what is paid: the payer its sum, and the
\* others what they read in the row.
PaidKnown(r) ==
  /\ job[r].op # "pay" => copy[r].paid = row[job[r].inv].paid
  /\ Inserted(r) /\ pc[r] # "sum" => copy[r].paid = payments[job[r].inv]

PaidInv ==
  /\ PaidIsTheSum
  /\ \A r \in Requests : pc[r] \in {"insert", "sum"} => job[r].op = "pay"
  /\ \A r \in Requests \ late : pc[r] # "idle" => PaidKnown(r)

\* A row says what the sum of its payments is, but for payers that are on the way or were
\* lost and for saves by overtaken requests: a full save by anybody else writes back what
\* the row says already.
THEOREM PaidSafety == Spec => []PaidIsTheSum
<1>1. Init => PaidInv
  <2>1. Init => /\ \A i \in Invoices : row[i].paid = 0 /\ payments[i] = 0
                /\ \A r \in Requests : pc[r] = "idle"
    BY DEF Init, NoCopy
  <2>2. QED BY <2>1 DEF PaidInv, PaidIsTheSum
<1>2. ASSUME TypeOK, PaidInv, [Next]_vars PROVE PaidInv'
  <2>1. CASE UNCHANGED vars
    BY <1>2, <2>1 DEF PaidInv, PaidIsTheSum, PaidKnown, Inserted, vars, dbVars, localVars, history
  <2>2. ASSUME NEW r \in Requests, Rollback(r) PROVE PaidInv'
    <3>1. /\ pc'[r] = "idle" /\ UNCHANGED <<row, payments>> /\ late' = late \ {r}
          /\ \A q \in Requests \ {r} : pc'[q] = pc[q] /\ job'[q] = job[q] /\ copy'[q] = copy[q]
          /\ astray \subseteq astray' /\ (Inserted(r) => job[r].inv \in astray')
      BY <1>2, <2>2 DEF Rollback, Answered, TypeOK, dbVars
    <3>2. PaidIsTheSum'
      BY <1>2, <3>1 DEF PaidInv, PaidIsTheSum, Inserted
    <3>3. QED BY <1>2, <3>1, <3>2 DEF PaidInv, PaidKnown, Inserted
  <2>3. ASSUME NEW r \in Requests, Begins(r) PROVE PaidInv'
    <3>1. PICK op \in Ops, i \in Invoices, c \in Row, cart \in Carts, at \in Points \ {"move"} :
            Begin(r, op, i, c, cart, at) /\ Started(op, i, c, at)
      BY <1>2, <2>3, BegunAs
    <3>2. /\ UNCHANGED <<row, payments, late, astray>> /\ pc[r] = "idle"
          /\ copy'[r] = c /\ job'[r].inv = i /\ job'[r].op = op /\ pc'[r] = at
          /\ \A q \in Requests \ {r} : pc'[q] = pc[q] /\ job'[q] = job[q] /\ copy'[q] = copy[q]
      BY <1>2, <3>1 DEF Begin, TypeOK, dbVars, history
    <3>3. c.paid = row[i].paid /\ (op = "pay" => at = "insert") /\ (at \in {"insert", "sum"} => op = "pay")
      BY <3>1 DEF Started, SaveAt
    <3>4. PaidIsTheSum'
      BY <1>2, <3>2 DEF PaidInv, PaidIsTheSum, Inserted
    <3>5. QED BY <1>2, <3>2, <3>3, <3>4 DEF PaidInv, PaidKnown, Inserted
  <2>4. ASSUME NEW r \in Requests, Step(r) PROVE PaidInv'
    <3>0. \A q \in Requests : pc[q] # "idle" => job[q].inv \in Invoices
      BY <1>2 DEF TypeOK, Job
    <3>1. CASE InsertPayment(r)
      <4>1. /\ pc[r] = "insert" /\ pc'[r] = "sum" /\ UNCHANGED <<row, job, copy, astray>>
            /\ \A q \in Requests \ {r} : pc'[q] = pc[q]
            /\ \A q \in Requests \ late' : q \notin late
            /\ \A q \in Requests \ late' : Inserted(q) /\ pc[q] # "sum" => job[q].inv # job[r].inv
        BY <1>2, <3>1 DEF InsertPayment, TypeOK
      <4>2. \A i \in Invoices : i # job[r].inv => payments'[i] = payments[i]
        BY <1>2, <3>1 DEF InsertPayment, TypeOK
      <4>3. job[r].op = "pay"
        BY <1>2, <4>1 DEF PaidInv
      <4>4. PaidIsTheSum'
        BY <1>2, <4>1, <4>2, <4>3 DEF PaidInv, PaidIsTheSum, Inserted
      <4>5. ASSUME NEW q \in Requests \ late', pc'[q] # "idle" PROVE PaidKnown(q)'
        BY <1>2, <3>0, <4>1, <4>2, <4>3, <4>5 DEF PaidInv, PaidKnown, Inserted
      <4>6. QED BY <1>2, <4>1, <4>3, <4>4, <4>5 DEF PaidInv
    <3>2. CASE SumPayments(r)
      <4>1. /\ UNCHANGED <<row, payments, job, late, astray>> /\ copy'[r].paid = payments[job[r].inv]
            /\ pc[r] = "sum" /\ pc'[r] \in {"number", "old"}
            /\ \A q \in Requests \ {r} : pc'[q] = pc[q] /\ copy'[q] = copy[q]
        BY <1>2, <3>2 DEF SumPayments, SaveAt, TypeOK, Row, dbVars, history
      <4>2. job[r].op = "pay"
        BY <1>2, <4>1 DEF PaidInv
      <4>3. PaidIsTheSum'
        BY <1>2, <4>1, <4>2 DEF PaidInv, PaidIsTheSum, Inserted
      <4>4. QED BY <1>2, <4>1, <4>2, <4>3 DEF PaidInv, PaidKnown, Inserted
    <3>3. CASE Update(r) \/ Commit(r)
      <4>1. /\ pc[r] = "write" /\ pc'[r] = "idle" /\ UNCHANGED payments
            /\ \A i \in Invoices : row'[i] = IF i = job[r].inv THEN copy[r] ELSE row[i]
            /\ \A q \in Requests \ {r} : pc'[q] = pc[q] /\ job'[q] = job[q] /\ copy'[q] = copy[q]
            /\ astray' = IF r \in late THEN astray \cup {job[r].inv}
                         ELSE IF job[r].op = "pay" THEN astray \ {job[r].inv} ELSE astray
        BY <1>2, <3>3 DEF Update, Commit, Answered, RowWritten, TypeOK
      <4>2. /\ \A q \in Requests \ {r} : q \notin late' => q \notin late
            /\ \A q \in Requests \ {r} :
                 /\ q \notin late' /\ pc[q] # "idle" /\ job[q].inv = job[r].inv /\ job[q].op # "pay"
                 => copy[r].paid = row[job[r].inv].paid
        BY <3>3 DEF Update, Commit, RowWritten
      <4>3. PaidIsTheSum'
        <5> SUFFICES ASSUME NEW i \in Invoices, row'[i].paid # payments[i]
                     PROVE  i \in astray' \/ \E q \in Requests : Inserted(q)' /\ job'[q].inv = i
          BY <4>1 DEF PaidIsTheSum
        <5>1. CASE i # job[r].inv
          <6>1. i \in astray \/ \E q \in Requests : Inserted(q) /\ job[q].inv = i
            BY <1>2, <4>1, <5>1 DEF PaidInv, PaidIsTheSum
          <6>2. QED BY <4>1, <5>1, <6>1 DEF Inserted
        <5>2. CASE i = job[r].inv /\ r \notin late
          <6>1. PaidKnown(r)
            BY <1>2, <4>1, <5>2 DEF PaidInv
          <6>2. job[r].op # "pay" /\ row[i].paid # payments[i]
            BY <4>1, <5>2, <6>1 DEF PaidKnown, Inserted
          <6>3. i \in astray \/ \E q \in Requests : Inserted(q) /\ job[q].inv = i
            BY <1>2, <6>2 DEF PaidInv, PaidIsTheSum
          <6>4. QED BY <4>1, <5>2, <6>2, <6>3 DEF Inserted
        <5>3. QED BY <4>1, <5>1, <5>2
      <4>4. ASSUME NEW q \in Requests \ late', pc'[q] # "idle" PROVE PaidKnown(q)'
        <5>1. q # r /\ pc[q] # "idle" /\ q \notin late
          BY <4>1, <4>2, <4>4
        <5>2. job[q].inv \in Invoices /\ PaidKnown(q)
          BY <1>2, <3>0, <5>1 DEF PaidInv
        <5>3. job[q].op # "pay" => row'[job[q].inv].paid = row[job[q].inv].paid
          BY <4>1, <4>2, <4>4, <5>1, <5>2
        <5>4. QED BY <4>1, <5>1, <5>2, <5>3 DEF PaidKnown, Inserted
      <4>5. QED BY <1>2, <4>1, <4>3, <4>4 DEF PaidInv
    <3>4. CASE Shortage(r) \/ LineGone(r) \/ BreakDeadlock(r)
      BY <2>2, <3>4 DEF Shortage, LineGone, BreakDeadlock
    <3>5. CASE CheckLine(r) \/ Number(r) \/ ReadOld(r) \/ MoveOut(r) \/ MoveBack(r) \/ Release(r)
      <4>1. /\ pc[r] \notin {"idle", "insert", "sum"} /\ pc'[r] \notin {"idle", "insert", "sum"}
            /\ UNCHANGED <<row, payments, job, late, astray>> /\ copy'[r].paid = copy[r].paid
            /\ \A q \in Requests \ {r} : pc'[q] = pc[q] /\ copy'[q] = copy[q]
        BY <1>2, <3>5
        DEF CheckLine, Number, ReadOld, MoveOut, MoveBack, Take, NextLine, Release, SaveAt, TypeOK, Row,
            dbVars, history
      <4>2. PaidIsTheSum'
        BY <1>2, <4>1 DEF PaidInv, PaidIsTheSum, Inserted
      <4>3. QED BY <1>2, <4>1, <4>2 DEF PaidInv, PaidKnown, Inserted
    <3>6. QED BY <2>4, <3>1, <3>2, <3>3, <3>4, <3>5 DEF Step
  <2>5. QED BY <1>2, <2>1, <2>2, <2>3, <2>4 DEF Next, Fail
<1>3. PaidInv => PaidIsTheSum
  BY DEF PaidInv
<1>4. QED BY <1>1, <1>2, <1>3, Typing, PTL DEF Spec

----------------------------------------------------------------------------
(* One deduction per invoice *)

\* A request that is deducting holds a new number, so it alone posts the invoice, and it
\* found the invoice undeducted; unless the row was taken back to DRAFT before.
Pending(r) == reopened[job[r].inv] \/ (fresh[r] /\ sold[job[r].inv] = 0)

SoldHeld(r) ==
  /\ pc[r] # "idle" => copy[r].status # "ABSENT"
  /\ pc[r] = "move" /\ copy[r].status = "POSTED" => Pending(r)
  /\ \A v \in Stocked : moved[r][v] > 0 => pc[r] \in {"move", "release", "write"} /\ Pending(r)

SoldRow(i) ==
  /\ row[i].status = "ABSENT" => ~row[i].deleted
  /\ row[i].status \in {"ABSENT", "DRAFT"} /\ ~reopened[i] =>
       sold[i] = 0 /\ \A n \in issued : n[2] # i

SoldInv ==
  /\ DeductedOnce
  /\ \A i \in Invoices : SoldRow(i)
  /\ \A r \in Requests : SoldHeld(r)

LEMMA SoldInit == Init => SoldInv
<1> SUFFICES ASSUME Init PROVE SoldInv
  OBVIOUS
<1>1. /\ \A i \in Invoices : ~row[i].deleted /\ sold[i] = 0
      /\ \A r \in Requests : pc[r] = "idle" /\ \A v \in Stocked : moved[r][v] = 0
      /\ issued = {}
  BY DEF Init, NoCopy, NoStock
<1>2. QED BY <1>1 DEF SoldInv, SoldRow, SoldHeld, DeductedOnce

\* Two requests are never both about to deduct one invoice that was not reopened.
LEMMA SoldFrame ==
  ASSUME TypeOK, NumberInv, SoldInv, NEW r \in Requests, Begins(r) \/ Step(r) \/ Rollback(r),
         \A i \in Invoices : reopened[i] => reopened'[i],
         \A i \in Invoices : sold'[i] = sold[i] \/ (i = job[r].inv /\ Pending(r))
  PROVE  \A q \in Requests \ {r} : SoldHeld(q)'
<1> SUFFICES ASSUME NEW q \in Requests \ {r}
             PROVE  SoldHeld(q)'
  OBVIOUS
<1>1. /\ pc'[q] = pc[q] /\ job'[q] = job[q] /\ copy'[q] = copy[q]
      /\ fresh'[q] = fresh[q] /\ moved'[q] = moved[q]
  BY Local
<1>2. ~(fresh[q] /\ fresh[r])
  BY DEF NumberInv, NumberHeld
<1>3. SoldHeld(q)
  BY DEF SoldInv
<1>4. ASSUME Pending(q), job[q].inv \in Invoices
      PROVE  Pending(q)'
  BY <1>1, <1>2, <1>4 DEF Pending
<1>5. (pc[q] = "move" \/ \E v \in Stocked : moved[q][v] > 0) => job[q].inv \in Invoices
  BY <1>3 DEF SoldHeld, TypeOK, Job
<1>6. QED BY <1>1, <1>3, <1>4, <1>5 DEF SoldHeld

LEMMA SoldRollback ==
  ASSUME TypeOK, NumberInv, SoldInv, NEW r \in Requests, Rollback(r)
  PROVE  SoldInv'
<1>1. UNCHANGED <<row, issued, sold, reopened>>
  BY DEF Rollback, dbVars, history
<1>2. pc'[r] = "idle" /\ \A v \in Stocked : moved'[r][v] = 0
  BY DEF Rollback, Released, Answered, NoStock, TypeOK
<1>3. SoldHeld(r)'
  BY <1>2 DEF SoldHeld
<1>4. QED BY <1>1, <1>3, SoldFrame DEF SoldInv, SoldRow, DeductedOnce

LEMMA SoldBegins ==
  ASSUME TypeOK, NumberInv, SoldInv, NEW r \in Requests, Begins(r)
  PROVE  SoldInv'
<1>1. PICK op \in Ops, i \in Invoices, c \in Row, cart \in Carts, at \in Points \ {"move"} :
        Begin(r, op, i, c, cart, at) /\ Started(op, i, c, at)
  BY BegunAs
<1>2. UNCHANGED <<row, issued, sold, reopened, moved>>
  BY <1>1 DEF Begin, dbVars, history
<1>3. pc[r] = "idle" /\ pc'[r] = at /\ copy'[r] = c
  BY <1>1 DEF Begin, TypeOK
<1>4. c.status # "ABSENT"
  BY <1>1 DEF Started, SoldInv, SoldRow
<1>5. \A v \in Stocked : ~(moved'[r][v] > 0)
  BY <1>2, <1>3 DEF SoldInv, SoldHeld
<1>6. SoldHeld(r)'
  BY <1>1, <1>3, <1>4, <1>5 DEF SoldHeld
<1>7. QED BY <1>2, <1>6, SoldFrame DEF SoldInv, SoldRow, DeductedOnce

LEMMA SoldStep ==
  ASSUME TypeOK, StockInv, NumberInv, SoldInv, NEW r \in Requests, Step(r)
  PROVE  SoldInv'
<1>0. /\ NumberHeld(r) /\ SoldHeld(r)
      /\ pc[r] # "idle" => job[r].inv \in Invoices
      /\ \A i \in Invoices : reopened[i] \in BOOLEAN /\ sold[i] \in Nat
      /\ \A v \in Stocked : moved[r][v] \in Int
  BY DEF NumberInv, SoldInv, TypeOK, Job
<1>1. CASE CheckLine(r) \/ InsertPayment(r) \/ SumPayments(r) \/ Number(r)
  <2>1. UNCHANGED <<row, issued, sold, reopened, moved, job>>
    BY <1>1 DEF CheckLine, InsertPayment, SumPayments, Number, dbVars, history
  <2>2. /\ copy'[r].status = copy[r].status /\ pc'[r] \notin {"idle", "move"}
        /\ pc[r] \notin {"idle", "move", "release", "write"}
    BY <1>1 DEF CheckLine, InsertPayment, SumPayments, Number, NextLine, SaveAt, TypeOK, Row
  <2>3. SoldHeld(r)'
    BY <1>0, <2>1, <2>2 DEF SoldHeld
  <2>4. QED BY <1>1, <2>1, <2>3, SoldFrame DEF SoldInv, SoldRow, DeductedOnce, Step
<1>2. CASE ReadOld(r)
  <2>1. /\ UNCHANGED <<row, issued, sold, reopened, moved, job, copy, fresh>>
        /\ pc[r] = "old" /\ pc'[r] \in {"move", "write"}
    BY <1>2 DEF ReadOld, dbVars, history, TypeOK
  <2>2. ASSUME pc'[r] = "move", copy[r].status = "POSTED"
        PROVE  Pending(r)
    <3>1. row[job[r].inv].status = "DRAFT"
      BY <1>2, <2>1, <2>2 DEF ReadOld, Posting, Voiding, TypeOK
    <3>2. copy[r].number # 0
      BY <1>0, <2>1, <2>2 DEF NumberHeld
    <3>3. CASE fresh[r]
      BY <1>0, <2>1, <3>1, <3>3 DEF SoldInv, SoldRow, Pending
    <3>4. CASE ~fresh[r]
      <4>1. <<copy[r].number, job[r].inv>> \in issued
        BY <1>0, <2>1, <3>2, <3>4 DEF NumberHeld
      <4>2. QED BY <1>0, <2>1, <3>1, <4>1 DEF SoldInv, SoldRow, Pending
    <3>5. QED BY <3>3, <3>4
  <2>3. SoldHeld(r)'
    BY <1>0, <2>1, <2>2 DEF SoldHeld, Pending
  <2>4. QED BY <1>2, <2>1, <2>3, SoldFrame DEF SoldInv, SoldRow, DeductedOnce, Step
<1>3. ASSUME NEW sign \in {1, -1}, Take(r, sign), sign = 1 => copy[r].status = "POSTED", Step(r)
      PROVE  SoldInv'
  <2>1. UNCHANGED <<row, issued, sold, reopened, job, copy, fresh>> /\ pc[r] = "move"
    BY <1>3 DEF Take, dbVars, history
  <2>2. pc'[r] \in {"move", "release", "write"}
    BY <1>3 DEF Take, NextLine, TypeOK
  <2>3. AtQty(r) \in Nat
    BY <2>1, CartType
  <2>4. sign = -1 => \A v \in Stocked : moved'[r][v] > 0 => moved[r][v] > 0
    <3>1. \A v \in Stocked : moved'[r][v] \in {moved[r][v], moved[r][v] + sign * AtQty(r)}
      BY <1>3 DEF Take, TypeOK
    <3>2. sign = -1 => sign * AtQty(r) = -AtQty(r)
      BY <2>3
    <3>3. QED BY <1>0, <2>3, <3>1, <3>2
  <2>5. \A v \in Stocked : moved'[r][v] > 0 => Pending(r)
    BY <1>0, <1>3, <2>1, <2>4 DEF SoldHeld
  <2>6. SoldHeld(r)'
    BY <1>0, <2>1, <2>2, <2>5 DEF SoldHeld, Pending
  <2>7. QED BY <1>3, <2>1, <2>6, SoldFrame DEF SoldInv, SoldRow, DeductedOnce
<1>4. CASE MoveOut(r) \/ MoveBack(r)
  BY <1>3, <1>4 DEF MoveOut, MoveBack
<1>5. ASSUME StockCommitted(r), pc[r] \in {"release", "write"}
      PROVE  /\ \A i \in Invoices : sold'[i] = sold[i] \/ (i = job[r].inv /\ Pending(r))
             /\ \A i \in Invoices : sold'[i] \in {sold[i], sold[i] + 1}
  <2>1. CASE \E v \in Stocked : moved[r][v] > 0
    BY <1>0, <1>5, <2>1 DEF StockCommitted, SoldHeld, TypeOK
  <2>2. CASE ~ \E v \in Stocked : moved[r][v] > 0
    BY <1>5, <2>2 DEF StockCommitted
  <2>3. QED BY <2>1, <2>2
<1>6. CASE Release(r)
  <2>1. UNCHANGED <<row, issued, reopened, job, copy>> /\ pc[r] = "release" /\ pc'[r] = "write"
    BY <1>6 DEF Release, TypeOK
  <2>2. \A v \in Stocked : moved'[r][v] = 0
    BY <1>6 DEF Release, Released, NoStock, TypeOK
  <2>3. SoldHeld(r)'
    BY <1>0, <2>1, <2>2 DEF SoldHeld
  <2>4. \A i \in Invoices : sold'[i] = sold[i] \/ reopened[i]
    <3>1. ~fresh[r]
      BY <1>0, <2>1 DEF NumberHeld
    <3>2. StockCommitted(r)
      BY <1>6 DEF Release
    <3>3. QED BY <1>5, <2>1, <3>1, <3>2 DEF Pending
  <2>5. \A i \in Invoices : SoldRow(i)'
    BY <2>1, <2>4 DEF SoldInv, SoldRow
  <2>6. DeductedOnce'
    BY <2>1, <2>4 DEF SoldInv, DeductedOnce
  <2>7. \A q \in Requests \ {r} : SoldHeld(q)'
    BY <1>5, <1>6, <2>1, SoldFrame DEF Release, Step
  <2>8. QED BY <2>3, <2>5, <2>6, <2>7 DEF SoldInv
<1>7. ASSUME RowWritten(r), pc[r] = "write"
      PROVE  /\ \A i \in Invoices : row'[i] = IF i = job[r].inv THEN copy[r] ELSE row[i]
             /\ \A i \in Invoices : reopened[i] => reopened'[i]
             /\ \A i \in Invoices : row'[i].status \in {"ABSENT", "DRAFT"} /\ ~reopened'[i] =>
                  row[i].status \in {"ABSENT", "DRAFT"} /\ ~reopened[i]
             /\ \A i \in Invoices : row'[i].status = "ABSENT" => row'[i] = row[i]
  <2>1. \A i \in Invoices : row'[i] = IF i = job[r].inv THEN copy[r] ELSE row[i]
    BY <1>7 DEF RowWritten, TypeOK
  <2>2. \A i \in Invoices : row[i].status \in {"ABSENT", "DRAFT", "POSTED", "VOID"}
    BY DEF TypeOK, Row, Status
  <2>3. \A i \in Invoices : reopened'[i] =
          (reopened[i] \/ (/\ i = job[r].inv /\ row[i].status \in {"POSTED", "VOID"}
                           /\ copy[r].status = "DRAFT"))
    BY <1>7 DEF RowWritten, TypeOK
  <2>4. copy[r].status # "ABSENT"
    BY <1>0, <1>7 DEF SoldHeld
  <2>5. QED BY <2>1, <2>2, <2>3, <2>4
<1>8. CASE Update(r)
  <2>1. UNCHANGED <<issued, sold, moved>> /\ pc[r] = "write" /\ pc'[r] = "idle" /\ RowWritten(r)
    BY <1>8 DEF Update, Answered, TypeOK
  <2>2. \A i \in Invoices : SoldRow(i)'
    BY <1>7, <2>1 DEF SoldInv, SoldRow
  <2>3. DeductedOnce'
    BY <1>7, <2>1 DEF SoldInv, DeductedOnce
  <2>4. \A q \in Requests \ {r} : SoldHeld(q)'
    BY <1>7, <1>8, <2>1, SoldFrame DEF Step
  <2>5. \A v \in Stocked : moved[r][v] = 0
    BY <1>8 DEF Update, StockInv, MayHold
  <2>6. SoldHeld(r)'
    BY <1>0, <2>1, <2>5 DEF SoldHeld
  <2>7. QED BY <2>2, <2>3, <2>4, <2>6 DEF SoldInv
<1>9. CASE Commit(r)
  <2>1. /\ pc[r] = "write" /\ pc'[r] = "idle" /\ RowWritten(r) /\ StockCommitted(r)
        /\ \A v \in Stocked : moved'[r][v] = 0
        /\ issued' \in {issued, issued \cup {<<copy[r].number, job[r].inv>>}}
        /\ ~fresh[r] => issued' = issued
    BY <1>9 DEF Commit, Answered, Released, NoStock, TypeOK
  <2>2. SoldHeld(r)'
    BY <2>1 DEF SoldHeld
  <2>3. \A q \in Requests \ {r} : SoldHeld(q)'
    BY <1>5, <1>7, <1>9, <2>1, SoldFrame DEF Step
  <2>4. DeductedOnce'
    BY <1>0, <1>5, <1>7, <2>1 DEF SoldInv, DeductedOnce, Pending
  <2>5. ASSUME NEW i \in Invoices
        PROVE  SoldRow(i)'
    <3>1. row'[i].status = "ABSENT" => ~row'[i].deleted
      BY <1>7, <2>1 DEF SoldInv, SoldRow
    <3>2. ASSUME row'[i].status \in {"ABSENT", "DRAFT"}, ~reopened'[i]
          PROVE  sold'[i] = 0 /\ \A n \in issued' : n[2] # i
      <4>1. sold[i] = 0 /\ ~reopened[i] /\ \A n \in issued : n[2] # i
        BY <1>7, <2>1, <3>2 DEF SoldInv, SoldRow
      <4>2. i = job[r].inv => ~fresh[r]
        BY <1>0, <1>7, <2>1, <3>2 DEF NumberHeld
      <4>3. sold'[i] = sold[i]
        BY <1>5, <2>1, <4>1, <4>2 DEF Pending
      <4>4. QED BY <2>1, <4>1, <4>2, <4>3
    <3>3. QED BY <3>1, <3>2 DEF SoldRow
  <2>6. QED BY <2>2, <2>3, <2>4, <2>5 DEF SoldInv
<1>10. CASE Shortage(r) \/ LineGone(r) \/ BreakDeadlock(r)
  BY <1>10, SoldRollback DEF Shortage, LineGone, BreakDeadlock
<1>11. QED BY <1>1, <1>2, <1>4, <1>6, <1>8, <1>9, <1>10 DEF Step

\* Racing checkouts of one draft deduct it once: the second waits for the number sequence,
\* and handle_sale_stock then finds the row POSTED.
THEOREM DeductionSafety == Spec => []DeductedOnce
<1>1. ASSUME TypeOK, StockInv, NumberInv, SoldInv, [Next]_vars PROVE SoldInv'
  <2>1. CASE UNCHANGED vars
    BY <1>1, <2>1
    DEF SoldInv, SoldHeld, SoldRow, Pending, DeductedOnce, vars, dbVars, lockVars, localVars, history
  <2>2. CASE Next
    <3>1. PICK r \in Requests : Begins(r) \/ Step(r) \/ Fail(r)
      BY <2>2 DEF Next
    <3>2. QED BY <1>1, <3>1, SoldBegins, SoldStep, SoldRollback DEF Fail
  <2>3. QED BY <1>1, <2>1, <2>2
<1>2. SoldInv => DeductedOnce
  BY DEF SoldInv
<1>3. QED BY <1>1, <1>2, SoldInit, Typing, StockAlways, NumberAlways, PTL DEF Spec

----------------------------------------------------------------------------
(* Carts *)

\* Base units of v on the first n lines of a cart.
Units(cart, v, n) == SumFunctionOnSet(UnitsOn(cart, v), 1..n)

LEMMA CartLines ==
  ASSUME NEW cart \in Seq(Line)
  PROVE  /\ Len(cart) \in Nat /\ DOMAIN cart = 1..Len(cart) /\ IsFiniteSet(1..Len(cart))
         /\ \A n \in 1..Len(cart) : cart[n] \in Line /\ cart[n].qty \in Nat
<1>1. Len(cart) \in Nat /\ DOMAIN cart = 1..Len(cart) /\ \A n \in 1..Len(cart) : cart[n] \in Line
  OBVIOUS
<1>2. 1 \in Int /\ Len(cart) \in Int
  BY <1>1
<1>3. \A x \in Line : x.qty \in Nat
  BY DEF Line
<1> QED BY <1>1, <1>2, <1>3, FS_Interval

LEMMA UnitsAdd ==
  ASSUME NEW cart \in Seq(Line), NEW v
  PROVE  /\ Units(cart, v, 0) = 0
         /\ Units(cart, v, Len(cart)) = Needs(cart, v)
         /\ \A n \in 1..Len(cart) :
              /\ Units(cart, v, n) \in Int
              /\ Units(cart, v, n) = Units(cart, v, n - 1) + (IF cart[n].variant = v THEN cart[n].qty ELSE 0)
<1> DEFINE F == UnitsOn(cart, v)
           S == 1..Len(cart)
<1>1. Len(cart) \in Nat /\ DOMAIN cart = S /\ \A n \in S : cart[n].qty \in Nat
  BY CartLines
<1>2. F \in [S -> Int] /\ DOMAIN F = S /\ \A n \in S : F[n] = IF cart[n].variant = v THEN cart[n].qty ELSE 0
  BY <1>1 DEF UnitsOn
<1>3. IsFiniteSet(S)
  BY CartLines
<1>4. 1..0 = {}
  OBVIOUS
<1>5. Units(cart, v, 0) = 0
  BY <1>4, SumEmpty DEF Units
<1>6. Units(cart, v, Len(cart)) = Needs(cart, v)
  BY <1>2 DEF Units, Needs, SumFunction
<1> HIDE DEF F
<1>7. ASSUME NEW n \in S
      PROVE  /\ Units(cart, v, n) \in Int
             /\ Units(cart, v, n) = Units(cart, v, n - 1) + (IF cart[n].variant = v THEN cart[n].qty ELSE 0)
  <2> DEFINE T == 1..(n - 1)
  <2>1. T \in SUBSET S /\ n \in S \ T /\ T \cup {n} = 1..n
    BY <1>1
  <2> HIDE DEF T, S
  <2>2. SumFunctionOnSet(F, T) \in Int /\ SumFunctionOnSet(F, T \cup {n}) = F[n] + SumFunctionOnSet(F, T)
    BY <1>2, <1>3, <2>1, SumAdd
  <2>3. Units(cart, v, n) = SumFunctionOnSet(F, T \cup {n}) /\ Units(cart, v, n - 1) = SumFunctionOnSet(F, T)
    BY <2>1 DEF Units, F, T
  <2>4. F[n] \in Int
    BY <1>2
  <2> QED BY <1>2, <2>2, <2>3, <2>4
<1> QED BY <1>5, <1>6, <1>7

\* What a line takes of a variant that no other line names is all that the cart needs of it.
LEMMA NeedsOfOne ==
  ASSUME NEW cart \in Seq(Line), OneLinePerVariant(cart), NEW v
  PROVE  \/ Needs(cart, v) = 0
         \/ \E n \in 1..Len(cart) : cart[n].variant = v /\ Needs(cart, v) = cart[n].qty
<1> DEFINE S == 1..Len(cart)
<1>1. Len(cart) \in Nat /\ IsFiniteSet(S) /\ DOMAIN cart = S /\ \A n \in S : cart[n].qty \in Nat
  BY CartLines
<1>2. PICK F \in [S -> Int] : F = UnitsOn(cart, v)
  <2>1. UnitsOn(cart, v) \in [S -> Int]
    BY <1>1 DEF UnitsOn
  <2> QED BY <2>1
<1>3. \A n \in S : F[n] = IF cart[n].variant = v THEN cart[n].qty ELSE 0
  BY <1>1, <1>2 DEF UnitsOn
<1>4. Needs(cart, v) = SumFunction(F)
  BY <1>2 DEF Needs
<1>5. CASE \A n \in S : cart[n].variant # v
  <2>1. \A n \in S : F[n] = 0
    BY <1>3, <1>5
  <2> HIDE DEF S
  <2> QED BY <1>1, <1>4, <2>1, SumOfZeros
<1>6. ASSUME NEW n \in S, cart[n].variant = v PROVE Needs(cart, v) = cart[n].qty
  <2>1. \A m \in S \ {n} : F[m] = 0
    BY <1>3, <1>6 DEF OneLinePerVariant
  <2>2. PICK Z \in [S -> Int] : \A m \in S : Z[m] = 0
    <3>1. [m \in S |-> 0] \in [S -> Int]
      OBVIOUS
    <3> QED BY <3>1
  <2>3. F[n] = cart[n].qty /\ cart[n].qty \in Int
    BY <1>1, <1>3, <1>6
  <2> HIDE DEF S
  <2>4. SumFunction(Z) = 0
    BY <1>1, <2>2, SumOfZeros
  <2>5. SumFunction(F) = SumFunction(Z) - Z[n] + F[n]
    BY <1>1, <2>1, <2>2, SumChanged
  <2> QED BY <1>4, <2>2, <2>3, <2>4, <2>5
<1> QED BY <1>5, <1>6

\* What a loop over the lines has moved, when it is before line n: taken or put back.
MovedUpTo(r, n) ==
  \A v \in Stocked : moved[r][v] = IF copy[r].status = "POSTED" THEN Units(Cart(r), v, n - 1)
                                   ELSE 0 - Units(Cart(r), v, n - 1)
NothingMoved(r) == \A v \in Stocked : moved[r][v] = 0

\* Of the lines that were checked each one is covered by the quantity under a lock.
CoveredLine(r, m) ==
  LET v == Cart(r)[m].variant IN v \in Stocked /\ stockLock[v] = r /\ Cart(r)[m].qty <= seen[r][v]

CartHeld(r) ==
  /\ pc[r] = "move" => MovedUpTo(r, line[r])
  /\ pc[r] \in {"write", "release"} => NothingMoved(r) \/ MovedUpTo(r, Len(Cart(r)) + 1)
  /\ pc[r] \notin {"move", "write", "release"} => NothingMoved(r)
  /\ job[r].op = "checkout" /\ ~AllowNegative /\ pc[r] # "idle" =>
       /\ pc[r] \in {"check", "number", "old", "move", "write"}
       /\ \A m \in 1..Len(Cart(r)) : (pc[r] = "check" => m < line[r]) => CoveredLine(r, m)

CartInv == \A r \in Requests : CartHeld(r)

LEMMA CartInit == Init => CartInv
BY DEF Init, CartInv, CartHeld, NothingMoved, NoStock

LEMMA CartFrame ==
  ASSUME TypeOK, CartInv, NEW r \in Requests, Begins(r) \/ Step(r) \/ Rollback(r), NEW q \in Requests, q # r
  PROVE  CartHeld(q)'
<1>1. /\ pc'[q] = pc[q] /\ job'[q] = job[q] /\ copy'[q] = copy[q] /\ moved'[q] = moved[q]
  BY Local
<1>2. line'[q] = line[q] /\ seen'[q] = seen[q] /\ \A v \in Stocked : stockLock[v] = q => stockLock'[v] = q
  <2>1. CASE Rollback(r)
    BY <2>1 DEF Rollback, Released, Answered, TypeOK
  <2>2. CASE Begins(r)
    BY <2>2, BegunAs DEF Begin, TypeOK, lockVars
  <2>3. CASE CheckLine(r)
    <3>1. AtVariant(r) \in Stocked /\ Locked(r, AtVariant(r)) /\ CanLock(r, AtVariant(r))
      BY <2>3 DEF CheckLine, Covers
    <3>2. line'[q] = line[q] /\ seen'[q] = seen[q]
      BY <2>3, <3>1 DEF CheckLine, NextLine, Locked, TypeOK
    <3> QED BY <3>1, <3>2, SalesConstants DEF Locked, CanLock, TypeOK
  <2>4. CASE InsertPayment(r) \/ SumPayments(r) \/ Number(r) \/ ReadOld(r)
    BY <2>4 DEF InsertPayment, SumPayments, Number, ReadOld, TypeOK, lockVars
  <2>5. CASE Shortage(r) \/ LineGone(r) \/ BreakDeadlock(r)
    BY <2>1, <2>5 DEF Shortage, LineGone, BreakDeadlock
  <2>6. ASSUME NEW sign \in {1, -1}, Take(r, sign)
        PROVE  line'[q] = line[q] /\ seen'[q] = seen[q] /\ \A v \in Stocked : stockLock[v] = q => stockLock'[v] = q
    <3>1. CASE AtVariant(r) \in Stocked
      <4>1. Locked(r, AtVariant(r)) /\ CanLock(r, AtVariant(r)) /\ line' = [line EXCEPT ![r] = @ + 1]
        BY <2>6, <3>1 DEF Take, NextLine
      <4> QED BY <3>1, <4>1, SalesConstants DEF Locked, CanLock, TypeOK
    <3>2. CASE AtVariant(r) \notin Stocked
      BY <2>6, <3>2 DEF Take, NextLine, TypeOK
    <3> QED BY <3>1, <3>2
  <2>7. CASE MoveOut(r) \/ MoveBack(r)
    BY <2>6, <2>7 DEF MoveOut, MoveBack
  <2>8. CASE Release(r) \/ Update(r) \/ Commit(r)
    BY <2>8 DEF Release, Update, Commit, Released, Answered, TypeOK, lockVars
  <2> QED BY <2>1, <2>2, <2>3, <2>4, <2>5, <2>7, <2>8 DEF Step
<1>3. CartHeld(q)
  BY DEF CartInv
<1> QED BY <1>1, <1>2, <1>3 DEF CartHeld, MovedUpTo, NothingMoved, CoveredLine, Cart

LEMMA CartRollback ==
  ASSUME TypeOK, CartInv, NEW r \in Requests, Rollback(r)
  PROVE  CartInv'
<1>1. pc'[r] = "idle" /\ moved'[r] = NoStock
  BY DEF Rollback, Answered, Released, TypeOK
<1>2. CartHeld(r)'
  BY <1>1 DEF CartHeld, NothingMoved, NoStock
<1> QED BY <1>2, CartFrame DEF CartInv

LEMMA CartBegins ==
  ASSUME TypeOK, CartInv, NEW r \in Requests, Begins(r)
  PROVE  CartInv'
<1>1. PICK op \in Ops, i \in Invoices, c \in Row, cart \in Carts, at \in Points \ {"move"} :
        Begin(r, op, i, c, cart, at) /\ Started(op, i, c, at)
  BY BegunAs
<1>2. /\ pc[r] = "idle" /\ pc'[r] = at /\ line'[r] = 1 /\ job'[r].op = op /\ moved' = moved
  BY <1>1 DEF Begin, TypeOK
<1>3. op = "checkout" /\ ~AllowNegative => at = "check"
  BY <1>1 DEF Started
<1>4. NothingMoved(r) /\ NothingMoved(r)'
  BY <1>2 DEF CartInv, CartHeld, NothingMoved
<1>5. \A m \in 1..Len(Cart(r)') : ~(m < 1)
  OBVIOUS
<1>6. CartHeld(r)'
  BY <1>2, <1>3, <1>4, <1>5 DEF CartHeld
<1> QED BY <1>6, CartFrame DEF CartInv

\* A line is checked: the row that it names is locked, and covers it.
LEMMA CartCheckLine ==
  ASSUME TypeOK, StockInv, CartInv, NEW r \in Requests, CheckLine(r)
  PROVE  CartHeld(r)'
<1>1. PICK v \in Stocked : v = AtVariant(r)
  BY DEF CheckLine, Covers
<1>2. /\ stockLock'[v] = r /\ \A u \in Stocked : stockLock[u] = r => stockLock'[u] = r /\ seen'[r][u] = seen[r][u]
      /\ seen'[r][v] = Available(r, v)
  BY <1>1 DEF CheckLine, Locked, Available, TypeOK
<1>3. UNCHANGED <<job, moved>> /\ Cart(r)' = Cart(r) /\ pc[r] = "check"
  BY DEF CheckLine, Cart
<1>4. /\ line'[r] = line[r] + 1 /\ line[r] \in 1..Len(Cart(r)) /\ Len(Cart(r)) \in Nat
      /\ IF line[r] = Len(Cart(r)) THEN pc'[r] \in {"number", "old"} ELSE pc'[r] = "check"
  <2>1. line[r] \in Nat \ {0} /\ line[r] <= Len(Cart(r)) /\ Len(Cart(r)) \in Nat
    BY <1>3, CartType DEF TypeOK
  <2>2. line' = [line EXCEPT ![r] = @ + 1] /\ pc' = IF line[r] = Len(Cart(r)) THEN [pc EXCEPT ![r] = SaveAt(copy[r])] ELSE pc
    BY DEF CheckLine, NextLine
  <2>3. SaveAt(copy[r]) \in {"number", "old"}
    BY DEF SaveAt
  <2> QED BY <1>3, <2>1, <2>2, <2>3 DEF TypeOK
<1>5. NothingMoved(r)'
  BY <1>3 DEF CartInv, CartHeld, NothingMoved
<1>6. ASSUME job[r].op = "checkout", ~AllowNegative, NEW m \in 1..Len(Cart(r)), m <= line[r]
      PROVE  CoveredLine(r, m)'
  <2>1. CASE m < line[r]
    <3>1. CoveredLine(r, m)
      BY <1>3, <1>6, <2>1 DEF CartInv, CartHeld
    <3> QED BY <1>2, <1>3, <3>1 DEF CoveredLine
  <2>2. CASE m = line[r]
    <3>1. Cart(r)[m].variant = v /\ Cart(r)[m].qty <= Available(r, v)
      BY <1>1, <2>2 DEF CheckLine, Covers, AtVariant, AtQty
    <3> QED BY <1>2, <1>3, <3>1 DEF CoveredLine
  <2> QED BY <1>4, <1>6, <2>1, <2>2
<1>7. ASSUME job[r].op = "checkout", ~AllowNegative, NEW m \in 1..Len(Cart(r)), pc'[r] = "check" => m < line'[r]
      PROVE  CoveredLine(r, m)'
  <2>1. m <= line[r]
    BY <1>4, <1>7
  <2> QED BY <1>6, <1>7, <2>1
<1>8. pc'[r] \in {"check", "number", "old"}
  BY <1>4
<1> QED BY <1>3, <1>5, <1>7, <1>8 DEF CartHeld

\* A line is moved.
LEMMA CartTake ==
  ASSUME TypeOK, StockInv, CartInv, NEW r \in Requests, NEW sign \in {1, -1}, Take(r, sign),
         copy[r].status = "POSTED" <=> sign = 1
  PROVE  CartHeld(r)'
<1>1. PICK cart \in Seq(Line) : cart = Cart(r)
  BY CartType
<1>2. PICK n \in 1..Len(cart) : n = line[r]
  <2>1. line[r] \in 1..Len(cart)
    BY <1>1, CartType DEF Take, TypeOK
  <2> QED BY <2>1
<1>3. PICK u, qty : u = cart[n].variant /\ qty = cart[n].qty
  OBVIOUS
<1>4. u = AtVariant(r) /\ qty = AtQty(r) /\ qty \in Nat /\ Len(cart) \in Nat
  BY <1>1, <1>2, <1>3, CartLines DEF AtVariant, AtQty
<1>5. UNCHANGED <<job, copy>> /\ Cart(r)' = cart /\ pc[r] = "move" /\ line'[r] = n + 1
  BY <1>1, <1>2 DEF Take, Cart, NextLine, TypeOK
<1>6. IF n = Len(cart) THEN pc'[r] = IF Atomic(r) THEN "write" ELSE "release" ELSE pc'[r] = "move"
  BY <1>1, <1>2 DEF Take, NextLine, TypeOK
<1>7. \A v \in Stocked : moved[r][v] \in Int
  BY DEF TypeOK
<1>8. /\ \A v \in Stocked : moved'[r][v] = moved[r][v] + (IF v = u THEN sign * qty ELSE 0)
      /\ \A v \in Stocked : stockLock[v] = r => stockLock'[v] = r /\ seen'[r][v] = seen[r][v]
  <2>1. CASE u \in Stocked
    <3>1. moved' = [moved EXCEPT ![r][u] = @ + sign * qty] /\ Locked(r, u)
      BY <1>4, <2>1 DEF Take
    <3>2. \A v \in Stocked : moved'[r][v] = IF v = u THEN moved[r][v] + sign * qty ELSE moved[r][v]
      BY <2>1, <3>1 DEF TypeOK
    <3>3. \A v \in Stocked : stockLock[v] = r => stockLock'[v] = r /\ seen'[r][v] = seen[r][v]
      BY <2>1, <3>1 DEF Locked, TypeOK
    <3> QED BY <1>7, <3>2, <3>3
  <2>2. CASE u \notin Stocked
    <3>1. UNCHANGED <<stockLock, seen, moved>>
      BY <1>4, <2>2 DEF Take
    <3> QED BY <1>7, <2>2, <3>1
  <2> QED BY <2>1, <2>2
<1>9. MovedUpTo(r, n)
  BY <1>2, <1>5 DEF CartInv, CartHeld
<1>10. (n + 1) - 1 = n
  OBVIOUS
<1>11. ASSUME NEW v \in Stocked
       PROVE  moved'[r][v] = IF copy[r].status = "POSTED" THEN Units(cart, v, n) ELSE 0 - Units(cart, v, n)
  <2>1. PICK before \in Int : before = Units(cart, v, n - 1)
    <3>1. Units(cart, v, 0) = 0
      BY UnitsAdd
    <3>2. \A m \in 1..Len(cart) : Units(cart, v, m) \in Int
      BY UnitsAdd
    <3>3. n - 1 = 0 \/ n - 1 \in 1..Len(cart)
      BY <1>4
    <3>4. CASE n - 1 = 0
      BY <3>1, <3>4
    <3>5. CASE n - 1 \in 1..Len(cart)
      BY <3>2, <3>5
    <3> QED BY <3>3, <3>4, <3>5
  <2>2. Units(cart, v, n) = before + (IF u = v THEN qty ELSE 0)
    BY <1>3, <2>1, UnitsAdd
  <2>3. moved[r][v] = IF copy[r].status = "POSTED" THEN before ELSE 0 - before
    BY <1>1, <1>9, <2>1 DEF MovedUpTo
  <2>4. moved'[r][v] = moved[r][v] + (IF v = u THEN sign * qty ELSE 0)
    BY <1>8
  <2>5. CASE sign = 1
    BY <1>4, <2>2, <2>3, <2>4, <2>5
  <2>6. CASE sign = -1
    BY <1>4, <2>2, <2>3, <2>4, <2>6
  <2> QED BY <2>5, <2>6
<1>12. MovedUpTo(r, n + 1)'
  BY <1>5, <1>10, <1>11 DEF MovedUpTo
<1>13. pc'[r] = "move" => MovedUpTo(r, line[r])'
  BY <1>5, <1>12
<1>14. pc'[r] # "move" => MovedUpTo(r, Len(Cart(r)) + 1)'
  BY <1>5, <1>6, <1>12
<1>15. ASSUME job[r].op = "checkout", ~AllowNegative, NEW m \in 1..Len(cart) PROVE CoveredLine(r, m)'
  <2>1. CoveredLine(r, m)
    BY <1>1, <1>5, <1>15 DEF CartInv, CartHeld
  <2> QED BY <1>1, <1>5, <1>8, <2>1 DEF CoveredLine
<1>16. pc'[r] \in {"move", "write", "release"} /\ (job[r].op = "checkout" => pc'[r] \in {"move", "write"})
  BY <1>6 DEF Atomic
<1> QED BY <1>5, <1>13, <1>14, <1>15, <1>16 DEF CartHeld

LEMMA CartStep ==
  ASSUME TypeOK, StockInv, CartInv, NEW r \in Requests, Step(r)
  PROVE  CartInv'
<1>1. CartHeld(r)
  BY DEF CartInv
<1>2. CASE InsertPayment(r) \/ SumPayments(r) \/ Number(r)
  <2>1. UNCHANGED <<job, moved, stockLock, seen>> /\ Cart(r)' = Cart(r)
    BY <1>2 DEF InsertPayment, SumPayments, Number, lockVars, Cart
  <2>2. /\ pc[r] \in {"insert", "sum", "number"} /\ pc'[r] \in {"sum", "number", "old"}
        /\ pc[r] \in {"number"} => pc'[r] = "old"
    BY <1>2 DEF InsertPayment, SumPayments, Number, SaveAt, TypeOK
  <2>3. NothingMoved(r)'
    BY <1>1, <2>1, <2>2 DEF CartHeld, NothingMoved
  <2>4. CartHeld(r)'
    BY <1>1, <2>1, <2>2, <2>3 DEF CartHeld, CoveredLine
  <2> QED BY <2>4, CartFrame DEF CartInv
<1>3. CASE ReadOld(r)
  <2>1. UNCHANGED <<job, moved, stockLock, seen>> /\ Cart(r)' = Cart(r)
    BY <1>3 DEF ReadOld, lockVars, Cart
  <2>2. pc[r] = "old" /\ pc'[r] \in {"move", "write"} /\ line'[r] = 1
    BY <1>3 DEF ReadOld, TypeOK
  <2>3. NothingMoved(r) /\ NothingMoved(r)'
    BY <1>1, <2>1, <2>2 DEF CartHeld, NothingMoved
  <2>4. MovedUpTo(r, line[r])'
    <3>1. 1 - 1 = 0 /\ 0 - 0 = 0
      OBVIOUS
    <3>2. \A v : Units(Cart(r), v, 0) = 0
      BY CartType, UnitsAdd
    <3> QED BY <2>1, <2>2, <2>3, <3>1, <3>2 DEF MovedUpTo, NothingMoved
  <2>5. CartHeld(r)'
    BY <1>1, <2>1, <2>2, <2>3, <2>4 DEF CartHeld, CoveredLine
  <2> QED BY <2>5, CartFrame DEF CartInv
<1>4. CASE CheckLine(r)
  BY <1>4, CartCheckLine, CartFrame DEF CartInv
<1>5. CASE MoveOut(r) \/ MoveBack(r)
  <2>1. PICK sign \in {1, -1} : Take(r, sign) /\ (copy[r].status = "POSTED" <=> sign = 1)
    BY <1>5 DEF MoveOut, MoveBack
  <2>2. CartHeld(r)'
    BY <2>1, CartTake
  <2> QED BY <2>2, CartFrame DEF CartInv
<1>6. CASE Release(r)
  <2>1. pc[r] = "release" /\ pc'[r] = "write" /\ moved'[r] = NoStock /\ job' = job
    BY <1>6 DEF Release, Released, TypeOK
  <2>2. CartHeld(r)'
    BY <1>1, <2>1 DEF CartHeld, NothingMoved, NoStock
  <2> QED BY <2>2, CartFrame DEF CartInv
<1>7. CASE Update(r)
  <2>1. pc[r] = "write" /\ pc'[r] = "idle" /\ moved' = moved /\ ~Atomic(r)
    BY <1>7 DEF Update, Answered, TypeOK
  <2>2. \A v \in Stocked : stockLock[v] # r
    BY <2>1 DEF StockInv, MayHold
  <2>3. NothingMoved(r)'
    BY <2>1, <2>2 DEF StockInv, NothingMoved
  <2>4. CartHeld(r)'
    BY <2>1, <2>3 DEF CartHeld
  <2> QED BY <2>4, CartFrame DEF CartInv
<1>8. CASE Commit(r)
  <2>1. pc'[r] = "idle" /\ moved'[r] = NoStock
    BY <1>8 DEF Commit, Answered, Released, TypeOK
  <2>2. CartHeld(r)'
    BY <2>1 DEF CartHeld, NothingMoved, NoStock
  <2> QED BY <2>2, CartFrame DEF CartInv
<1>9. CASE Shortage(r) \/ LineGone(r) \/ BreakDeadlock(r)
  BY <1>9, CartRollback DEF Shortage, LineGone, BreakDeadlock
<1> QED BY <1>2, <1>3, <1>4, <1>5, <1>6, <1>7, <1>8, <1>9 DEF Step

LEMMA CartAlways == Spec => []CartInv
<1>1. ASSUME TypeOK, StockInv, CartInv, [Next]_vars PROVE CartInv'
  <2>1. CASE UNCHANGED vars
    BY <1>1, <2>1
    DEF CartInv, CartHeld, MovedUpTo, NothingMoved, CoveredLine, Cart, vars, dbVars, lockVars, localVars
  <2>2. CASE Next
    <3>1. PICK r \in Requests : Begins(r) \/ Step(r) \/ Fail(r)
      BY <2>2 DEF Next
    <3> QED BY <1>1, <3>1, CartBegins, CartStep, CartRollback DEF Fail
  <2> QED BY <1>1, <2>1, <2>2
<1> QED BY <1>1, CartInit, Typing, StockAlways, PTL DEF Spec

\* Only two steps write stock, and each commits what the request has moved.
LEMMA StockWrittenBy ==
  ASSUME TypeOK, StockInv, Next, stock' # stock
  PROVE  \E r \in Requests :
           /\ pc[r] \in {"write", "release"} /\ StockCommitted(r)
           /\ \A q \in Requests : pc'[q] = "idle" => pc[q] = "idle" \/ q = r
<1>1. PICK r \in Requests : Begins(r) \/ Step(r) \/ Rollback(r)
  BY DEF Next, Fail
<1>2. Release(r) \/ Commit(r)
  <2>1. ~Rollback(r)
    BY DEF Rollback, dbVars
  <2>2. ~Begins(r)
    BY BegunAs DEF Begin, dbVars
  <2> QED BY <1>1, <2>1, <2>2
      DEF Step, CheckLine, Shortage, InsertPayment, SumPayments, Number, ReadOld, MoveOut, MoveBack,
          Take, LineGone, Release, Update, Commit, BreakDeadlock, dbVars
<1>3. \A q \in Requests \ {r} : pc'[q] = pc[q]
  BY <1>1, Local
<1> QED BY <1>2, <1>3 DEF Release, Commit

\* What a request commits is its whole cart, taken or put back.
LEMMA WholeCart ==
  ASSUME TypeOK, StockInv, CartInv, NEW r \in Requests, pc[r] \in {"write", "release"}, StockCommitted(r)
  PROVE  \/ \A v \in Stocked : stock'[v] = stock[v]
         \/ \A v \in Stocked : Needs(Cart(r), v) \in Int /\ stock'[v] = stock[v] - Needs(Cart(r), v)
         \/ \A v \in Stocked : Needs(Cart(r), v) \in Int /\ stock'[v] = stock[v] + Needs(Cart(r), v)
<1>1. \A v \in Stocked : stock'[v] = stock[v] - moved[r][v] /\ stock[v] \in Int
  BY StockMoved DEF TypeOK
<1>2. PICK cart \in Seq(Line) : cart = Cart(r)
  BY CartType
<1>3. ASSUME NEW v PROVE Needs(cart, v) = Units(cart, v, Len(cart)) /\ Needs(cart, v) \in Int
  <2>1. Len(cart) = 0 \/ Len(cart) \in 1..Len(cart)
    BY CartLines
  <2> QED BY <2>1, UnitsAdd
<1>4. (Len(cart) + 1) - 1 = Len(cart)
  BY CartLines
<1>5. CASE NothingMoved(r)
  BY <1>1, <1>5 DEF NothingMoved
<1>6. CASE MovedUpTo(r, Len(Cart(r)) + 1)
  <2>1. \A v \in Stocked : moved[r][v] = IF copy[r].status = "POSTED" THEN Needs(cart, v) ELSE 0 - Needs(cart, v)
    BY <1>2, <1>3, <1>4, <1>6 DEF MovedUpTo
  <2>2. CASE copy[r].status = "POSTED"
    BY <1>1, <1>2, <1>3, <2>1, <2>2
  <2>3. CASE copy[r].status # "POSTED"
    BY <1>1, <1>2, <1>3, <2>1, <2>3
  <2> QED BY <2>2, <2>3
<1> QED BY <1>5, <1>6 DEF CartInv, CartHeld

LEMMA StockIsFunction == ASSUME TypeOK, TypeOK', \A v \in Stocked : stock'[v] = stock[v] PROVE stock' = stock
BY DEF TypeOK

\* handle_sale_stock and checkout move whole invoices: no request leaves part of a cart taken.
THEOREM CartsMoveWhole == Spec => WholeCarts
<1>1. ASSUME TypeOK, TypeOK', StockInv, CartInv, [Next]_vars PROVE [StockMovesByCart]_vars
  <2>1. SUFFICES ASSUME Next, stock' # stock
                 PROVE  \E cart \in Carts, sign \in {1, -1} :
                          \A v \in Stocked : stock'[v] = stock[v] - sign * Needs(cart, v)
    BY <1>1 DEF StockMovesByCart
  <2>2. PICK r \in Requests : pc[r] \in {"write", "release"} /\ StockCommitted(r)
    BY <1>1, <2>1, StockWrittenBy
  <2>3. Cart(r) \in Carts
    BY <1>1, <2>2 DEF TypeOK, Job, Lines, Cart
  <2>4. \/ \A v \in Stocked : Needs(Cart(r), v) \in Int /\ stock'[v] = stock[v] - Needs(Cart(r), v)
        \/ \A v \in Stocked : Needs(Cart(r), v) \in Int /\ stock'[v] = stock[v] + Needs(Cart(r), v)
    BY <1>1, <2>1, <2>2, WholeCart, StockIsFunction
  <2>5. \A v \in Stocked : stock[v] \in Int
    BY <1>1 DEF TypeOK
  <2>6. CASE \A v \in Stocked : Needs(Cart(r), v) \in Int /\ stock'[v] = stock[v] - Needs(Cart(r), v)
    <3>1. \A v \in Stocked : stock'[v] = stock[v] - 1 * Needs(Cart(r), v)
      BY <2>5, <2>6
    <3> QED BY <2>3, <3>1
  <2>7. CASE \A v \in Stocked : Needs(Cart(r), v) \in Int /\ stock'[v] = stock[v] + Needs(Cart(r), v)
    <3>1. \A v \in Stocked : stock'[v] = stock[v] - (-1) * Needs(Cart(r), v)
      BY <2>5, <2>7
    <3> QED BY <2>3, <3>1
  <2> QED BY <2>4, <2>6, <2>7
<1> QED BY <1>1, Typing, StockAlways, CartAlways, PTL DEF Spec, WholeCarts

\* A checkout that names no variant twice takes no row below zero when the store forbids it:
\* what it compared is still under its locks when it commits.
THEOREM CheckoutsAreCovered == Spec => NoOversell
<1>1. ASSUME TypeOK, StockInv, CartInv, [Next]_vars PROVE [CheckoutCovered]_vars
  <2>1. SUFFICES ASSUME Next, NEW r \in Requests, NEW v \in Stocked,
                        pc[r] = "write", job[r].op = "checkout", ~AllowNegative,
                        OneLinePerVariant(Cart(r)), pc'[r] = "idle", stock'[v] < stock[v]
                 PROVE  stock'[v] >= 0
    BY <1>1 DEF CheckoutCovered
  <2>2. stock[v] \in Int
    BY <1>1 DEF TypeOK
  <2>3. stock' # stock
    BY <2>1, <2>2
  <2>4. StockCommitted(r)
    BY <1>1, <2>1, <2>3, StockWrittenBy
  <2>5. PICK cart \in Seq(Line) : cart = Cart(r)
    BY <1>1, CartType
  <2>6. PICK need \in Int : /\ need = Needs(cart, v)
                            /\ stock'[v] = stock[v] - need \/ stock'[v] = stock[v] + need
    <3>1. Needs(cart, v) \in Int /\ (stock'[v] = stock[v] - Needs(cart, v) \/ stock'[v] = stock[v] + Needs(cart, v))
      BY <1>1, <2>1, <2>2, <2>4, <2>5, WholeCart
    <3> QED BY <3>1
  <2>7. CASE need = 0
    BY <2>1, <2>2, <2>6, <2>7
  <2>8. CASE \E n \in 1..Len(cart) : cart[n].variant = v /\ need = cart[n].qty
    <3>1. PICK n \in 1..Len(cart) : cart[n].variant = v /\ need = cart[n].qty
      BY <2>8
    <3>2. CoveredLine(r, n)
      BY <1>1, <2>1, <2>5, <3>1 DEF CartInv, CartHeld
    <3>3. need <= seen[r][v] /\ stockLock[v] = r /\ need \in Nat
      BY <2>5, <3>1, <3>2, CartLines DEF CoveredLine
    <3>4. seen[r][v] = stock[v]
      BY <1>1, <3>3 DEF StockInv
    <3> QED BY <2>1, <2>2, <2>6, <3>3, <3>4
  <2> QED BY <2>1, <2>5, <2>6, <2>7, <2>8, NeedsOfOne
<1> QED BY <1>1, Typing, StockAlways, CartAlways, PTL DEF Spec, NoOversell

=============================================================================
