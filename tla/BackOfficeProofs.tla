--------------------------- MODULE BackOfficeProofs ---------------------------
(***************************************************************************)
(* Proofs about the back office: refund numbers and what is refunded of a  *)
(* sale, purchases that are received once and cost what their lines do,    *)
(* services that are billed and announced once.                            *)
(*                                                                         *)
(* Each part of the invariant looks at the requests of one component, and  *)
(* says nothing of the others'; Foreign is what a step of theirs does.     *)
(* What holds of a row that one request is editing is said of the request: *)
(* how far it has come, and what its copy still has in common with the row.*)
(***************************************************************************)
EXTENDS BackOffice, Sums

RefundAts   == {"refund.lock", "refund.number", "refund.commit", "refund.save"}
PurchaseAts == {"purchase.old", "purchase.update", "purchase.add", "purchase.save"}
ServiceAts  == {"service.save", "service.bill", "service.bell", "service.return", "notify"}

Slots == req = [w \in Workers |-> req[w]]

\* A step of the other components, to the requests at these statements.
Foreign(ats) == \A w \in Workers : req'[w] = req[w] \/ (req[w].at \notin ats /\ req'[w].at \notin ats)

----------------------------------------------------------------------------
(* Refunds. *)

IsRow(x) ==
  /\ x = [state |-> x.state, inv |-> x.inv, qty |-> x.qty, number |-> x.number, blind |-> x.blind]
  /\ x.number \in Nat

IsRefundJob(j) ==
  j = [at |-> j.at, inv |-> j.inv, was |-> j.was, qty |-> j.qty, restock |-> j.restock,
       held |-> j.held, number |-> j.number]

RefundJob(j) ==
  /\ j.at \in {"refund.lock", "refund.number", "refund.commit"} => IsRefundJob(j)
  /\ j.at \in {"refund.number", "refund.commit"} => j.held \subseteq Rows
  /\ j.at = "refund.commit" =>
       /\ RefundIds # {} => j.number \in Nat
       /\ j.held # {} => \A i \in Rows : refunds[i].number < j.number \/ refunds[i].blind
  /\ j.at = "refund.save" =>
       /\ j.row \in Rows /\ IsRow(j.copy) /\ j.copy.state # "none"
       /\ j.copy.number = refunds[j.row].number /\ j.copy.blind = refunds[j.row].blind

\* At most one request at a time holds locks from its number to its commit.
OneHolds ==
  \A w, x \in Workers :
    req[w].at \in {"refund.number", "refund.commit"} /\ req[x].at \in {"refund.number", "refund.commit"} /\ w # x =>
      req[w].held = {} \/ req[x].held = {}

RefundsInv ==
  /\ refunds = [i \in RefundIds |-> refunds[i]] /\ \A i \in RefundIds : IsRow(refunds[i])
  /\ \A w \in Workers : RefundJob(req[w])
  /\ OneHolds
  /\ RefundNumbersClashWhenBlind

\* Among finitely many refunds there is one with the highest number.
LEMMA HighestExists ==
  ASSUME NEW S, IsFiniteSet(S), S # {}, NEW f \in [S -> Nat]
  PROVE  \E i \in S : \A j \in S : f[j] <= f[i]
<1> DEFINE Bad == {T \in SUBSET S : T # {} /\ ~ \E i \in T : \A j \in T : f[j] <= f[i]}
<1> SUFFICES ASSUME Bad # {} PROVE FALSE
  OBVIOUS
<1>1. Bad \subseteq FiniteSubsetsOf(S)
  BY FS_Subset DEF FiniteSubsetsOf
<1>2. PICK T \in Bad : \A U \in Bad : <<U, T>> \notin StrictSubsetOrdering(S)
  <2> HIDE DEF Bad
  <2> QED BY <1>1, FS_StrictSubsetOrderingWellFounded, WFMin
<1>3. PICK x \in T : TRUE
  OBVIOUS
<1>4. T \ {x} \notin Bad
  BY <1>2, <1>3 DEF StrictSubsetOrdering
<1>5. T \ {x} # {}
  BY <1>2, <1>3
<1>6. PICK m \in T \ {x} : \A j \in T \ {x} : f[j] <= f[m]
  BY <1>2, <1>4, <1>5
<1>7. f[m] \in Nat /\ f[x] \in Nat /\ \A j \in T : f[j] \in Nat
  BY <1>2, <1>3, <1>6
<1>8. CASE f[x] <= f[m]
  BY <1>2, <1>6, <1>8
<1>9. CASE ~(f[x] <= f[m])
  <2>1. \A j \in T : f[j] <= f[x]
    BY <1>6, <1>7, <1>9
  <2> QED BY <1>2, <2>1
<1> QED BY <1>8, <1>9

LEMMA HighestIsMax ==
  ASSUME NEW S, IsFiniteSet(S), S # {}, NEW f \in [S -> Nat]
  PROVE  LET m == Max({f[i] : i \in S}) IN m \in Nat /\ \A i \in S : f[i] <= m
<1> DEFINE N == {f[i] : i \in S}
<1>1. PICK i \in S : \A j \in S : f[j] <= f[i]
  BY HighestExists
<1>2. f[i] \in N /\ \A n \in N : f[i] >= n
  BY <1>1
<1>3. N \subseteq Nat
  OBVIOUS
<1> HIDE DEF N
<1>4. Max(N) \in N /\ \A n \in N : Max(N) >= n
  BY <1>2 DEF Max
<1> QED BY <1>3, <1>4 DEF N

LEMMA RefundsStart == SlotsInit /\ RefundsInit => RefundsInv
<1> SUFFICES ASSUME SlotsInit, RefundsInit PROVE RefundsInv
  OBVIOUS
<1>1. \A w \in Workers : req[w].at = "idle"
  BY DEF SlotsInit, Idle
<1>2. (\A w \in Workers : RefundJob(req[w])) /\ OneHolds
  BY <1>1 DEF RefundJob, OneHolds
<1>3. IsRow(NoRow) /\ NoRow.state = "none"
  BY DEF IsRow, NoRow
<1>4. ASSUME NEW inv, NEW basket, NEW row,
             row = [state |-> "deleted", inv |-> inv, qty |-> basket, number |-> 1, blind |-> FALSE]
      PROVE  IsRow(row)
  BY <1>4 DEF IsRow
<1>5. /\ refunds = [i \in RefundIds |-> refunds[i]] /\ \A i \in RefundIds : IsRow(refunds[i])
      /\ \E old : \A i \in RefundIds : refunds[i].state = "none" \/ i = old
  <2>1. CASE refunds = [i \in RefundIds |-> NoRow]
    BY <1>3, <2>1
  <2>2. ASSUME NEW old \in RefundIds, NEW row, IsRow(row),
               refunds = [i \in RefundIds |-> IF i = old THEN row ELSE NoRow]
        PROVE  /\ refunds = [i \in RefundIds |-> refunds[i]] /\ \A i \in RefundIds : IsRow(refunds[i])
               /\ \A i \in RefundIds : refunds[i].state = "none" \/ i = old
    BY <1>3, <2>2
  <2>3. ASSUME NEW old \in RefundIds, NEW inv \in Invoices, NEW basket \in Baskets,
               refunds = [i \in RefundIds |->
                           IF i = old THEN [state |-> "deleted", inv |-> inv, qty |-> basket, number |-> 1, blind |-> FALSE]
                           ELSE NoRow]
        PROVE  /\ refunds = [i \in RefundIds |-> refunds[i]] /\ \A i \in RefundIds : IsRow(refunds[i])
               /\ \A i \in RefundIds : refunds[i].state = "none" \/ i = old
    <3>1. PICK row : row = [state |-> "deleted", inv |-> inv, qty |-> basket, number |-> 1, blind |-> FALSE]
      OBVIOUS
    <3>2. IsRow(row)
      BY <1>4, <3>1
    <3> QED BY <2>2, <2>3, <3>1, <3>2
  <2> QED BY <2>1, <2>3 DEF RefundsInit
<1>6. \A i, j \in Rows : i = j
  BY <1>5 DEF Rows
<1> QED BY <1>2, <1>5, <1>6 DEF RefundsInv, RefundNumbersClashWhenBlind

\* A step of the other components.
LEMMA RefundsAside ==
  ASSUME RefundsInv, UNCHANGED refunds, Foreign(RefundAts)
  PROVE  RefundsInv'
<1>1. \A w \in Workers : req'[w].at \in RefundAts => req'[w] = req[w]
  BY DEF Foreign
<1>2. (\A w \in Workers : RefundJob(req[w]))'
  BY <1>1 DEF RefundsInv, RefundJob, RefundAts, Rows
<1>3. OneHolds'
  BY <1>1 DEF RefundsInv, OneHolds, RefundAts
<1> QED BY <1>2, <1>3 DEF RefundsInv, RefundNumbersClashWhenBlind, Rows

\* A step that changes one refund request and no refund.
LEMMA RefundsMoved ==
  ASSUME RefundsInv, Slots, NEW w \in Workers, NEW job, req' = [req EXCEPT ![w] = job], UNCHANGED refunds,
         RefundJob(job),
         job.at \in {"refund.number", "refund.commit"} /\ job.held # {} =>
           \A x \in Workers \ {w} : req[x].at \in {"refund.number", "refund.commit"} => req[x].held = {}
  PROVE  RefundsInv'
<1>1. req'[w] = job /\ \A x \in Workers \ {w} : req'[x] = req[x]
  BY DEF Slots
<1>2. \A x \in Workers : RefundJob(req'[x])
  BY <1>1 DEF RefundsInv
<1>3. (\A x \in Workers : RefundJob(req[x]))'
  BY <1>2 DEF RefundJob, Rows
<1>4. OneHolds'
  BY <1>1 DEF RefundsInv, OneHolds
<1> QED BY <1>3, <1>4 DEF RefundsInv, RefundNumbersClashWhenBlind, Rows

\* Requests that read a row before they begin, and those that end without a trace.
LEMMA RefundsBegun ==
  ASSUME RefundsInv, Slots, NEW w \in Workers,
         \/ \E inv \in Invoices \cup {NoInvoice}, b \in Baskets, restock \in BOOLEAN :
              BeginRefund(w, inv, b, restock)
         \/ \E i \in RefundIds : ReadRefund(w, i) \/ RestoreRefund(w, i)
         \/ Refunding(w) /\ Crash(w) /\ UNCHANGED refundVars
  PROVE  RefundsInv'
<1>1. CASE \E inv \in Invoices \cup {NoInvoice}, b \in Baskets, restock \in BOOLEAN :
             BeginRefund(w, inv, b, restock)
  <2>1. PICK inv, b, restock : BeginRefund(w, inv, b, restock)
    BY <1>1
  <2> DEFINE job == [at |-> "refund.lock", inv |-> inv, was |-> inv, qty |-> b, restock |-> restock,
                     held |-> {}, number |-> 0]
  <2>2. req' = [req EXCEPT ![w] = job] /\ UNCHANGED refunds
    BY <2>1 DEF BeginRefund, Begin, refundTables
  <2>3. RefundJob(job) /\ job.held = {}
    BY DEF RefundJob, IsRefundJob
  <2> HIDE DEF job
  <2> QED BY <2>2, <2>3, RefundsMoved
<1>2. CASE \E i \in RefundIds : ReadRefund(w, i) \/ RestoreRefund(w, i)
  <2>1. PICK i \in RefundIds : ReadRefund(w, i) \/ RestoreRefund(w, i)
    BY <1>2
  <2> DEFINE x == refunds[i]
  <2>2. PICK copy, was :
          /\ req' = [req EXCEPT ![w] = [at |-> "refund.save", row |-> i, copy |-> copy, inv |-> copy.inv, was |-> was]]
          /\ \/ \E inv \in Invoices \cup {NoInvoice} : copy = [x EXCEPT !.inv = inv]
             \/ copy = [x EXCEPT !.state = "deleted"]
             \/ copy = [x EXCEPT !.state = "live"]
    <3>1. CASE ReadRefund(w, i)
      <4>1. PICK copy \in {[x EXCEPT !.inv = inv] : inv \in Invoices \cup {NoInvoice}}
                            \cup {[x EXCEPT !.state = "deleted"]} :
              req' = [req EXCEPT ![w] = [at |-> "refund.save", row |-> i, copy |-> copy, inv |-> copy.inv, was |-> x.inv]]
        BY <3>1 DEF ReadRefund, Begin
      <4>2. \/ \E inv \in Invoices \cup {NoInvoice} : copy = [x EXCEPT !.inv = inv]
            \/ copy = [x EXCEPT !.state = "deleted"]
        BY <4>1
      <4> QED BY <4>1, <4>2
    <3>2. CASE RestoreRefund(w, i)
      BY <3>2 DEF RestoreRefund, Begin
    <3> QED BY <2>1, <3>1, <3>2
  <2>3. x.state # "none" /\ UNCHANGED refunds /\ IsRow(x)
    BY <2>1 DEF ReadRefund, RestoreRefund, refundTables, RefundsInv
  <2>4. /\ IsRow(copy) /\ copy.state # "none"
        /\ copy.number = x.number /\ copy.blind = x.blind
    <3>1. ASSUME NEW inv, copy = [x EXCEPT !.inv = inv]
          PROVE  copy = [state |-> x.state, inv |-> inv, qty |-> x.qty, number |-> x.number, blind |-> x.blind]
      BY <2>3, <3>1 DEF IsRow
    <3>2. ASSUME NEW state \in {"live", "deleted"}, copy = [x EXCEPT !.state = state]
          PROVE  copy = [state |-> state, inv |-> x.inv, qty |-> x.qty, number |-> x.number, blind |-> x.blind]
      BY <2>3, <3>2 DEF IsRow
    <3>3. PICK state, inv : /\ state # "none"
                            /\ copy = [state |-> state, inv |-> inv, qty |-> x.qty, number |-> x.number, blind |-> x.blind]
      BY <2>2, <2>3, <3>1, <3>2
    <3> HIDE DEF x
    <3> QED BY <2>3, <3>3 DEF IsRow
  <2> DEFINE job == [at |-> "refund.save", row |-> i, copy |-> copy, inv |-> copy.inv, was |-> was]
  <2>5. RefundJob(job) /\ job.at = "refund.save"
    BY <2>3, <2>4 DEF RefundJob, Rows
  <2> HIDE DEF job
  <2> QED BY <2>2, <2>3, <2>5, RefundsMoved DEF job
<1>3. CASE Refunding(w) /\ Crash(w) /\ UNCHANGED refundVars
  <2>1. req' = [req EXCEPT ![w] = Idle] /\ UNCHANGED refunds
    BY <1>3 DEF Crash, Answer, Proceed, refundTables, refundVars
  <2>2. RefundJob(Idle) /\ Idle.at = "idle"
    BY DEF RefundJob, Idle
  <2> QED BY <2>1, <2>2, RefundsMoved
<1> QED BY <1>1, <1>2, <1>3

\* Whoever finds rows to lock is alone; its number is above all others until it has committed.
LEMMA RefundsNumbered ==
  ASSUME RefundsInv, Slots, RefundsAssumption, NEW w \in Workers, LockRefunds(w) \/ TakeNumber(w)
  PROVE  RefundsInv'
<1>1. RefundJob(req[w])
  BY DEF RefundsInv
<1>2. CASE LockRefunds(w)
  <2> DEFINE job == [req[w] EXCEPT !.at = "refund.number", !.held = Rows]
  <2>1. req' = [req EXCEPT ![w] = job] /\ UNCHANGED refunds
    BY <1>2 DEF LockRefunds, Proceed, refundTables, refundVars
  <2>2. req[w].at = "refund.lock"
    BY <1>2 DEF LockRefunds, At
  <2>3. RefundJob(job) /\ job.held = Rows
    <3>1. IsRefundJob(req[w])
      BY <1>1, <2>2 DEF RefundJob
    <3> DEFINE first == [req[w] EXCEPT !.at = "refund.number"]
    <3>2. first = [at |-> "refund.number", inv |-> req[w].inv, was |-> req[w].was, qty |-> req[w].qty,
                   restock |-> req[w].restock, held |-> req[w].held, number |-> req[w].number]
      BY <3>1 DEF IsRefundJob
    <3>3. job = [first EXCEPT !.held = Rows]
      OBVIOUS
    <3> HIDE DEF job, first
    <3>4. job = [at |-> "refund.number", inv |-> req[w].inv, was |-> req[w].was, qty |-> req[w].qty,
                 restock |-> req[w].restock, held |-> Rows, number |-> req[w].number]
      BY <3>2, <3>3
    <3> QED BY <3>4 DEF RefundJob, IsRefundJob
  <2>4. ASSUME Rows # {}, NEW x \in Workers \ {w}, req[x].at \in {"refund.number", "refund.commit"}
        PROVE  req[x].held = {}
    <3>1. req[x].held \subseteq Rows
      BY <2>4 DEF RefundsInv, RefundJob
    <3>2. req[x].held \subseteq Held(Others(w))
      BY <2>4 DEF Held, Others
    <3> QED BY <1>2, <3>1, <3>2 DEF LockRefunds
  <2> HIDE DEF job
  <2> QED BY <2>1, <2>3, <2>4, RefundsMoved
<1>3. CASE TakeNumber(w)
  <2> DEFINE highest == Max({refunds[i].number : i \in RefundIds})
             job == [req[w] EXCEPT !.at = "refund.commit", !.number = 1 + highest]
  <2>1. req' = [req EXCEPT ![w] = job] /\ UNCHANGED refunds /\ req[w].at = "refund.number"
    BY <1>3 DEF TakeNumber, Proceed, At, refundTables, refundVars
  <2>2. ASSUME RefundIds # {}
        PROVE  highest \in Nat /\ \A i \in RefundIds : refunds[i].number <= highest
    <3> DEFINE f == [i \in RefundIds |-> refunds[i].number]
    <3>1. f \in [RefundIds -> Nat]
      BY DEF RefundsInv, IsRow
    <3>3. {f[i] : i \in RefundIds} = {refunds[i].number : i \in RefundIds}
      OBVIOUS
    <3> HIDE DEF f
    <3>4. Max({f[i] : i \in RefundIds}) \in Nat /\ \A i \in RefundIds : f[i] <= Max({f[i2] : i2 \in RefundIds})
      BY <2>2, <3>1, HighestIsMax, RefundsAssumption
    <3> QED BY <3>3, <3>4 DEF f
  <2> HIDE DEF highest
  <2>3. job.at = "refund.commit" /\ job.held = req[w].held /\ job.number = 1 + highest /\ IsRefundJob(job)
    <3>1. IsRefundJob(req[w])
      BY <1>1, <2>1 DEF RefundJob
    <3> DEFINE first == [req[w] EXCEPT !.at = "refund.commit"]
    <3>2. first = [at |-> "refund.commit", inv |-> req[w].inv, was |-> req[w].was, qty |-> req[w].qty,
                   restock |-> req[w].restock, held |-> req[w].held, number |-> req[w].number]
      BY <3>1 DEF IsRefundJob
    <3>3. job = [first EXCEPT !.number = 1 + highest]
      OBVIOUS
    <3> HIDE DEF job, first
    <3>4. job = [at |-> "refund.commit", inv |-> req[w].inv, was |-> req[w].was, qty |-> req[w].qty,
                 restock |-> req[w].restock, held |-> req[w].held, number |-> 1 + highest]
      BY <3>2, <3>3
    <3> QED BY <3>4 DEF IsRefundJob
  <2> HIDE DEF job
  <2>4. \A i \in Rows : i \in RefundIds /\ refunds[i].number \in Nat
    BY DEF Rows, RefundsInv, IsRow
  <2>5. RefundJob(job)
    BY <1>1, <2>1, <2>2, <2>3, <2>4 DEF RefundJob
  <2>6. job.held # {} =>
          \A x \in Workers \ {w} : req[x].at \in {"refund.number", "refund.commit"} => req[x].held = {}
    BY <2>1, <2>3 DEF RefundsInv, OneHolds
  <2> QED BY <2>1, <2>5, <2>6, RefundsMoved
<1> QED BY <1>2, <1>3

LEMMA RefundsCommitted ==
  ASSUME RefundsInv, Slots, NEW w \in Workers, CommitRefund(w)
  PROVE  RefundsInv'
<1> DEFINE job == req[w]
<1>1. /\ job.at = "refund.commit" /\ req' = [req EXCEPT ![w] = Idle]
      /\ \E i \in RefundIds \ Rows :
           refunds' = [refunds EXCEPT ![i] = [state |-> "live", inv |-> job.inv, qty |-> job.qty,
                                              number |-> job.number, blind |-> job.held = {}]]
  BY DEF CommitRefund, At, Answer, Proceed
<1>2. PICK i \in RefundIds \ Rows :
        refunds' = [refunds EXCEPT ![i] = [state |-> "live", inv |-> job.inv, qty |-> job.qty,
                                           number |-> job.number, blind |-> job.held = {}]]
  BY <1>1
<1>3. RefundJob(job)
  BY DEF RefundsInv
<1>4. job.number \in Nat
  BY <1>1, <1>2, <1>3 DEF RefundJob
<1> DEFINE row == [state |-> "live", inv |-> job.inv, qty |-> job.qty, number |-> job.number, blind |-> job.held = {}]
<1>5. IsRow(row) /\ row.state = "live" /\ row.number = job.number /\ (row.blind <=> job.held = {})
  BY <1>4 DEF IsRow
<1>6. /\ req'[w].at = "idle" /\ \A x \in Workers \ {w} : req'[x] = req[x]
  BY <1>1 DEF Slots, Idle
<1> HIDE DEF row
<1>7. /\ refunds' = [x \in RefundIds |-> refunds'[x]] /\ refunds'[i] = row
      /\ \A x \in RefundIds \ {i} : refunds'[x] = refunds[x]
  BY <1>2 DEF RefundsInv, row
<1>8. Rows' = Rows \cup {i} /\ i \notin Rows
  BY <1>2, <1>5, <1>7 DEF Rows
<1>9. \A x \in RefundIds : IsRow(refunds'[x])
  BY <1>5, <1>7 DEF RefundsInv
<1>10. OneHolds'
  BY <1>6 DEF RefundsInv, OneHolds
<1>11. ASSUME NEW x \in Workers PROVE RefundJob(req[x])'
  <2>1. CASE x = w
    BY <1>6, <2>1 DEF RefundJob
  <2>2. CASE x # w
    <3>1. RefundJob(req[x]) /\ req'[x] = req[x]
      BY <1>6, <2>2 DEF RefundsInv
    <3>2. req[x].at = "refund.commit" /\ req[x].held # {} => job.held = {}
      BY <1>1, <2>2 DEF RefundsInv, OneHolds
    <3>3. req[x].at \in {"refund.lock", "refund.number", "refund.commit"} => IsRefundJob(req[x])
      BY <3>1 DEF RefundJob
    <3>4. req[x].at \in {"refund.number", "refund.commit"} => req[x].held \subseteq Rows'
      BY <3>1, <1>8 DEF RefundJob
    <3>5. req[x].at = "refund.commit" =>
            /\ RefundIds # {} => req[x].number \in Nat
            /\ req[x].held # {} => \A y \in Rows' : refunds'[y].number < req[x].number \/ refunds'[y].blind
      BY <3>1, <3>2, <1>5, <1>7, <1>8 DEF RefundJob, Rows
    <3>6. req[x].at = "refund.save" =>
            /\ req[x].row \in Rows' /\ IsRow(req[x].copy) /\ req[x].copy.state # "none"
            /\ req[x].copy.number = refunds'[req[x].row].number /\ req[x].copy.blind = refunds'[req[x].row].blind
      BY <3>1, <1>7, <1>8 DEF RefundJob, Rows
    <3> QED BY <3>1, <3>3, <3>4, <3>5, <3>6 DEF RefundJob
  <2> QED BY <2>1, <2>2
<1>12. RefundNumbersClashWhenBlind'
  <2>1. ~refunds'[i].blind => \A x \in Rows : refunds[x].number < job.number \/ refunds[x].blind
    BY <1>1, <1>3, <1>5, <1>7 DEF RefundJob
  <2>2. \A x \in Rows : refunds'[x] = refunds[x] /\ refunds[x].number \in Nat
    BY <1>7, <1>8 DEF Rows, RefundsInv, IsRow
  <2>3. ASSUME NEW x \in Rows, refunds'[x].number = refunds'[i].number
        PROVE  refunds'[x].blind \/ refunds'[i].blind
    BY <2>1, <2>2, <2>3, <1>4, <1>5, <1>7
  <2>4. ASSUME NEW x \in Rows, NEW y \in Rows, x # y, refunds'[x].number = refunds'[y].number
        PROVE  refunds'[x].blind \/ refunds'[y].blind
    BY <2>2, <2>4 DEF RefundsInv, RefundNumbersClashWhenBlind
  <2> QED BY <1>8, <2>3, <2>4 DEF RefundNumbersClashWhenBlind
<1> QED BY <1>7, <1>9, <1>10, <1>11, <1>12 DEF RefundsInv

LEMMA RefundsSaved ==
  ASSUME RefundsInv, Slots, NEW w \in Workers, SaveRefund(w)
  PROVE  RefundsInv'
<1> DEFINE row == req[w].row
           copy == req[w].copy
<1>1. req[w].at = "refund.save" /\ req' = [req EXCEPT ![w] = Idle] /\ refunds' = [refunds EXCEPT ![row] = copy]
  BY DEF SaveRefund, At, Answer, Proceed
<1>2. /\ row \in Rows /\ IsRow(copy) /\ copy.state # "none"
      /\ copy.number = refunds[row].number /\ copy.blind = refunds[row].blind
  BY <1>1 DEF RefundsInv, RefundJob
<1> HIDE DEF row, copy
<1>3. /\ refunds' = [x \in RefundIds |-> refunds'[x]] /\ refunds'[row] = copy
      /\ \A x \in RefundIds \ {row} : refunds'[x] = refunds[x]
  BY <1>1, <1>2 DEF RefundsInv, Rows
<1>4. Rows' = Rows
  BY <1>2, <1>3 DEF Rows
<1>5. \A x \in Rows : refunds'[x].number = refunds[x].number /\ refunds'[x].blind = refunds[x].blind
  BY <1>2, <1>3 DEF Rows
<1>6. req'[w].at = "idle" /\ \A x \in Workers \ {w} : req'[x] = req[x]
  BY <1>1 DEF Slots, Idle
<1>7. (\A x \in Workers : RefundJob(req[x]))'
  <2>1. ASSUME NEW x \in Workers PROVE RefundJob(req[x])'
    BY <1>4, <1>5, <1>6 DEF RefundsInv, RefundJob
  <2> QED BY <2>1
<1>8. OneHolds'
  BY <1>6 DEF RefundsInv, OneHolds
<1>9. RefundNumbersClashWhenBlind'
  BY <1>4, <1>5 DEF RefundsInv, RefundNumbersClashWhenBlind
<1>10. \A x \in RefundIds : IsRow(refunds'[x])
  BY <1>2, <1>3 DEF RefundsInv
<1> QED BY <1>3, <1>7, <1>8, <1>9, <1>10 DEF RefundsInv

----------------------------------------------------------------------------
(* What is refunded of a sale. *)

\* Statements of the requests that are about an invoice, or two.
AboutAts == {"refund.lock", "refund.number", "refund.commit", "refund.save"}

RefundedOf == [inv \in Invoices |-> [v \in Variants |-> Refunded(inv, v)]]

Within(inv, qty) == \A v \in Variants : qty[v] > 0 => RefundedOf[inv][v] + qty[v] <= sold[inv][v]

\* A refund leaves an invoice for another one only when both are loose.
Tied(a, b) == a = b \/ {a, b} \subseteq loose

\* A request that creates still fits; one that saves a refund of an invoice that is its own
\* gives back no more than the row has.
CapJob(j) ==
  /\ j.at \in {"refund.lock", "refund.number", "refund.commit"} =>
       /\ j.was = j.inv /\ j.inv \in Invoices \cup {NoInvoice} /\ j.qty \in [Variants -> Nat]
       /\ j.inv \in Invoices \ loose => Within(j.inv, j.qty)
  /\ j.at = "refund.save" =>
       /\ j.row \in RefundIds /\ j.copy.inv = j.inv /\ j.copy.qty = refunds[j.row].qty
       /\ Tied(j.inv, j.was) /\ Tied(refunds[j.row].inv, j.was)
       /\ j.was \in loose \/ refunds[j.row].state = "live"

\* Two requests about the same invoice make it loose.
Alone ==
  \A w, x \in Workers :
    req[w].at \in AboutAts /\ req[x].at \in AboutAts /\ w # x =>
      {req[w].inv, req[w].was} \cap {req[x].inv, req[x].was} \subseteq loose

CapInv ==
  /\ \A i \in RefundIds : refunds[i].qty \in [Variants -> Nat]
  /\ \A w \in Workers : CapJob(req[w])
  /\ Alone
  /\ sold \in [Invoices -> [Variants -> Nat]]

\* What a refund takes of an invoice.
Taken(row, inv, v) == IF row.state = "live" /\ row.inv = inv THEN row.qty[v] ELSE 0

LEMMA RefundedType ==
  ASSUME RefundsAssumption, \A i \in RefundIds : refunds[i].qty \in [Variants -> Nat],
         NEW inv \in Invoices, NEW v \in Variants
  PROVE  RefundedOf[inv][v] = Refunded(inv, v) /\ RefundedOf[inv][v] \in Nat
<1>1. RefundedOf[inv][v] = Refunded(inv, v)
  BY DEF RefundedOf
<1>2. [i \in RefundIds |-> Taken(refunds[i], inv, v)] \in [RefundIds -> Nat]
  BY DEF Taken
<1>3. PICK F \in [RefundIds -> Nat] : F = [i \in RefundIds |-> Taken(refunds[i], inv, v)]
  BY <1>2, Zenon
<1>4. Refunded(inv, v) = SumFunction(F)
  BY <1>3, Zenon DEF Refunded, Taken
<1>5. IsFiniteSet(RefundIds)
  BY DEF RefundsAssumption
<1>6. SumFunction(F) \in Nat
  BY <1>5, SumOfNats
<1> QED BY <1>1, <1>4, <1>6

\* A step that leaves all refunds but one as they are.
LEMMA RefundedChanged ==
  ASSUME RefundsAssumption, \A i \in RefundIds : refunds[i].qty \in [Variants -> Nat],
         NEW k \in RefundIds, NEW row, row.qty \in [Variants -> Nat], refunds' = [refunds EXCEPT ![k] = row],
         refunds = [i \in RefundIds |-> refunds[i]],
         NEW inv \in Invoices, NEW v \in Variants
  PROVE  RefundedOf'[inv][v] = RefundedOf[inv][v] - Taken(refunds[k], inv, v) + Taken(row, inv, v)
<1>1. /\ refunds'[k] = row /\ \A i \in RefundIds \ {k} : refunds'[i] = refunds[i]
      /\ \A i \in RefundIds : refunds'[i].qty \in [Variants -> Nat]
  OBVIOUS
<1>2. /\ [i \in RefundIds |-> Taken(refunds[i], inv, v)] \in [RefundIds -> Int]
      /\ [i \in RefundIds |-> Taken(refunds'[i], inv, v)] \in [RefundIds -> Int]
  BY <1>1 DEF Taken
<1>3. PICK F \in [RefundIds -> Int], G \in [RefundIds -> Int] :
        /\ F = [i \in RefundIds |-> Taken(refunds[i], inv, v)]
        /\ G = [i \in RefundIds |-> Taken(refunds'[i], inv, v)]
  BY <1>2, Zenon
<1>4. RefundedOf[inv][v] = Refunded(inv, v) /\ RefundedOf'[inv][v] = Refunded(inv, v)'
  BY Zenon DEF RefundedOf
<1>5. Refunded(inv, v) = SumFunction(F) /\ Refunded(inv, v)' = SumFunction(G)
  BY <1>3, Zenon DEF Refunded, Taken
<1>6. IsFiniteSet(RefundIds)
  BY DEF RefundsAssumption
<1>7. /\ F[k] = Taken(refunds[k], inv, v) /\ G[k] = Taken(row, inv, v)
      /\ \A i \in RefundIds \ {k} : G[i] = F[i]
  BY <1>1, <1>3
<1>8. SumFunction(G) = SumFunction(F) - F[k] + G[k]
  BY <1>6, <1>7, SumChanged
<1> QED BY <1>4, <1>5, <1>7, <1>8

LEMMA RefundedSame ==
  ASSUME UNCHANGED refunds
  PROVE  RefundedOf' = RefundedOf
BY DEF RefundedOf, Refunded

LEMMA CapStart ==
  ASSUME RefundsAssumption, SlotsInit, RefundsInit
  PROVE  CapInv
<1>1. \A w \in Workers : req[w].at = "idle"
  BY DEF SlotsInit, Idle
<1>2. (\A w \in Workers : CapJob(req[w])) /\ Alone
  BY <1>1 DEF CapJob, Alone, AboutAts
<1>3. Nothing \in [Variants -> Nat]
  BY DEF Nothing
<1> DEFINE Fresh == \A i \in RefundIds : refunds[i].qty \in [Variants -> Nat] /\ refunds[i].state # "live"
<1>4. Fresh
  <2>1. NoRow.qty \in [Variants -> Nat] /\ NoRow.state # "live"
    BY <1>3 DEF NoRow
  <2>2. ASSUME refunds = [i \in RefundIds |-> NoRow] PROVE Fresh
    BY <2>1, <2>2
  <2>3. ASSUME NEW old \in RefundIds, NEW inv \in Invoices, NEW basket \in Baskets,
               refunds = [i \in RefundIds |->
                           IF i = old THEN [state |-> "deleted", inv |-> inv, qty |-> basket, number |-> 1, blind |-> FALSE]
                           ELSE NoRow]
        PROVE  Fresh
    <3>1. basket \in [Variants -> Nat]
      BY DEF RefundsAssumption
    <3>2. PICK row : row = [state |-> "deleted", inv |-> inv, qty |-> basket, number |-> 1, blind |-> FALSE]
      OBVIOUS
    <3>3. row.qty \in [Variants -> Nat] /\ row.state # "live"
      BY <3>1, <3>2
    <3> QED BY <2>1, <2>3, <3>2, <3>3
  <2> HIDE DEF Fresh
  <2>4. CASE \E old \in RefundIds, inv \in Invoices, basket \in Baskets :
               refunds = [i \in RefundIds |->
                            IF i = old THEN [state |-> "deleted", inv |-> inv, qty |-> basket, number |-> 1, blind |-> FALSE]
                            ELSE NoRow]
    <3>1. PICK old \in RefundIds, inv \in Invoices, basket \in Baskets :
               refunds = [i \in RefundIds |->
                            IF i = old THEN [state |-> "deleted", inv |-> inv, qty |-> basket, number |-> 1, blind |-> FALSE]
                            ELSE NoRow]
      BY <2>4
    <3> QED BY <2>3, <3>1, Zenon
  <2> QED BY <2>2, <2>4, Zenon DEF RefundsInit
<1>5. sold \in [Invoices -> [Variants -> Nat]]
  BY DEF RefundsInit, RefundsAssumption
<1> QED BY <1>2, <1>4, <1>5 DEF CapInv

\* What a request knows of the refunds stays true while they stay, and more invoices become loose.
LEMMA CapKept ==
  ASSUME UNCHANGED <<refunds, sold>>, loose \subseteq loose', NEW j, CapJob(j)
  PROVE  CapJob(j)'
<1>1. RefundedOf' = RefundedOf
  BY RefundedSame
<1> QED BY <1>1 DEF CapJob, Within, Tied

\* A step that changes one request and no refund.
LEMMA CapMoved ==
  ASSUME CapInv, Slots, NEW w \in Workers, NEW job, req' = [req EXCEPT ![w] = job],
         UNCHANGED <<refunds, sold>>, loose \subseteq loose', CapJob(job)',
         job.at \in AboutAts =>
           \A x \in Workers \ {w} :
             req[x].at \in AboutAts => {job.inv, job.was} \cap {req[x].inv, req[x].was} \subseteq loose'
  PROVE  CapInv'
<1>1. req'[w] = job /\ \A x \in Workers \ {w} : req'[x] = req[x]
  BY DEF Slots
<1>2. \A x \in Workers : CapJob(req[x])
  BY DEF CapInv
<1>3. ASSUME NEW x \in Workers PROVE CapJob(req[x])'
  <2>1. PICK j : j = req'[x]
    OBVIOUS
  <2>2. CapJob(j)'
    <3>1. CASE x = w
      BY <1>1, <2>1, <3>1
    <3>2. CASE x # w
      <4>1. CapJob(j)
        BY <1>1, <1>2, <2>1, <3>2
      <4> QED BY <4>1, CapKept
    <3> QED BY <3>1, <3>2
  <2> QED BY <2>1, <2>2 DEF CapJob
<1>4. Alone'
  BY <1>1 DEF CapInv, Alone
<1> QED BY <1>3, <1>4 DEF CapInv

\* A step of the other components.
LEMMA CapAside ==
  ASSUME CapInv, UNCHANGED <<refunds, sold, loose>>, Foreign(RefundAts)
  PROVE  CapInv'
<1>1. \A w \in Workers : req'[w].at \in AboutAts => req'[w] = req[w]
  BY DEF Foreign, RefundAts, AboutAts
<1>2. RefundedOf' = RefundedOf
  BY RefundedSame
<1>3. ASSUME NEW w \in Workers PROVE CapJob(req[w])'
  <2>1. CASE req'[w].at \in AboutAts
    BY <1>1, <1>2, <2>1 DEF CapInv, CapJob, Within, Tied
  <2>2. CASE req'[w].at \notin AboutAts
    BY <2>2 DEF CapJob, AboutAts
  <2> QED BY <2>1, <2>2
<1>4. Alone'
  BY <1>1 DEF CapInv, Alone
<1> QED BY <1>3, <1>4 DEF CapInv

\* Who is about an invoice: as the model says it, and as the invariant does.
LEMMA NobodyAbout ==
  ASSUME NEW inv, About(inv) = {}, NEW x \in Workers, req[x].at \in AboutAts
  PROVE  inv \notin {req[x].inv, req[x].was}
BY DEF About, AboutAts

LEMMA CapBegun ==
  ASSUME CapInv, RefundsInv, Slots, RefundsAssumption, NEW w \in Workers,
         \/ \E inv \in Invoices \cup {NoInvoice}, b \in Baskets, restock \in BOOLEAN :
              BeginRefund(w, inv, b, restock)
         \/ Refunding(w) /\ Crash(w) /\ UNCHANGED refundVars
  PROVE  CapInv'
<1>1. CASE \E inv \in Invoices \cup {NoInvoice}, b \in Baskets, restock \in BOOLEAN :
             BeginRefund(w, inv, b, restock)
  <2>1. PICK inv \in Invoices \cup {NoInvoice}, b \in Baskets, restock \in BOOLEAN :
          BeginRefund(w, inv, b, restock)
    BY <1>1
  <2> DEFINE job == [at |-> "refund.lock", inv |-> inv, was |-> inv, qty |-> b, restock |-> restock,
                     held |-> {}, number |-> 0]
  <2>2. /\ req' = [req EXCEPT ![w] = job] /\ UNCHANGED <<refunds, sold>>
        /\ loose' = IF About(inv) = {} THEN loose ELSE loose \cup {inv}
        /\ inv # NoInvoice => Refundable(inv, b)
    BY <2>1 DEF BeginRefund, Begin, refundTables
  <2>3. job.at = "refund.lock" /\ job.inv = inv /\ job.was = inv /\ job.qty = b /\ b \in [Variants -> Nat]
    BY DEF RefundsAssumption
  <2> HIDE DEF job
  <2>4. inv \in Invoices \ loose => Within(inv, b)
    <3> SUFFICES ASSUME inv \in Invoices \ loose, NEW v \in Variants, b[v] > 0
                 PROVE  RefundedOf[inv][v] + b[v] <= sold[inv][v]
      BY DEF Within
    <3>1. inv # NoInvoice /\ sold[inv][v] \in Nat /\ b[v] \in Nat
      BY <2>3 DEF RefundsAssumption, CapInv
    <3>2. RefundedOf[inv][v] = Refunded(inv, v) /\ RefundedOf[inv][v] \in Nat
      BY RefundedType DEF CapInv
    <3>3. b[v] <= sold[inv][v] - Refunded(inv, v)
      BY <2>2, <3>1 DEF Refundable
    <3> QED BY <3>1, <3>2, <3>3
  <2>5. CapJob(job)
    BY <2>3, <2>4 DEF CapJob
  <2>6. loose \subseteq loose'
    BY <2>2
  <2>7. CapJob(job)'
    BY <2>2, <2>5, <2>6, CapKept
  <2>8. ASSUME NEW x \in Workers \ {w}, req[x].at \in AboutAts
        PROVE  {job.inv, job.was} \cap {req[x].inv, req[x].was} \subseteq loose'
    <3>1. CASE About(inv) = {}
      BY <2>3, <2>8, <3>1, NobodyAbout
    <3>2. CASE About(inv) # {}
      BY <2>2, <2>3, <3>2
    <3> QED BY <3>1, <3>2
  <2> QED BY <2>2, <2>6, <2>7, <2>8, CapMoved
<1>2. CASE Refunding(w) /\ Crash(w) /\ UNCHANGED refundVars
  <2>1. req' = [req EXCEPT ![w] = Idle] /\ UNCHANGED <<refunds, sold, loose>>
    BY <1>2 DEF Crash, Answer, Proceed, refundTables, refundVars
  <2>2. PICK job : job = Idle
    OBVIOUS
  <2>3. CapJob(job)' /\ job.at \notin AboutAts
    BY <2>2 DEF CapJob, AboutAts, Idle
  <2> QED BY <2>1, <2>2, <2>3, CapMoved
<1> QED BY <1>1, <1>2

\* Requests about a sale whose lines are replaced are no longer held to its cap.
LEMMA CapEdited ==
  ASSUME CapInv, RefundsAssumption, NEW w \in Workers, NEW inv \in Invoices, NEW cart \in Carts, EditSale(w, inv, cart)
  PROVE  CapInv'
<1>1. /\ UNCHANGED <<req, refunds>> /\ sold' = [sold EXCEPT ![inv] = cart]
      /\ loose' = IF About(inv) = {} THEN loose ELSE loose \cup {inv}
  BY DEF EditSale, AtOnce
<1>2. RefundedOf' = RefundedOf /\ loose \subseteq loose'
  BY <1>1, RefundedSame
<1>3. ASSUME NEW x \in Workers PROVE CapJob(req[x])'
  <2>1. CapJob(req[x])
    BY DEF CapInv
  <2>2. CASE req[x].at \in {"refund.lock", "refund.number", "refund.commit"}
    <3>1. /\ req[x].was = req[x].inv /\ req[x].inv \in Invoices \cup {NoInvoice} /\ req[x].qty \in [Variants -> Nat]
          /\ req[x].inv \in Invoices \ loose => Within(req[x].inv, req[x].qty)
      BY <2>1, <2>2 DEF CapJob
    <3>2. ASSUME req[x].inv \in Invoices \ loose' PROVE sold'[req[x].inv] = sold[req[x].inv]
      <4>1. req[x].at \in AboutAts
        BY <2>2 DEF AboutAts
      <4>2. req[x].inv # inv
        BY <1>1, <3>2, <4>1, NobodyAbout
      <4> QED BY <1>1, <3>2, <4>2 DEF CapInv
    <3>3. req[x].inv \in Invoices \ loose' => Within(req[x].inv, req[x].qty)'
      BY <1>1, <1>2, <3>1, <3>2 DEF Within
    <3> QED BY <1>1, <2>2, <3>1, <3>3 DEF CapJob
  <2>3. CASE req[x].at \notin {"refund.lock", "refund.number", "refund.commit"}
    BY <1>1, <1>2, <2>1, <2>3 DEF CapJob, Tied
  <2> QED BY <2>2, <2>3
<1>4. Alone'
  BY <1>1, <1>2 DEF CapInv, Alone
<1>5. (sold \in [Invoices -> [Variants -> Nat]])'
  BY <1>1 DEF CapInv, RefundsAssumption
<1>6. \A i \in RefundIds : refunds'[i].qty \in [Variants -> Nat]
  BY <1>1 DEF CapInv
<1> QED BY <1>3, <1>4, <1>5, <1>6 DEF CapInv

\* PATCH, DELETE and the trash: whoever moves a refund makes both invoices loose.
LEMMA CapRead ==
  ASSUME CapInv, RefundsInv, Slots, NEW w \in Workers, NEW i \in RefundIds, ReadRefund(w, i) \/ RestoreRefund(w, i)
  PROVE  CapInv'
<1> DEFINE x == refunds[i]
<1>1. IsRow(x) /\ UNCHANGED <<refunds, sold>>
  BY DEF RefundsInv, ReadRefund, RestoreRefund, refundTables
<1>2. PICK copy :
        /\ req' = [req EXCEPT ![w] = [at |-> "refund.save", row |-> i, copy |-> copy, inv |-> copy.inv, was |-> x.inv]]
        /\ loose \subseteq loose' /\ copy.qty = x.qty
        /\ x.inv \in loose' \/ x.state = "live"
        /\ copy.inv = x.inv \/ {copy.inv, x.inv} \subseteq loose'
        /\ \A inv \in {copy.inv, x.inv} : inv \in loose' \/ About(inv) = {}
  <2>1. CASE ReadRefund(w, i)
    <3>1. PICK copy \in {[x EXCEPT !.inv = inv] : inv \in Invoices \cup {NoInvoice}} \cup {[x EXCEPT !.state = "deleted"]} :
            /\ req' = [req EXCEPT ![w] = [at |-> "refund.save", row |-> i, copy |-> copy, inv |-> copy.inv, was |-> x.inv]]
            /\ loose' = loose \cup {inv \in {copy.inv, x.inv} : About(inv) # {} \/ copy.inv # x.inv}
      BY <2>1 DEF ReadRefund, Begin
    <3>2. copy.qty = x.qty
      <4>1. ASSUME NEW inv, copy = [x EXCEPT !.inv = inv] PROVE copy.qty = x.qty
        BY <1>1, <4>1 DEF IsRow
      <4>2. ASSUME copy = [x EXCEPT !.state = "deleted"] PROVE copy.qty = x.qty
        BY <1>1, <4>2 DEF IsRow
      <4> HIDE DEF x
      <4> QED BY <3>1, <4>1, <4>2
    <3>3. x.state = "live"
      BY <2>1 DEF ReadRefund
    <3> HIDE DEF x
    <3> QED BY <3>1, <3>2, <3>3
  <2>2. CASE RestoreRefund(w, i)
    <3>1. PICK copy : copy = [x EXCEPT !.state = "live"]
      OBVIOUS
    <3>2. copy.inv = x.inv /\ copy.qty = x.qty
      BY <1>1, <3>1 DEF IsRow
    <3>3. /\ req' = [req EXCEPT ![w] = [at |-> "refund.save", row |-> i, copy |-> copy, inv |-> copy.inv, was |-> copy.inv]]
          /\ loose' = loose \cup {x.inv}
      BY <2>2, <3>1 DEF RestoreRefund, Begin
    <3> HIDE DEF x
    <3> QED BY <3>2, <3>3
  <2> QED BY <2>1, <2>2
<1>3. PICK job : /\ job.at = "refund.save" /\ job.row = i /\ job.copy = copy /\ job.inv = copy.inv /\ job.was = x.inv
                 /\ req' = [req EXCEPT ![w] = job]
  <2>1. PICK job : job = [at |-> "refund.save", row |-> i, copy |-> copy, inv |-> copy.inv, was |-> x.inv]
    OBVIOUS
  <2>2. /\ job.at = "refund.save" /\ job.row = i /\ job.copy = copy /\ job.inv = copy.inv /\ job.was = x.inv
    BY <2>1
  <2>3. req' = [req EXCEPT ![w] = job]
    BY <1>2, <2>1, Zenon
  <2> QED BY <2>2, <2>3, Zenon
<1>4. CapJob(job)'
  BY <1>1, <1>2, <1>3 DEF CapJob, Tied
<1>5. \A y \in Workers \ {w} :
        req[y].at \in AboutAts => {job.inv, job.was} \cap {req[y].inv, req[y].was} \subseteq loose'
  <2> SUFFICES ASSUME NEW y \in Workers \ {w}, req[y].at \in AboutAts
               PROVE  {job.inv, job.was} \cap {req[y].inv, req[y].was} \subseteq loose'
    OBVIOUS
  <2> QED BY <1>2, <1>3, NobodyAbout
<1>6. UNCHANGED <<refunds, sold>> /\ loose \subseteq loose' /\ req' = [req EXCEPT ![w] = job]
  BY <1>1, <1>2, <1>3
<1> QED BY <1>4, <1>5, <1>6, CapMoved

\* The locks and the number change nothing that the cap depends on.
LEMMA CapNumbered ==
  ASSUME CapInv, RefundsInv, Slots, NEW w \in Workers, LockRefunds(w) \/ TakeNumber(w)
  PROVE  CapInv'
<1>1. IsRefundJob(req[w]) /\ req[w].at \in {"refund.lock", "refund.number"} /\ UNCHANGED <<refunds, sold, loose>>
  BY DEF RefundsInv, RefundJob, LockRefunds, TakeNumber, At, refundVars, refundTables
<1>2. ASSUME NEW j, IsRefundJob(j), NEW at, NEW first, first = [j EXCEPT !.at = at], NEW val
      PROVE  LET held == [first EXCEPT !.held = val]
                 number == [first EXCEPT !.number = val]
             IN  /\ held.at = at /\ held.inv = j.inv /\ held.was = j.was /\ held.qty = j.qty
                 /\ number.at = at /\ number.inv = j.inv /\ number.was = j.was /\ number.qty = j.qty
  <2>1. first = [at |-> at, inv |-> j.inv, was |-> j.was, qty |-> j.qty, restock |-> j.restock,
                 held |-> j.held, number |-> j.number]
    BY <1>2 DEF IsRefundJob
  <2> QED BY <2>1
<1>3. PICK job : /\ req' = [req EXCEPT ![w] = job] /\ job.at \in {"refund.number", "refund.commit"}
                 /\ job.inv = req[w].inv /\ job.was = req[w].was /\ job.qty = req[w].qty
  <2>1. CASE LockRefunds(w)
    <3>1. PICK first, job : first = [req[w] EXCEPT !.at = "refund.number"] /\ job = [first EXCEPT !.held = Rows]
      OBVIOUS
    <3>2. req' = [req EXCEPT ![w] = job]
      BY <2>1, <3>1 DEF LockRefunds, Proceed
    <3>3. /\ job.at \in {"refund.number", "refund.commit"}
          /\ job.inv = req[w].inv /\ job.was = req[w].was /\ job.qty = req[w].qty
      BY <1>1, <1>2, <3>1
    <3> QED BY <3>2, <3>3, Zenon
  <2>2. CASE TakeNumber(w)
    <3>1. PICK n : n = 1 + Max({refunds[i].number : i \in RefundIds})
      OBVIOUS
    <3>2. PICK first, job : first = [req[w] EXCEPT !.at = "refund.commit"] /\ job = [first EXCEPT !.number = n]
      OBVIOUS
    <3>3. req' = [req EXCEPT ![w] = job]
      BY <2>2, <3>1, <3>2 DEF TakeNumber, Proceed
    <3>4. /\ job.at \in {"refund.number", "refund.commit"}
          /\ job.inv = req[w].inv /\ job.was = req[w].was /\ job.qty = req[w].qty
      BY <1>1, <1>2, <3>2
    <3> QED BY <3>3, <3>4, Zenon
  <2> QED BY <2>1, <2>2
<1>4. CapJob(req[w])
  BY DEF CapInv
<1>5. CapJob(job)
  BY <1>1, <1>3, <1>4 DEF CapJob
<1>6. CapJob(job)'
  BY <1>1, <1>5, CapKept
<1>7. \A x \in Workers \ {w} :
        req[x].at \in AboutAts => {job.inv, job.was} \cap {req[x].inv, req[x].was} \subseteq loose'
  BY <1>1, <1>3 DEF CapInv, Alone, AboutAts
<1> QED BY <1>1, <1>3, <1>6, <1>7, CapMoved

\* Others who save the row that is written are still right about it.
OthersAgree(w, k, row) ==
  \A x \in Workers \ {w} : req[x].at = "refund.save" /\ req[x].row = k =>
    /\ req[x].copy.qty = row.qty
    /\ Tied(row.inv, req[x].was)
    /\ req[x].was \in loose \/ row.state = "live"

\* The sums grow only for the invoice that the request is about, and not above what was sold.
GrowsWithin(w) ==
  \A inv \in Invoices \ loose : \A v \in Variants :
    RefundedOf'[inv][v] <= RefundedOf[inv][v]
      \/ /\ req[w].at \in AboutAts /\ req[w].inv = inv
         /\ RefundedOf'[inv][v] <= sold[inv][v]

\* A refund is written by a request that then ends: the sums of the invoices that are not loose
\* grow by what that request may take, and no other request is about those it grows for.
LEMMA CapWritten ==
  ASSUME CapInv, Slots, RefundsAssumption, NEW w \in Workers, req' = [req EXCEPT ![w] = Idle],
         NEW k \in RefundIds, NEW row, row.qty \in [Variants -> Nat],
         refunds = [i \in RefundIds |-> refunds[i]], refunds' = [refunds EXCEPT ![k] = row], UNCHANGED <<sold, loose>>,
         GrowsWithin(w), OthersAgree(w, k, row)
  PROVE  CapInv'
<1>1. /\ refunds'[k] = row /\ \A i \in RefundIds \ {k} : refunds'[i] = refunds[i]
      /\ req'[w] = Idle /\ \A x \in Workers \ {w} : req'[x] = req[x]
  BY DEF Slots
<1>2. \A i \in RefundIds : refunds[i].qty \in [Variants -> Nat] /\ refunds'[i].qty \in [Variants -> Nat]
  BY <1>1 DEF CapInv
<1>3. \A inv \in Invoices : \A v \in Variants : RefundedOf[inv][v] \in Nat /\ RefundedOf'[inv][v] \in Nat
  <2>1. ASSUME NEW inv \in Invoices, NEW v \in Variants
        PROVE  RefundedOf[inv][v] \in Nat /\ RefundedOf'[inv][v] \in Nat
    <3>1. RefundedOf[inv][v] \in Nat
      BY <1>2, RefundedType
    <3>2. refunds[k].qty \in [Variants -> Nat]
      BY <1>2
    <3>3. RefundedOf'[inv][v] = RefundedOf[inv][v] - Taken(refunds[k], inv, v) + Taken(row, inv, v)
      BY <1>2, RefundedChanged
    <3>4. PICK F \in [RefundIds -> Nat] : F = [i \in RefundIds |-> Taken(refunds'[i], inv, v)]
      <4>1. [i \in RefundIds |-> Taken(refunds'[i], inv, v)] \in [RefundIds -> Nat]
        BY <1>2 DEF Taken
      <4> QED BY <4>1, Zenon
    <3>5. RefundedOf'[inv][v] = SumFunction(F)
      BY <3>4, Zenon DEF RefundedOf, Refunded, Taken
    <3>6. IsFiniteSet(RefundIds)
      BY DEF RefundsAssumption
    <3>7. SumFunction(F) \in Nat
      BY <3>6, SumOfNats
    <3> QED BY <3>1, <3>5, <3>7
  <2> QED BY <2>1
<1>4. \A inv \in Invoices : \A v \in Variants : sold[inv][v] \in Nat
  BY DEF CapInv
<1>5. (sold \in [Invoices -> [Variants -> Nat]])'
  BY DEF CapInv
<1>6. Alone'
  BY <1>1 DEF CapInv, Alone, Idle, AboutAts
<1>7. ASSUME NEW x \in Workers PROVE CapJob(req[x])'
  <2>1. CASE x = w
    BY <1>1, <2>1 DEF CapJob, Idle
  <2>2. CASE x # w
    <3>1. CapJob(req[x]) /\ req'[x] = req[x]
      BY <1>1, <2>2 DEF CapInv
    <3>2. CASE req[x].at \in {"refund.lock", "refund.number", "refund.commit"}
      <4>1. /\ req[x].was = req[x].inv /\ req[x].inv \in Invoices \cup {NoInvoice} /\ req[x].qty \in [Variants -> Nat]
            /\ req[x].inv \in Invoices \ loose => Within(req[x].inv, req[x].qty)
        BY <3>1, <3>2 DEF CapJob
      <4>2. ASSUME req[x].inv \in Invoices \ loose, NEW v \in Variants, req[x].qty[v] > 0
            PROVE  RefundedOf'[req[x].inv][v] + req[x].qty[v] <= sold[req[x].inv][v]
        <5>1. ~(req[w].at \in AboutAts /\ req[w].inv = req[x].inv)
          BY <2>2, <3>2, <4>1, <4>2 DEF CapInv, Alone, AboutAts
        <5>2. PICK inv \in Invoices \ loose : inv = req[x].inv
          BY <4>2
        <5>3. RefundedOf'[inv][v] <= RefundedOf[inv][v]
          BY <5>1, <5>2 DEF GrowsWithin
        <5>4. RefundedOf[inv][v] + req[x].qty[v] <= sold[inv][v] /\ req[x].qty[v] \in Nat
          BY <4>1, <4>2, <5>2 DEF Within
        <5>5. RefundedOf[inv][v] \in Nat /\ RefundedOf'[inv][v] \in Nat /\ sold[inv][v] \in Nat
          BY <1>3, <1>4
        <5> QED BY <5>2, <5>3, <5>4, <5>5
      <4> QED BY <3>1, <3>2, <4>1, <4>2 DEF CapJob, Within
    <3>3. CASE req[x].at = "refund.save"
      BY <1>1, <2>2, <3>1, <3>3 DEF CapJob, Tied, OthersAgree
    <3>4. CASE req[x].at \notin AboutAts
      BY <3>1, <3>4 DEF CapJob, AboutAts
    <3> QED BY <3>2, <3>3, <3>4 DEF AboutAts
  <2> QED BY <2>1, <2>2
<1> QED BY <1>2, <1>5, <1>6, <1>7 DEF CapInv

LEMMA CapCommitted ==
  ASSUME CapInv, RefundsInv, Slots, RefundsAssumption, NEW w \in Workers, CommitRefund(w)
  PROVE  CapInv' /\ GrowsWithin(w)
<1> DEFINE job == req[w]
<1>1. /\ job.at = "refund.commit" /\ req' = [req EXCEPT ![w] = Idle] /\ UNCHANGED <<sold, loose>>
      /\ \E i \in RefundIds \ Rows :
           refunds' = [refunds EXCEPT ![i] = [state |-> "live", inv |-> job.inv, qty |-> job.qty,
                                              number |-> job.number, blind |-> job.held = {}]]
  BY DEF CommitRefund, At, Answer, Proceed
<1>2. PICK i \in RefundIds \ Rows :
        refunds' = [refunds EXCEPT ![i] = [state |-> "live", inv |-> job.inv, qty |-> job.qty,
                                           number |-> job.number, blind |-> job.held = {}]]
  BY <1>1
<1>3. PICK row : /\ row.state = "live" /\ row.inv = job.inv /\ row.qty = job.qty
                 /\ refunds' = [refunds EXCEPT ![i] = row]
  <2>1. PICK row : row = [state |-> "live", inv |-> job.inv, qty |-> job.qty,
                          number |-> job.number, blind |-> job.held = {}]
    OBVIOUS
  <2>2. row.state = "live" /\ row.inv = job.inv /\ row.qty = job.qty
    BY <2>1
  <2>3. refunds' = [refunds EXCEPT ![i] = row]
    BY <1>2, <2>1, Zenon
  <2> QED BY <2>2, <2>3, Zenon
<1>4. /\ job.was = job.inv /\ job.qty \in [Variants -> Nat]
      /\ job.inv \in Invoices \ loose => Within(job.inv, job.qty)
  BY <1>1 DEF CapInv, CapJob
<1>5. refunds[i].state # "live" /\ refunds[i].state = "none"
  BY <1>2 DEF Rows
<1>6. refunds = [x \in RefundIds |-> refunds[x]] /\ \A x \in RefundIds : refunds[x].qty \in [Variants -> Nat]
  BY DEF RefundsInv, CapInv
<1>7. ASSUME NEW inv \in Invoices \ loose, NEW v \in Variants
      PROVE  RefundedOf'[inv][v] <= RefundedOf[inv][v]
               \/ /\ job.at \in AboutAts /\ job.inv = inv
                  /\ RefundedOf'[inv][v] <= sold[inv][v]
  <2>1. RefundedOf'[inv][v] = RefundedOf[inv][v] - Taken(refunds[i], inv, v) + Taken(row, inv, v)
    BY <1>3, <1>4, <1>6, RefundedChanged
  <2>2. RefundedOf[inv][v] \in Nat
    BY <1>6, RefundedType
  <2>3. Taken(refunds[i], inv, v) = 0
    BY <1>5 DEF Taken
  <2>4. CASE job.inv = inv
    <3>1. Taken(row, inv, v) = job.qty[v] /\ job.qty[v] \in Nat
      BY <1>3, <1>4, <2>4 DEF Taken
    <3>2. job.qty[v] > 0 => RefundedOf[inv][v] + job.qty[v] <= sold[inv][v]
      BY <1>4, <2>4 DEF Within
    <3>3. job.at \in AboutAts
      BY <1>1 DEF AboutAts
    <3> QED BY <2>1, <2>2, <2>3, <2>4, <3>1, <3>2, <3>3
  <2>5. CASE job.inv # inv
    <3>1. Taken(row, inv, v) = 0
      BY <1>3, <2>5 DEF Taken
    <3> QED BY <2>1, <2>2, <2>3, <3>1
  <2> QED BY <2>4, <2>5
<1>8. OthersAgree(w, i, row)
  BY <1>2 DEF RefundsInv, RefundJob, OthersAgree
<1>9. GrowsWithin(w)
  BY <1>7 DEF GrowsWithin
<1>10. row.qty \in [Variants -> Nat]
  BY <1>3, <1>4
<1> QED BY <1>1, <1>3, <1>6, <1>8, <1>9, <1>10, CapWritten

LEMMA CapSaved ==
  ASSUME CapInv, RefundsInv, Slots, RefundsAssumption, NEW w \in Workers, SaveRefund(w)
  PROVE  CapInv' /\ GrowsWithin(w)
<1>1. PICK k, copy, inv0, was :
        /\ k = req[w].row /\ copy = req[w].copy /\ inv0 = req[w].inv /\ was = req[w].was
        /\ req[w].at = "refund.save" /\ req' = [req EXCEPT ![w] = Idle]
        /\ refunds' = [refunds EXCEPT ![k] = copy] /\ UNCHANGED <<sold, loose>>
  BY DEF SaveRefund, At, Answer, Proceed
<1>2. /\ k \in RefundIds /\ copy.inv = inv0 /\ copy.qty = refunds[k].qty
      /\ Tied(inv0, was) /\ Tied(refunds[k].inv, was)
      /\ was \in loose \/ refunds[k].state = "live"
  BY <1>1 DEF CapInv, CapJob
<1>3. refunds = [x \in RefundIds |-> refunds[x]] /\ \A x \in RefundIds : refunds[x].qty \in [Variants -> Nat]
  BY DEF RefundsInv, CapInv
<1>4. copy.qty \in [Variants -> Nat]
  BY <1>2, <1>3
<1>5. ASSUME NEW inv \in Invoices \ loose, NEW v \in Variants
      PROVE  RefundedOf'[inv][v] <= RefundedOf[inv][v]
  <2>1. RefundedOf'[inv][v] = RefundedOf[inv][v] - Taken(refunds[k], inv, v) + Taken(copy, inv, v)
    BY <1>1, <1>2, <1>3, <1>4, RefundedChanged
  <2>2. RefundedOf[inv][v] \in Nat
    BY <1>3, RefundedType
  <2>3. /\ Taken(refunds[k], inv, v) \in Nat /\ Taken(copy, inv, v) \in Nat
        /\ Taken(copy, inv, v) <= Taken(refunds[k], inv, v)
    <3>1. copy.qty[v] = refunds[k].qty[v] /\ copy.qty[v] \in Nat
      BY <1>2, <1>4
    <3>2. copy.inv = inv => refunds[k].inv = inv /\ refunds[k].state = "live"
      BY <1>2 DEF Tied
    <3> QED BY <3>1, <3>2 DEF Taken
  <2> QED BY <2>1, <2>2, <2>3
<1>6. OthersAgree(w, k, copy)
  <2> SUFFICES ASSUME NEW x \in Workers \ {w}, req[x].at = "refund.save", req[x].row = k
               PROVE  /\ req[x].copy.qty = copy.qty
                      /\ Tied(copy.inv, req[x].was)
                      /\ req[x].was \in loose
    BY DEF OthersAgree
  <2>1. /\ req[x].copy.qty = refunds[k].qty
        /\ Tied(req[x].inv, req[x].was) /\ Tied(refunds[k].inv, req[x].was)
    BY DEF CapInv, CapJob
  <2>2. Tied(copy.inv, req[x].was) /\ Tied(was, req[x].was)
    BY <1>2, <2>1 DEF Tied
  <2>3. req[x].was \in loose
    BY <1>1, <2>2 DEF CapInv, Alone, AboutAts, Tied
  <2> QED BY <1>2, <2>1, <2>2, <2>3
<1>7. GrowsWithin(w)
  BY <1>5 DEF GrowsWithin
<1>8. k \in RefundIds /\ req' = [req EXCEPT ![w] = Idle] /\ UNCHANGED <<sold, loose>>
  BY <1>1, <1>2
<1> QED BY <1>1, <1>3, <1>4, <1>6, <1>7, <1>8, CapWritten

----------------------------------------------------------------------------
(* Purchases. *)

IsPurchase(x) ==
  x = [state |-> x.state, status |-> x.status, supplier |-> x.supplier, number |-> x.number,
       total |-> x.total, staged |-> x.staged]

\* What a request knows of a purchase that it has for itself: the row is as it was read, and
\* was added to stock just when it, or the copy about to replace it, is RECEIVED.
Stage(j) ==
  /\ j.copy.total = purchases[j.row].total /\ j.goods = lines[j.row]
  /\ j.at # "purchase.save" => (added[j.row] = 1 <=> purchases[j.row].status = "RECEIVED")
  /\ j.at = "purchase.old" =>
       /\ j.how = "patch" => purchases[j.row].state = "live"
       /\ j.how # "patch" => \/ purchases[j.row].state = "live" /\ j.copy.status = "RECEIVED"
                           \/ j.copy.status = purchases[j.row].status
  /\ j.at = "purchase.update" => purchases[j.row].state = "live" /\ (j.moves <=> Moves(purchases[j.row], j.copy))
  /\ j.at = "purchase.add" => added[j.row] = 0 /\ j.copy.status = "RECEIVED"
  /\ j.at = "purchase.save" => (added[j.row] = 1 <=> j.copy.status = "RECEIVED")

PurchaseJob(j) ==
  j.at \in PurchaseAts =>
    /\ j.row \in Purchases /\ purchases[j.row].state # "none"
    /\ IsPurchase(j.copy) /\ j.copy.state # "none"
    /\ j.copy.status \in PurchaseStatus
    /\ j.at = "purchase.add" => j = [at |-> j.at, row |-> j.row, goods |-> j.goods, had |-> j.had,
                                     moves |-> j.moves, copy |-> j.copy]
    /\ j.row \in jostled \/ Stage(j)

OneBuys ==
  \A w, x \in Workers :
    req[w].at \in PurchaseAts /\ req[x].at \in PurchaseAts /\ req[w].row = req[x].row /\ w # x => req[w].row \in jostled

NewPurchases == \A p \in Purchases : purchases[p].state = "none" => purchases[p].status = "DRAFT" /\ added[p] = 0

Totals == \A p \in Purchases \ jostled : lines[p] # Nothing => purchases[p].total = Units(lines[p])

Free(p) == \A w \in Workers : req[w].at \in PurchaseAts => req[w].row # p

Received ==
  \A p \in Purchases \ jostled : added[p] <= 1 /\ (Free(p) => (added[p] = 1 <=> purchases[p].status = "RECEIVED"))

\* The stock was given the lines a purchase has, or some of these were real too late.
Stocked == \A p \in Purchases \ jostled : added[p] = 1 => p \in late \/ lines[p] = brought[p]

PurchasesInv ==
  /\ purchases = [p \in Purchases |-> purchases[p]]
  /\ \A p \in Purchases : IsPurchase(purchases[p]) /\ purchases[p].status \in PurchaseStatus
  /\ lines = [p \in Purchases |-> lines[p]] /\ added \in [Purchases -> Nat]
  /\ brought = [p \in Purchases |-> brought[p]]
  /\ \A w \in Workers : PurchaseJob(req[w])
  /\ OneBuys /\ NewPurchases /\ Totals /\ Received /\ Stocked

LEMMA PurchasesStart == SlotsInit /\ PurchasingInit => PurchasesInv
<1> SUFFICES ASSUME SlotsInit, PurchasingInit PROVE PurchasesInv
  OBVIOUS
<1>1. \A w \in Workers : req[w].at = "idle"
  BY DEF SlotsInit, Idle
<1>2. IsPurchase(NoPurchase) /\ NoPurchase.status = "DRAFT"
  BY DEF IsPurchase, NoPurchase
<1>3. (\A w \in Workers : PurchaseJob(req[w])) /\ OneBuys
  BY <1>1 DEF PurchaseJob, OneBuys, PurchaseAts
<1>4. NewPurchases /\ Totals /\ Received /\ Stocked
  BY <1>2 DEF PurchasingInit, NewPurchases, Totals, Received, Stocked, NoPurchase
<1> QED BY <1>2, <1>3, <1>4 DEF PurchasingInit, PurchasesInv, PurchaseStatus

LEMMA PurchasesAside ==
  ASSUME PurchasesInv, UNCHANGED <<purchases, lines, receipts, jostled>>, Foreign(PurchaseAts)
  PROVE  PurchasesInv'
<1>1. \A w \in Workers : req'[w].at \in PurchaseAts => req'[w] = req[w]
  BY DEF Foreign
<1>2. \A w \in Workers : req[w].at \in PurchaseAts => req'[w] = req[w]
  BY DEF Foreign
<1> USE DEF receipts
<1>3. ASSUME NEW w \in Workers PROVE PurchaseJob(req[w])'
  <2>1. req'[w].at \in PurchaseAts => req'[w] = req[w] /\ PurchaseJob(req[w])
    BY <1>1 DEF PurchasesInv
  <2>2. req'[w].at \in PurchaseAts /\ Stage(req[w]) => Stage(req[w])'
    BY <2>1 DEF Stage, Moves
  <2> QED BY <2>1, <2>2 DEF PurchaseJob
<1>4. OneBuys'
  BY <1>1 DEF PurchasesInv, OneBuys
<1>5. (NewPurchases /\ Totals /\ Stocked)'
  BY DEF PurchasesInv, NewPurchases, Totals, Stocked
<1>6. Received'
  BY <1>2 DEF PurchasesInv, Received, Free
<1> QED BY <1>3, <1>4, <1>5, <1>6 DEF PurchasesInv

\* What the operators on copies keep.
LEMMA NumberedKeeps ==
  ASSUME NEW c, IsPurchase(c)
  PROVE  /\ IsPurchase(Numbered(c)) /\ Numbered(c).state = c.state /\ Numbered(c).status = c.status
         /\ Numbered(c).supplier = c.supplier /\ Numbered(c).total = c.total
<1>1. PICK x : x = Numbered(c)
  OBVIOUS
<1>2. CASE x = c
  BY <1>1, <1>2
<1>3. CASE x = [c EXCEPT !.number = counted + 1]
  <2>1. IsPurchase(x)
    BY <1>3 DEF IsPurchase
  <2>2. x.state = c.state /\ x.status = c.status /\ x.supplier = c.supplier /\ x.total = c.total
    BY <1>3 DEF IsPurchase
  <2> QED BY <1>1, <2>1, <2>2
<1> QED BY <1>1, <1>2, <1>3 DEF Numbered

LEMMA TotalledKeeps ==
  ASSUME NEW c, IsPurchase(c), NEW goods
  PROVE  /\ IsPurchase(Totalled(c, goods)) /\ Totalled(c, goods).state = c.state /\ Totalled(c, goods).status = c.status
         /\ goods # Nothing => Totalled(c, goods).total = Units(goods)
<1>1. PICK x : x = Totalled(c, goods)
  OBVIOUS
<1>2. CASE x = c /\ goods = Nothing
  BY <1>1, <1>2
<1>3. CASE x = [c EXCEPT !.total = Units(goods)]
  <2>1. IsPurchase(x)
    BY <1>3 DEF IsPurchase
  <2>2. x.state = c.state /\ x.status = c.status /\ x.total = Units(goods)
    BY <1>3 DEF IsPurchase
  <2> QED BY <1>1, <2>1, <2>2
<1> QED BY <1>1, <1>2, <1>3 DEF Totalled

LEMMA StagedKeeps ==
  ASSUME NEW c, IsPurchase(c), NEW goods, NEW x, x = [c EXCEPT !.staged = goods]
  PROVE  IsPurchase(x) /\ x.state = c.state /\ x.status = c.status /\ x.total = c.total
<1>1. IsPurchase(x)
  BY DEF IsPurchase
<1>2. x.state = c.state /\ x.status = c.status /\ x.total = c.total
  BY DEF IsPurchase
<1> QED BY <1>1, <1>2

LEMMA AppliedKeeps ==
  ASSUME NEW c, IsPurchase(c), NEW existing, NEW new
  PROVE  LET x == Applied(c, existing, new)
         IN  /\ IsPurchase(x) /\ x.state = c.state /\ x.status = c.status
             /\ Kept(c, existing, new) # Nothing => x.total = Units(Kept(c, existing, new))
<1>1. PICK goods : goods = Kept(c, existing, new)
  OBVIOUS
<1>2. PICK staged : staged = IF c.supplier THEN Nothing ELSE new
  OBVIOUS
<1>3. PICK x : x = [Totalled(c, goods) EXCEPT !.staged = staged]
  OBVIOUS
<1>4. Applied(c, existing, new) = x
  BY <1>1, <1>2, <1>3 DEF Applied
<1>5. PICK t : t = Totalled(c, goods)
  OBVIOUS
<1>6. x = [t EXCEPT !.staged = staged] /\ IsPurchase(t) /\ t.state = c.state /\ t.status = c.status
      /\ (goods # Nothing => t.total = Units(goods))
  BY <1>3, <1>5, TotalledKeeps
<1>7. IsPurchase(x) /\ x.state = t.state /\ x.status = t.status /\ x.total = t.total
  BY <1>6, StagedKeeps
<1> QED BY <1>1, <1>4, <1>6, <1>7

\* A step of request w changes nothing but purchase p; another request for p overlaps with it.
OnlyPurchase(p) ==
  /\ purchases' = [q \in Purchases |-> purchases'[q]]
  /\ lines' = [q \in Purchases |-> lines'[q]] /\ added' \in [Purchases -> Nat]
  /\ brought' = [q \in Purchases |-> brought'[q]]
  /\ \A q \in Purchases \ {p} :
       /\ purchases'[q] = purchases[q] /\ lines'[q] = lines[q] /\ added'[q] = added[q] /\ brought'[q] = brought[q]
       /\ q \in late' <=> q \in late
  /\ jostled \subseteq jostled' /\ jostled' \subseteq jostled \cup {p}

OnlyRequest(w, p) ==
  /\ \A x \in Workers \ {w} :
       req'[x] = req[x] /\ (req[x].at \in PurchaseAts /\ req[x].row = p => p \in jostled')
  /\ req[w].at \in PurchaseAts => req[w].row = p
  /\ req'[w].at \in PurchaseAts => req'[w].row = p

\* What must hold of the purchase then, and of the request if it goes on.
LEMMA PurchaseMoved ==
  ASSUME PurchasesInv, NEW w \in Workers, NEW p \in Purchases, OnlyPurchase(p), OnlyRequest(w, p),
         PurchaseJob(req[w])',
         purchases'[p].state # "none", IsPurchase(purchases'[p]), purchases'[p].status \in PurchaseStatus,
         p \notin jostled' =>
           /\ lines'[p] # Nothing => purchases'[p].total = Units(lines'[p])
           /\ added'[p] <= 1 /\ (added'[p] = 1 => p \in late' \/ lines'[p] = brought'[p])
           /\ req'[w].at \notin PurchaseAts => (added'[p] = 1 <=> purchases'[p].status = "RECEIVED")
  PROVE  PurchasesInv'
<1>1. ASSUME NEW x \in Workers PROVE PurchaseJob(req[x])'
  <2>1. CASE x = w
    BY <2>1
  <2>2. CASE x # w
    <3>1. req'[x] = req[x] /\ PurchaseJob(req[x]) /\ (req[x].at \in PurchaseAts /\ req[x].row = p => p \in jostled')
      BY <2>2 DEF OnlyRequest, PurchasesInv
    <3>2. req[x].at \in PurchaseAts /\ req[x].row # p =>
            /\ purchases'[req[x].row] = purchases[req[x].row] /\ added'[req[x].row] = added[req[x].row]
            /\ lines'[req[x].row] = lines[req[x].row]
      BY <3>1 DEF PurchaseJob, OnlyPurchase
    <3>3. req[x].at \in PurchaseAts /\ req[x].row # p /\ Stage(req[x]) => Stage(req[x])'
      BY <3>1, <3>2 DEF Stage, Moves
    <3>4. jostled \subseteq jostled'
      BY DEF OnlyPurchase
    <3>5. req[x].at \in PurchaseAts => req[x].row \in jostled' \/ Stage(req[x])'
      BY <3>1, <3>3, <3>4 DEF PurchaseJob
    <3>6. req[x].at \in PurchaseAts => purchases'[req[x].row].state # "none"
      <4>1. CASE req[x].row = p
        BY <4>1
      <4>2. CASE req[x].row # p
        BY <3>1, <3>2, <4>2 DEF PurchaseJob
      <4> QED BY <4>1, <4>2
    <3> QED BY <3>1, <3>5, <3>6 DEF PurchaseJob
  <2> QED BY <2>1, <2>2
<1>2. OneBuys'
  BY DEF PurchasesInv, OneBuys, OnlyRequest, OnlyPurchase
<1>3. (NewPurchases /\ Totals /\ Stocked)'
  BY DEF PurchasesInv, NewPurchases, Totals, Stocked, OnlyPurchase
<1>4. Received'
  <2> SUFFICES ASSUME NEW q \in Purchases, q \notin jostled'
               PROVE  added'[q] <= 1 /\ (Free(q)' => (added'[q] = 1 <=> purchases'[q].status = "RECEIVED"))
    BY DEF Received
  <2>1. CASE q = p
    BY <2>1 DEF OnlyRequest, Free
  <2>2. CASE q # p
    <3>1. q \notin jostled /\ added'[q] = added[q] /\ purchases'[q] = purchases[q]
      BY <2>2 DEF OnlyPurchase
    <3>2. added[q] <= 1 /\ (Free(q) => (added[q] = 1 <=> purchases[q].status = "RECEIVED"))
      BY <3>1 DEF PurchasesInv, Received
    <3>3. CASE Free(q)
      BY <3>1, <3>2, <3>3
    <3>4. CASE ~Free(q)
      <4>1. PICK x \in Workers : req[x].at \in PurchaseAts /\ req[x].row = q
        BY <3>4 DEF Free
      <4>2. req'[x] = req[x]
        BY <2>2, <4>1 DEF OnlyRequest
      <4> QED BY <3>1, <3>2, <4>1, <4>2 DEF Free
    <3> QED BY <3>3, <3>4
  <2> QED BY <2>1, <2>2
<1>5. \A q \in Purchases : IsPurchase(purchases'[q]) /\ purchases'[q].status \in PurchaseStatus
  BY DEF PurchasesInv, OnlyPurchase
<1> QED BY <1>1, <1>2, <1>3, <1>4, <1>5 DEF PurchasesInv, OnlyPurchase

LEMMA PurchaseCreated ==
  ASSUME PurchasesInv, NEW w \in Workers, NEW p \in Purchases, CreatePurchase(w, p)
  PROVE  PurchasesInv'
<1>1. purchases[p].state = "none" /\ req[w] = Idle /\ req' = req /\ UNCHANGED <<added, brought, late>>
  BY DEF CreatePurchase, AtOnce, receipts
<1> DEFINE Copy(status, supplier) == [NoPurchase EXCEPT !.state = "live", !.status = status, !.supplier = supplier]
<1>2. PICK supplier \in BOOLEAN, status \in PurchaseStatus, existing \in Orders, new \in Orders :
        /\ purchases' = [purchases EXCEPT ![p] = Applied(Numbered(Copy(status, supplier)), existing, new)]
        /\ lines' = [lines EXCEPT ![p] = Kept(Copy(status, supplier), existing, new)]
        /\ jostled' = IF status = "RECEIVED" THEN jostled \cup {p} ELSE jostled
  BY DEF CreatePurchase
<1> DEFINE a == [NoPurchase EXCEPT !.state = "live"]
           b == [a EXCEPT !.status = status]
           copy == Copy(status, supplier)
<1>3. IsPurchase(a) /\ a.state = "live"
  <2>1. IsPurchase(NoPurchase)
    BY DEF IsPurchase, NoPurchase
  <2> QED BY <2>1 DEF IsPurchase
<1>4. copy = [b EXCEPT !.supplier = supplier]
  BY <1>2
<1> HIDE DEF a
<1>5. IsPurchase(b) /\ b.state = "live" /\ b.status = status
  BY <1>3 DEF IsPurchase
<1> HIDE DEF b, copy
<1>6. IsPurchase(copy)
  BY <1>4, <1>5 DEF IsPurchase
<1>7. copy.state = "live" /\ copy.status = status
  BY <1>4, <1>5 DEF IsPurchase
<1>8. PICK row : row = Applied(Numbered(copy), existing, new)
  OBVIOUS
<1>8a. /\ purchases' = [purchases EXCEPT ![p] = row] /\ lines' = [lines EXCEPT ![p] = Kept(copy, existing, new)]
      /\ jostled' = IF status = "RECEIVED" THEN jostled \cup {p} ELSE jostled
  BY <1>2, <1>8 DEF copy
<1>9. /\ IsPurchase(row) /\ row.state = "live" /\ row.status = status
      /\ Kept(copy, existing, new) # Nothing => row.total = Units(Kept(copy, existing, new))
  <2>1. PICK c : c = Numbered(copy)
    OBVIOUS
  <2>2. IsPurchase(c) /\ c.state = "live" /\ c.status = status /\ c.supplier = copy.supplier
    BY <1>6, <1>7, <2>1, NumberedKeeps
  <2>3. Kept(c, existing, new) = Kept(copy, existing, new)
    BY <2>2 DEF Kept
  <2> QED BY <1>8, <2>1, <2>2, <2>3, AppliedKeeps
<1>10. added[p] = 0
  BY <1>1 DEF PurchasesInv, NewPurchases
<1>11. /\ purchases'[p] = row /\ lines'[p] = Kept(copy, existing, new) /\ added'[p] = 0
  BY <1>1, <1>8a, <1>10 DEF PurchasesInv
<1>12. OnlyPurchase(p)
  BY <1>1, <1>8a DEF OnlyPurchase, PurchasesInv
<1>13. OnlyRequest(w, p)
  <2>1. \A x \in Workers : PurchaseJob(req[x]) /\ req'[x] = req[x]
    BY <1>1 DEF PurchasesInv
  <2>2. \A x \in Workers : req[x].at \in PurchaseAts => req[x].row # p
    BY <1>1, <2>1 DEF PurchaseJob
  <2>3. req[w].at \notin PurchaseAts
    BY <1>1 DEF Idle, PurchaseAts
  <2> QED BY <2>1, <2>2, <2>3 DEF OnlyRequest
<1>14. PurchaseJob(req[w])'
  BY <1>1 DEF PurchaseJob, Idle, PurchaseAts
<1>15. p \notin jostled' => status # "RECEIVED"
  BY <1>2
<1> QED BY <1>2, <1>9, <1>11, <1>12, <1>13, <1>14, <1>15, PurchaseMoved

LEMMA PurchaseRead ==
  ASSUME PurchasesInv, Slots, NEW w \in Workers, NEW p \in Purchases, NEW copy, NEW how,
         ReadPurchase(w, p, copy, how), IsPurchase(copy), copy.state # "none", copy.status \in PurchaseStatus,
         copy.total = purchases[p].total,
         how # "patch" => (how # "restore" /\ copy.status = "RECEIVED") \/ copy.status = purchases[p].status
  PROVE  PurchasesInv'
<1>1. PICK job : job = [at |-> "purchase.old", row |-> p, copy |-> copy, goods |-> lines[p], how |-> how,
                        had |-> purchases[p].supplier]
  OBVIOUS
<1>2. /\ purchases[p].state # "none" /\ (how # "restore" => purchases[p].state = "live")
      /\ req[w] = Idle /\ req' = [req EXCEPT ![w] = job]
      /\ jostled' = IF OnPurchase(p) = {} THEN jostled ELSE jostled \cup {p}
      /\ UNCHANGED <<purchases, lines, added, brought, late>>
  BY <1>1 DEF ReadPurchase, Begin, purchaseTables, receipts
<1>3. req'[w] = job /\ \A x \in Workers \ {w} : req'[x] = req[x]
  BY <1>2 DEF Slots
<1>4. job.at = "purchase.old" /\ job.row = p /\ job.copy = copy /\ job.how = how /\ job.goods = lines[p]
  BY <1>1
<1>5. OnlyPurchase(p)
  BY <1>2 DEF OnlyPurchase, PurchasesInv
<1>6. \A x \in Workers : req[x].at \in PurchaseAts /\ req[x].row = p => p \in jostled'
  BY <1>2 DEF OnPurchase, PurchaseAts
<1>7. OnlyRequest(w, p)
  BY <1>2, <1>3, <1>4, <1>6 DEF OnlyRequest, Idle, PurchaseAts
<1>8. p \notin jostled' => Free(p) /\ p \notin jostled
  BY <1>2, <1>6 DEF Free
<1>9. p \notin jostled' =>
        /\ added[p] <= 1 /\ (added[p] = 1 <=> purchases[p].status = "RECEIVED")
        /\ added[p] = 1 => p \in late \/ lines[p] = brought[p]
  BY <1>8 DEF PurchasesInv, Received, Stocked
<1>10. PurchaseJob(req[w])'
  <2>1. p \notin jostled' => Stage(job)'
    BY <1>2, <1>4, <1>9 DEF Stage
  <2> QED BY <1>2, <1>3, <1>4, <2>1 DEF PurchaseJob, PurchaseAts
<1>11. p \notin jostled' => (lines'[p] # Nothing => purchases'[p].total = Units(lines'[p]))
  BY <1>2, <1>8 DEF PurchasesInv, Totals
<1>12. IsPurchase(purchases'[p]) /\ purchases'[p].status \in PurchaseStatus
  BY <1>2 DEF PurchasesInv
<1> QED BY <1>2, <1>3, <1>4, <1>5, <1>7, <1>9, <1>10, <1>11, <1>12, PurchaseMoved DEF PurchaseAts

LEMMA PurchaseReads ==
  ASSUME PurchasesInv, Slots, NEW w \in Workers, NEW p \in Purchases,
         Receive(w, p) \/ PatchPurchase(w, p) \/ DeletePurchase(w, p) \/ RestorePurchase(w, p)
  PROVE  PurchasesInv'
<1>1. IsPurchase(purchases[p]) /\ purchases[p].status \in PurchaseStatus
  BY DEF PurchasesInv
<1>2. ASSUME NEW status \in PurchaseStatus, NEW copy, copy = [purchases[p] EXCEPT !.status = status]
      PROVE  IsPurchase(copy)
  BY <1>1, <1>2 DEF IsPurchase
<1>3. ASSUME NEW status \in PurchaseStatus, NEW copy, copy = [purchases[p] EXCEPT !.status = status]
      PROVE  copy.status = status /\ copy.state = purchases[p].state /\ copy.total = purchases[p].total
  BY <1>1, <1>3 DEF IsPurchase
<1>4. CASE Receive(w, p)
  <2>1. PICK copy : copy = [purchases[p] EXCEPT !.status = "RECEIVED"]
    OBVIOUS
  <2>2. ReadPurchase(w, p, copy, "receive") /\ purchases[p].state = "live"
    BY <1>4, <2>1 DEF Receive, ReadPurchase
  <2>3. "RECEIVED" \in PurchaseStatus
    BY DEF PurchaseStatus
  <2>4. IsPurchase(copy)
    BY <1>2, <2>1, <2>3
  <2>5. copy.status = "RECEIVED" /\ copy.state = purchases[p].state /\ copy.total = purchases[p].total
    BY <1>3, <2>1, <2>3
  <2> QED BY <2>2, <2>3, <2>4, <2>5, PurchaseRead
<1>5. ASSUME NEW state \in {"live", "deleted"}, NEW copy, copy = [purchases[p] EXCEPT !.state = state]
      PROVE  /\ IsPurchase(copy) /\ copy.state # "none"
             /\ copy.status = purchases[p].status /\ copy.total = purchases[p].total
  BY <1>1, <1>5 DEF IsPurchase
<1>6. CASE DeletePurchase(w, p)
  <2>1. PICK copy : copy = [purchases[p] EXCEPT !.state = "deleted"]
    OBVIOUS
  <2>2. ReadPurchase(w, p, copy, "delete")
    BY <1>6, <2>1 DEF DeletePurchase
  <2> QED BY <1>1, <1>5, <2>1, <2>2, PurchaseRead
<1>7. CASE RestorePurchase(w, p)
  <2>1. PICK copy : copy = [purchases[p] EXCEPT !.state = "live"]
    OBVIOUS
  <2>2. ReadPurchase(w, p, copy, "restore")
    BY <1>7, <2>1 DEF RestorePurchase
  <2> QED BY <1>1, <1>5, <2>1, <2>2, PurchaseRead
<1>8. CASE PatchPurchase(w, p)
  <2>0. PICK status \in PurchaseStatus, supplier \in BOOLEAN :
          ReadPurchase(w, p, [purchases[p] EXCEPT !.status = status, !.supplier = supplier], "patch")
    BY <1>8 DEF PatchPurchase
  <2>1. PICK copy : /\ copy = [purchases[p] EXCEPT !.status = status, !.supplier = supplier]
                    /\ ReadPurchase(w, p, copy, "patch")
    BY <2>0
  <2>2. PICK first : first = [purchases[p] EXCEPT !.status = status]
    OBVIOUS
  <2>3. copy = [first EXCEPT !.supplier = supplier]
    BY <2>1, <2>2
  <2>4. IsPurchase(first)
    BY <1>2, <2>2
  <2>5. first.status = status /\ first.state = purchases[p].state /\ first.total = purchases[p].total
    BY <1>3, <2>2
  <2>6. IsPurchase(copy)
    BY <2>3, <2>4 DEF IsPurchase
  <2>7. copy.status = status /\ copy.state = purchases[p].state /\ copy.total = purchases[p].total
    BY <2>3, <2>4, <2>5 DEF IsPurchase
  <2>8. purchases[p].state = "live"
    BY <2>1 DEF ReadPurchase
  <2> QED BY <2>1, <2>6, <2>7, <2>8, PurchaseRead
<1> QED BY <1>4, <1>6, <1>7, <1>8

\* A request for a purchase it has to itself, unless the purchase is jostled.
LEMMA PurchaseOwned ==
  ASSUME PurchasesInv, Slots, NEW w \in Workers, req[w].at \in PurchaseAts,
         NEW job, req' = [req EXCEPT ![w] = job], job.at \in PurchaseAts => job.row = req[w].row,
         jostled \subseteq jostled'
  PROVE  /\ req[w].row \in Purchases /\ purchases[req[w].row].state # "none"
         /\ IsPurchase(req[w].copy) /\ req[w].copy.state # "none" /\ req[w].copy.status \in PurchaseStatus
         /\ OnlyRequest(w, req[w].row) /\ req'[w] = job
         /\ req[w].row \notin jostled => Stage(req[w])
         /\ req[w].row \notin jostled =>
              (lines[req[w].row] # Nothing => purchases[req[w].row].total = Units(lines[req[w].row]))
         /\ req[w].row \notin jostled => added[req[w].row] <= 1
         /\ req[w].row \notin jostled =>
              (added[req[w].row] = 1 => req[w].row \in late \/ lines[req[w].row] = brought[req[w].row])
         /\ IsPurchase(purchases[req[w].row]) /\ purchases[req[w].row].status \in PurchaseStatus
         /\ added[req[w].row] \in Nat
<1>1. PurchaseJob(req[w])
  BY DEF PurchasesInv
<1>2. req'[w] = job /\ \A x \in Workers \ {w} : req'[x] = req[x]
  BY DEF Slots
<1>3. OnlyRequest(w, req[w].row)
  BY <1>2 DEF OnlyRequest, PurchasesInv, OneBuys
<1>4. req[w].row \in Purchases
  BY <1>1 DEF PurchaseJob
<1>5. req[w].row \notin jostled =>
        /\ lines[req[w].row] # Nothing => purchases[req[w].row].total = Units(lines[req[w].row])
        /\ added[req[w].row] <= 1
        /\ added[req[w].row] = 1 => req[w].row \in late \/ lines[req[w].row] = brought[req[w].row]
  BY <1>4 DEF PurchasesInv, Totals, Received, Stocked
<1> QED BY <1>1, <1>2, <1>3, <1>4, <1>5 DEF PurchaseJob, PurchasesInv

LEMMA PurchaseCompared ==
  ASSUME PurchasesInv, Slots, NEW w \in Workers, CompareOld(w)
  PROVE  PurchasesInv'
<1>1. PICK p, c, how : p = req[w].row /\ c = req[w].copy /\ how = req[w].how
  OBVIOUS
<1>2. PICK moves, copy : moves = Moves(purchases[p], Numbered(c)) /\ copy = IF how = "patch" THEN c ELSE Numbered(c)
  OBVIOUS
<1>3. PICK at : at = IF how = "patch" THEN "purchase.update" ELSE IF moves THEN "purchase.add" ELSE "purchase.save"
  OBVIOUS
<1>4. PICK job : job = [at |-> at, row |-> p, goods |-> req[w].goods, had |-> req[w].had, moves |-> moves, copy |-> copy]
  OBVIOUS
<1>5. /\ req[w].at = "purchase.old" /\ req' = [req EXCEPT ![w] = job]
      /\ UNCHANGED <<purchases, lines, added, brought, late, jostled>>
  BY <1>1, <1>2, <1>3, <1>4 DEF CompareOld, At, Proceed, purchaseHistory, receipts
<1>6. job.at = at /\ job.row = p /\ job.copy = copy /\ job.moves = moves /\ job.goods = req[w].goods
      /\ job = [at |-> job.at, row |-> job.row, goods |-> job.goods, had |-> job.had, moves |-> job.moves, copy |-> job.copy]
  BY <1>4
<1>7. req[w].at \in PurchaseAts
  BY <1>5 DEF PurchaseAts
<1>8. /\ p \in Purchases /\ purchases[p].state # "none"
      /\ IsPurchase(c) /\ c.state # "none" /\ c.status \in PurchaseStatus
      /\ OnlyRequest(w, p) /\ req'[w] = job /\ (p \notin jostled => Stage(req[w]))
      /\ p \notin jostled => (lines[p] # Nothing => purchases[p].total = Units(lines[p])) /\ added[p] <= 1
      /\ p \notin jostled => (added[p] = 1 => p \in late \/ lines[p] = brought[p])
      /\ IsPurchase(purchases[p]) /\ purchases[p].status \in PurchaseStatus
  BY <1>1, <1>5, <1>6, <1>7, PurchaseOwned
<1>9. /\ IsPurchase(copy) /\ copy.state = c.state /\ copy.status = c.status /\ copy.total = c.total
      /\ moves <=> Moves(purchases[p], copy)
  BY <1>2, <1>8, NumberedKeeps DEF Moves
<1>10. p \notin jostled =>
         /\ copy.total = purchases[p].total /\ job.goods = lines[p]
         /\ added[p] = 1 <=> purchases[p].status = "RECEIVED"
         /\ how = "patch" => purchases[p].state = "live"
         /\ how # "patch" => (purchases[p].state = "live" /\ copy.status = "RECEIVED") \/ copy.status = purchases[p].status
  BY <1>1, <1>5, <1>6, <1>8, <1>9 DEF Stage
<1>11. at = "purchase.add" => moves
  BY <1>3
<1>12. p \notin jostled /\ at = "purchase.add" => added[p] = 0 /\ copy.status = "RECEIVED"
  <2>1. added[p] \in Nat
    BY <1>8 DEF PurchasesInv
  <2> QED BY <2>1, <1>8, <1>9, <1>10, <1>11 DEF Moves
<1>13. p \notin jostled /\ at = "purchase.save" => (added[p] = 1 <=> copy.status = "RECEIVED")
  <2>1. at = "purchase.save" => how # "patch" /\ ~moves
    BY <1>3
  <2>2. purchases[p].status # "RECEIVED" => purchases[p].status = "DRAFT"
    BY <1>8 DEF PurchaseStatus
  <2> QED BY <2>1, <2>2, <1>9, <1>10 DEF Moves
<1>14. p \notin jostled => Stage(job)'
  <2>1. at \in {"purchase.update", "purchase.add", "purchase.save"}
    BY <1>3
  <2>2. p \notin jostled => Stage(job)
    <3>1. at = "purchase.update" => how = "patch"
      BY <1>3
    <3> QED BY <3>1, <2>1, <1>6, <1>9, <1>10, <1>12, <1>13 DEF Stage
  <2>3. Stage(job)' <=> Stage(job)
    BY <1>5 DEF Stage, Moves
  <2> QED BY <2>2, <2>3
<1>15. PurchaseJob(req[w])'
  BY <1>5, <1>6, <1>8, <1>9, <1>14 DEF PurchaseJob
<1>16. OnlyPurchase(p)
  BY <1>5 DEF OnlyPurchase, PurchasesInv
<1>17. req'[w].at \in PurchaseAts
  BY <1>3, <1>6, <1>8 DEF PurchaseAts
<1> QED BY <1>5, <1>8, <1>15, <1>16, <1>17, PurchaseMoved

LEMMA PurchaseAdded ==
  ASSUME PurchasesInv, Slots, NEW w \in Workers, AddGoods(w)
  PROVE  PurchasesInv'
<1>1. PICK p, c : p = req[w].row /\ c = req[w].copy
  OBVIOUS
<1>2. /\ req[w].at = "purchase.add" /\ req' = [req EXCEPT ![w] = [req[w] EXCEPT !.at = "purchase.save"]]
      /\ added' = [added EXCEPT ![p] = @ + 1] /\ UNCHANGED <<purchases, lines, late, jostled>>
      /\ brought' = [brought EXCEPT ![p] = req[w].goods]
  BY <1>1 DEF AddGoods, At, Proceed, purchaseTables
<1>3. req[w].at \in PurchaseAts
  BY <1>2 DEF PurchaseAts
<1>4. PurchaseJob(req[w])
  BY DEF PurchasesInv
<1>5. req[w] = [at |-> "purchase.add", row |-> p, goods |-> req[w].goods, had |-> req[w].had,
                moves |-> req[w].moves, copy |-> c]
  BY <1>1, <1>2, <1>3, <1>4 DEF PurchaseJob
<1>6. PICK job : job = [req[w] EXCEPT !.at = "purchase.save"]
  OBVIOUS
<1>7. job.at = "purchase.save" /\ job.row = p /\ job.copy = c /\ job.goods = req[w].goods
  BY <1>5, <1>6
<1>8. /\ p \in Purchases /\ purchases[p].state # "none"
      /\ IsPurchase(c) /\ c.state # "none" /\ c.status \in PurchaseStatus
      /\ OnlyRequest(w, p) /\ req'[w] = job /\ (p \notin jostled => Stage(req[w]))
      /\ p \notin jostled => (lines[p] # Nothing => purchases[p].total = Units(lines[p])) /\ added[p] <= 1
      /\ p \notin jostled => (added[p] = 1 => p \in late \/ lines[p] = brought[p])
      /\ IsPurchase(purchases[p]) /\ purchases[p].status \in PurchaseStatus
  BY <1>1, <1>2, <1>3, <1>6, <1>7, PurchaseOwned
<1>9. p \notin jostled =>
        /\ c.total = purchases[p].total /\ req[w].goods = lines[p]
        /\ added[p] = 0 /\ c.status = "RECEIVED"
  BY <1>1, <1>2, <1>8 DEF Stage
<1>10. /\ added'[p] = added[p] + 1 /\ added' \in [Purchases -> Nat]
       /\ brought'[p] = req[w].goods /\ brought' = [q \in Purchases |-> brought'[q]]
  <2>1. p \in Purchases /\ added \in [Purchases -> Nat] /\ brought = [q \in Purchases |-> brought[q]]
    BY <1>8 DEF PurchasesInv
  <2>2. added'[p] = added[p] + 1 /\ added' \in [Purchases -> Nat]
    BY <1>2, <2>1
  <2>3. brought'[p] = req[w].goods /\ brought' = [q \in Purchases |-> brought'[q]]
    BY <1>2, <2>1
  <2> QED BY <2>2, <2>3
<1>11. p \notin jostled => Stage(job)'
  BY <1>2, <1>7, <1>9, <1>10 DEF Stage
<1>12. PurchaseJob(req[w])'
  BY <1>2, <1>7, <1>8, <1>11 DEF PurchaseJob
<1>13. OnlyPurchase(p)
  BY <1>2, <1>10 DEF OnlyPurchase, PurchasesInv
<1>14. req'[w].at \in PurchaseAts
  BY <1>7, <1>8 DEF PurchaseAts
<1>15. purchases'[p].state # "none" /\ IsPurchase(purchases'[p]) /\ purchases'[p].status \in PurchaseStatus
  BY <1>2, <1>8
<1>16. p \notin jostled' =>
         /\ lines'[p] # Nothing => purchases'[p].total = Units(lines'[p])
         /\ added'[p] <= 1 /\ (added'[p] = 1 => p \in late' \/ lines'[p] = brought'[p])
         /\ req'[w].at \notin PurchaseAts => (added'[p] = 1 <=> purchases'[p].status = "RECEIVED")
  BY <1>2, <1>8, <1>9, <1>10, <1>14
<1>17. p \in Purchases /\ OnlyRequest(w, p)
  BY <1>8
<1> QED BY <1>12, <1>13, <1>15, <1>16, <1>17, PurchaseMoved

\* A request ends with the purchase as it is: its last write, a refusal, or its death.
LEMMA PurchaseEnded ==
  ASSUME PurchasesInv, Slots, NEW w \in Workers, req[w].at \in PurchaseAts,
         SavePurchase(w) \/ RefuseLines(w) \/ DiePurchasing(w)
  PROVE  PurchasesInv'
<1>1. PICK p, c : p = req[w].row /\ c = req[w].copy
  OBVIOUS
<1>2. req' = [req EXCEPT ![w] = Idle] /\ UNCHANGED <<lines, added, brought, late>> /\ jostled \subseteq jostled'
  BY DEF SavePurchase, RefuseLines, DiePurchasing, Crash, Answer, Proceed, purchaseVars, purchaseTables,
         purchaseHistory, receipts
<1>3. /\ p \in Purchases /\ purchases[p].state # "none"
      /\ IsPurchase(c) /\ c.state # "none" /\ c.status \in PurchaseStatus
      /\ OnlyRequest(w, p) /\ req'[w] = Idle /\ (p \notin jostled => Stage(req[w]))
      /\ p \notin jostled => (lines[p] # Nothing => purchases[p].total = Units(lines[p])) /\ added[p] <= 1
      /\ p \notin jostled => (added[p] = 1 => p \in late \/ lines[p] = brought[p])
      /\ IsPurchase(purchases[p]) /\ purchases[p].status \in PurchaseStatus
  <2>1. PICK job : job = Idle
    OBVIOUS
  <2>2. job.at \notin PurchaseAts
    BY <2>1 DEF Idle, PurchaseAts
  <2> QED BY <1>1, <1>2, <2>1, <2>2, PurchaseOwned
<1>4. PurchaseJob(req[w])'
  BY <1>3 DEF PurchaseJob, Idle, PurchaseAts
<1>5. CASE SavePurchase(w)
  <2>1. req[w].at = "purchase.save" /\ purchases' = [purchases EXCEPT ![p] = c] /\ UNCHANGED jostled
    BY <1>1, <1>5 DEF SavePurchase, At, purchaseHistory
  <2>2. OnlyPurchase(p) /\ purchases'[p] = c
    BY <1>2, <1>3, <2>1 DEF OnlyPurchase, PurchasesInv
  <2>3. p \notin jostled => c.total = purchases[p].total /\ (added[p] = 1 <=> c.status = "RECEIVED")
    BY <1>1, <1>3, <2>1 DEF Stage
  <2> QED BY <1>2, <1>3, <1>4, <2>1, <2>2, <2>3, PurchaseMoved
<1>6. CASE RefuseLines(w) \/ DiePurchasing(w)
  <2>1. /\ UNCHANGED purchases /\ jostled' \subseteq jostled \cup {p}
        /\ req[w].at = "purchase.save" => p \in jostled'
    BY <1>1, <1>6 DEF RefuseLines, DiePurchasing, At, purchaseVars, purchaseTables, purchaseHistory
  <2>2. OnlyPurchase(p)
    BY <1>2, <2>1 DEF OnlyPurchase, PurchasesInv
  <2>3. p \notin jostled' => (added[p] = 1 <=> purchases[p].status = "RECEIVED")
    BY <1>1, <1>2, <1>3, <2>1 DEF Stage
  <2> QED BY <1>2, <1>3, <1>4, <2>1, <2>2, <2>3, PurchaseMoved
<1> QED BY <1>5, <1>6

\* The transaction of PATCH, with a row that costs what its new lines do.
LEMMA PurchaseCommitted ==
  ASSUME PurchasesInv, Slots, NEW w \in Workers, NEW goods, NEW row, CommitPatch(w, goods, row),
         IsPurchase(row), row.state = req[w].copy.state, row.status = req[w].copy.status,
         goods # Nothing => row.total = Units(goods) \/
                            (goods = lines[req[w].row] /\ row.total = req[w].copy.total)
  PROVE  PurchasesInv'
<1>1. PICK p, c : p = req[w].row /\ c = req[w].copy
  OBVIOUS
<1>2. /\ req[w].at = "purchase.update" /\ req' = [req EXCEPT ![w] = Idle]
      /\ purchases' = [purchases EXCEPT ![p] = row] /\ lines' = [lines EXCEPT ![p] = goods]
      /\ added' = IF req[w].moves THEN [added EXCEPT ![p] = @ + 1] ELSE added
      /\ brought' = IF req[w].moves THEN [brought EXCEPT ![p] = req[w].goods] ELSE brought
      /\ late' = IF row.status = "RECEIVED" /\ goods # lines[p] THEN late \cup {p} ELSE late
      /\ jostled' = IF purchases[p].status = "RECEIVED" /\ row.status = "DRAFT" THEN jostled \cup {p} ELSE jostled
  BY <1>1 DEF CommitPatch, At, Answer, Proceed
<1>3. req[w].at \in PurchaseAts
  BY <1>2 DEF PurchaseAts
<1>4. jostled \subseteq jostled' /\ jostled' \subseteq jostled \cup {p}
  BY <1>2
<1>5. /\ p \in Purchases /\ purchases[p].state # "none"
      /\ IsPurchase(c) /\ c.state # "none" /\ c.status \in PurchaseStatus
      /\ OnlyRequest(w, p) /\ req'[w] = Idle /\ (p \notin jostled => Stage(req[w]))
      /\ p \notin jostled => (lines[p] # Nothing => purchases[p].total = Units(lines[p])) /\ added[p] <= 1
      /\ p \notin jostled => (added[p] = 1 => p \in late \/ lines[p] = brought[p])
      /\ IsPurchase(purchases[p]) /\ purchases[p].status \in PurchaseStatus /\ added[p] \in Nat
  <2>1. PICK job : job = Idle
    OBVIOUS
  <2>2. job.at \notin PurchaseAts
    BY <2>1 DEF Idle, PurchaseAts
  <2> QED BY <1>1, <1>2, <1>3, <1>4, <2>1, <2>2, PurchaseOwned
<1>6. PurchaseJob(req[w])'
  BY <1>5 DEF PurchaseJob, Idle, PurchaseAts
<1>7. p \notin jostled =>
        /\ purchases[p].state = "live" /\ c.total = purchases[p].total /\ req[w].goods = lines[p]
        /\ added[p] = 1 <=> purchases[p].status = "RECEIVED"
        /\ req[w].moves <=> purchases[p].status = "DRAFT" /\ c.status = "RECEIVED"
  BY <1>1, <1>2, <1>5 DEF Stage, Moves
<1>8. /\ purchases'[p] = row /\ lines'[p] = goods
      /\ added'[p] = IF req[w].moves THEN added[p] + 1 ELSE added[p]
      /\ brought'[p] = IF req[w].moves THEN req[w].goods ELSE brought[p]
      /\ brought' = [q \in Purchases |-> brought'[q]]
      /\ added' \in [Purchases -> Nat]
  BY <1>2, <1>5 DEF PurchasesInv
<1>9. OnlyPurchase(p)
  BY <1>2, <1>4, <1>8 DEF OnlyPurchase, PurchasesInv
<1>10. p \notin jostled' => (goods # Nothing => row.total = Units(goods))
  BY <1>1, <1>4, <1>5, <1>7
<1>11. p \notin jostled' => added'[p] <= 1 /\ (added'[p] = 1 <=> row.status = "RECEIVED")
  <2> SUFFICES ASSUME p \notin jostled' PROVE added'[p] <= 1 /\ (added'[p] = 1 <=> row.status = "RECEIVED")
    OBVIOUS
  <2>1. row.status = c.status /\ p \notin jostled
    BY <1>1, <1>4
  <2>2. ~(purchases[p].status = "RECEIVED" /\ c.status = "DRAFT")
    BY <1>2, <2>1
  <2>3. purchases[p].status \in {"DRAFT", "RECEIVED"} /\ c.status \in {"DRAFT", "RECEIVED"}
    BY <1>5 DEF PurchaseStatus
  <2>4. CASE req[w].moves
    BY <1>5, <1>7, <1>8, <2>1, <2>3, <2>4
  <2>5. CASE ~req[w].moves
    BY <1>5, <1>7, <1>8, <2>1, <2>2, <2>3, <2>5
  <2> QED BY <2>4, <2>5
<1>12. p \notin jostled' => (added'[p] = 1 => p \in late' \/ lines'[p] = brought'[p])
  <2> SUFFICES ASSUME p \notin jostled', added'[p] = 1, p \notin late' PROVE lines'[p] = brought'[p]
    OBVIOUS
  <2>1. row.status = "RECEIVED" /\ p \notin jostled
    BY <1>4, <1>11
  <2>2. goods = lines[p] /\ p \notin late
    BY <1>2, <2>1
  <2>3. CASE req[w].moves
    BY <1>7, <1>8, <2>1, <2>2, <2>3
  <2>4. CASE ~req[w].moves
    BY <1>5, <1>8, <2>1, <2>2, <2>4
  <2> QED BY <2>3, <2>4
<1> QED BY <1>1, <1>5, <1>6, <1>8, <1>9, <1>10, <1>11, <1>12, PurchaseMoved

LEMMA PurchasePatched ==
  ASSUME PurchasesInv, Slots, NEW w \in Workers,
         KeepLines(w) \/ \E existing, new \in Orders : ReplaceLines(w, existing, new)
  PROVE  PurchasesInv'
<1>1. PICK p, c : p = req[w].row /\ c = Numbered(req[w].copy)
  OBVIOUS
<1>2. IsPurchase(req[w].copy)
  <2>1. req[w].at = "purchase.update" /\ PurchaseJob(req[w])
    BY DEF KeepLines, ReplaceLines, At, PurchasesInv
  <2> QED BY <2>1 DEF PurchaseJob, PurchaseAts
<1>3. IsPurchase(c) /\ c.state = req[w].copy.state /\ c.status = req[w].copy.status /\ c.total = req[w].copy.total
  BY <1>1, <1>2, NumberedKeeps
<1>4. ASSUME NEW existing \in Orders, NEW new \in Orders, ReplaceLines(w, existing, new)
      PROVE  PurchasesInv'
  <2>1. PICK goods, row : goods = Kept(c, existing, new) /\ row = Applied(c, existing, new)
    OBVIOUS
  <2>2. CommitPatch(w, goods, row)
    BY <1>1, <1>4, <2>1 DEF ReplaceLines
  <2>3. IsPurchase(row) /\ row.state = c.state /\ row.status = c.status /\ (goods # Nothing => row.total = Units(goods))
    BY <1>3, <2>1, AppliedKeeps
  <2> QED BY <1>3, <2>2, <2>3, PurchaseCommitted
<1>5. CASE KeepLines(w)
  <2>1. PICK goods, row : /\ goods = [v \in Variants |-> lines[p][v] + c.staged[v]]
                          /\ row = [Totalled(c, goods) EXCEPT !.staged = Nothing]
    OBVIOUS
  <2>2. CommitPatch(w, goods, row) \/ CommitPatch(w, lines[p], c)
    BY <1>1, <1>5, <2>1 DEF KeepLines
  <2>3. IsPurchase(row) /\ row.state = c.state /\ row.status = c.status /\ (goods # Nothing => row.total = Units(goods))
    <3>1. PICK t : t = Totalled(c, goods)
      OBVIOUS
    <3>2. IsPurchase(t) /\ t.state = c.state /\ t.status = c.status /\ (goods # Nothing => t.total = Units(goods))
      BY <1>3, <3>1, TotalledKeeps
    <3>3. row = [t EXCEPT !.staged = Nothing]
      BY <2>1, <3>1
    <3> QED BY <3>2, <3>3, StagedKeeps
  <2>4. ASSUME CommitPatch(w, goods, row) PROVE PurchasesInv'
    BY <1>3, <2>3, <2>4, PurchaseCommitted
  <2>5. ASSUME CommitPatch(w, lines[p], c) PROVE PurchasesInv'
    <3>1. PICK g : g = lines[p]
      OBVIOUS
    <3> QED BY <1>1, <1>3, <2>5, <3>1, PurchaseCommitted
  <2> QED BY <2>2, <2>4, <2>5
<1> QED BY <1>4, <1>5

----------------------------------------------------------------------------
(* Services. *)

IsService(x) ==
  x = [state |-> x.state, status |-> x.status, serial |-> x.serial, bell |-> x.bell,
       notified |-> x.notified, eta |-> x.eta]

\* A bill is for a service that is not DONE; who is about to ring has not rung.
ServiceJob(j) ==
  /\ j.at \in Editing => j.row \in ServiceIds /\ services[j.row].state # "none"
  /\ j.at \in {"service.save", "service.bill"} => IsService(j.copy) /\ j.copy.state # "none"
  /\ j.at = "service.bill" => j.copy.status = "DONE" /\ (services[j.row].status = "DONE" => j.row \in undone)
  /\ j.at = "notify" =>
       /\ j = [at |-> j.at, list |-> j.list, told |-> j.told]
       /\ j.told \subseteq j.list
       /\ \A s \in j.list : s \in ServiceIds /\ services[s].state # "none"
       /\ \A s \in j.list \ j.told : bells[s] = 0 \/ s \in unsteady

OneEdits ==
  \A w, x \in Workers :
    req[w].at \in Editing /\ req[x].at \in Editing /\ req[w].row = req[x].row /\ w # x => req[w].row \in undone

OneTells ==
  \A w, x \in Workers : req[w].at = "notify" /\ req[x].at = "notify" /\ w # x =>
    req[w].list \cap req[x].list \subseteq unsteady

NewServices == \A s \in ServiceIds : services[s].state = "none" => invoices[s] = 0 /\ bells[s] = 0

\* Who rang has set the flag, or is about to.
Rung ==
  \A s \in ServiceIds \ unsteady :
    /\ bells[s] <= 1
    /\ bells[s] = 1 => services[s].notified \/ \E w \in Workers : req[w].at = "notify" /\ s \in req[w].told

ServicesInv ==
  /\ services = [s \in ServiceIds |-> services[s]] /\ \A s \in ServiceIds : IsService(services[s])
  /\ invoices \in [ServiceIds -> Nat] /\ bells \in [ServiceIds -> Nat]
  /\ \A w \in Workers : ServiceJob(req[w])
  /\ OneEdits /\ OneTells /\ NewServices /\ BilledOnce /\ Rung

LEMMA ServicesStart == SlotsInit /\ ServicesInit => ServicesInv
<1> SUFFICES ASSUME SlotsInit, ServicesInit PROVE ServicesInv
  OBVIOUS
<1>1. \A w \in Workers : req[w].at = "idle"
  BY DEF SlotsInit, Idle
<1>2. IsService(NoService)
  BY DEF IsService, NoService
<1>3. (\A w \in Workers : ServiceJob(req[w])) /\ OneEdits /\ OneTells
  BY <1>1 DEF ServiceJob, OneEdits, OneTells, Editing
<1>4. NewServices /\ BilledOnce /\ Rung
  BY DEF ServicesInit, NewServices, BilledOnce, Rung, NoService
<1> QED BY <1>2, <1>3, <1>4 DEF ServicesInit, ServicesInv

LEMMA ServicesAside ==
  ASSUME ServicesInv, UNCHANGED <<serviceTables, serviceHistory>>, Foreign(ServiceAts)
  PROVE  ServicesInv'
<1>1. \A w \in Workers : req'[w].at \in ServiceAts => req'[w] = req[w]
  BY DEF Foreign
<1>2. \A w \in Workers : req[w].at = "notify" => req'[w] = req[w]
  BY DEF Foreign, ServiceAts
<1>3. (\A w \in Workers : ServiceJob(req[w]))'
  BY <1>1 DEF ServicesInv, ServiceJob, ServiceAts, Editing, serviceTables, serviceHistory
<1>4. (OneEdits /\ OneTells)'
  BY <1>1 DEF ServicesInv, OneEdits, OneTells, ServiceAts, Editing, serviceHistory
<1>5. (NewServices /\ BilledOnce /\ Rung)'
  BY <1>2 DEF ServicesInv, NewServices, BilledOnce, Rung, serviceTables, serviceHistory
<1> QED BY <1>3, <1>4, <1>5 DEF ServicesInv, serviceTables, serviceHistory

LEMMA ServiceCreated ==
  ASSUME ServicesInv, NEW w \in Workers, NEW s \in ServiceIds, CreateService(w, s)
  PROVE  ServicesInv'
<1>1. PICK status, eta, bell :
        /\ services' = [services EXCEPT ![s] = [NoService EXCEPT !.state = "live", !.status = status, !.eta = eta,
                                                                 !.serial = issued + 1, !.bell = bell]]
        /\ byhand' = IF status = "DONE" THEN byhand \cup {s} ELSE byhand
  BY DEF CreateService
<1>2. services[s].state = "none" /\ UNCHANGED <<req, invoices, bells, undone, unsteady>>
  BY DEF CreateService, AtOnce
<1> DEFINE a == [NoService EXCEPT !.state = "live"]
           st == [a EXCEPT !.status = status]
           b == [st EXCEPT !.eta = eta]
           c == [b EXCEPT !.serial = issued + 1]
           row == [c EXCEPT !.bell = bell]
<1>3. IsService(a) /\ a.state = "live"
  <2>1. IsService(NoService)
    BY DEF IsService, NoService
  <2> QED BY <2>1 DEF IsService
<1>4. services' = [services EXCEPT ![s] = row]
  BY <1>1
<1> HIDE DEF a
<1>4a. IsService(st) /\ st.state = "live" /\ st.status = status
  BY <1>3 DEF IsService
<1> HIDE DEF st
<1>5. IsService(b) /\ b.state = "live" /\ b.status = status
  BY <1>4a DEF IsService
<1> HIDE DEF b
<1>6. IsService(c) /\ c.state = "live" /\ c.status = status
  BY <1>5 DEF IsService
<1> HIDE DEF c
<1>7. IsService(row) /\ row.state = "live" /\ row.status = status
  BY <1>6 DEF IsService
<1> HIDE DEF row
<1>8. /\ services' = [x \in ServiceIds |-> services'[x]] /\ services'[s] = row
      /\ \A x \in ServiceIds \ {s} : services'[x] = services[x]
  BY <1>4 DEF ServicesInv
<1>9. invoices[s] = 0 /\ bells[s] = 0
  BY <1>2 DEF ServicesInv, NewServices
<1>10. ASSUME NEW x \in Workers PROVE ServiceJob(req[x])'
  <2>1. ServiceJob(req[x]) /\ req'[x] = req[x]
    BY <1>2 DEF ServicesInv
  <2>2. req[x].at \in Editing => req[x].row \in ServiceIds \ {s}
    BY <2>1, <1>2 DEF ServiceJob
  <2> QED BY <2>1, <2>2, <1>2, <1>7, <1>8 DEF ServiceJob, Editing
<1>11. (OneEdits /\ OneTells)'
  BY <1>2 DEF ServicesInv, OneEdits, OneTells
<1>12. (NewServices /\ BilledOnce /\ Rung)'
  BY <1>1, <1>2, <1>7, <1>8, <1>9 DEF ServicesInv, NewServices, BilledOnce, Rung
<1>13. \A x \in ServiceIds : IsService(services'[x])
  BY <1>7, <1>8 DEF ServicesInv
<1> QED BY <1>2, <1>8, <1>10, <1>11, <1>12, <1>13 DEF ServicesInv

\* A request that reads a service: it is overlapping, or alone with the service.
LEMMA ServiceRead ==
  ASSUME ServicesInv, Slots, NEW w \in Workers, NEW s \in ServiceIds, NEW at \in Editing, NEW copy,
         ReadService(w, s, at, copy),
         at \in {"service.save", "service.bill"} => IsService(copy) /\ copy.state # "none",
         at = "service.bill" => copy.status = "DONE" /\ services[s].status # "DONE"
  PROVE  ServicesInv'
<1> DEFINE job == [at |-> at, row |-> s, copy |-> copy]
<1>1. /\ services[s].state = "live" /\ req[w] = Idle /\ req' = [req EXCEPT ![w] = job]
      /\ undone' = IF OnService(s) = {} THEN undone ELSE undone \cup {s}
      /\ UNCHANGED <<serviceTables, byhand, unsteady>>
  BY DEF ReadService, Begin
<1>2. job.at = at /\ job.row = s /\ job.copy = copy
  OBVIOUS
<1> HIDE DEF job
<1>3. req'[w] = job /\ \A x \in Workers \ {w} : req'[x] = req[x]
  BY <1>1 DEF Slots
<1>4. undone \subseteq undone' /\ undone' \subseteq undone \cup {s}
  BY <1>1
<1>5. \A x \in Workers : req[x].at \in Editing /\ req[x].row = s => s \in undone'
  BY <1>1 DEF OnService
<1>6. at \in {"service.save", "service.bill", "service.bell", "service.return"}
  BY DEF Editing
<1>7. ServiceJob(job)'
  BY <1>1, <1>2, <1>6 DEF ServiceJob, Editing, serviceTables
<1>8. ASSUME NEW x \in Workers PROVE ServiceJob(req[x])'
  <2>1. CASE x = w
    BY <1>3, <1>7, <2>1 DEF ServiceJob
  <2>2. CASE x # w
    <3>1. ServiceJob(req[x]) /\ req'[x] = req[x]
      BY <1>3, <2>2 DEF ServicesInv
    <3> QED BY <3>1, <1>1, <1>4 DEF ServiceJob, serviceTables
  <2> QED BY <2>1, <2>2
<1>9. OneEdits'
  BY <1>2, <1>3, <1>4, <1>5 DEF ServicesInv, OneEdits
<1>10. OneTells'
  BY <1>1, <1>2, <1>3, <1>6 DEF ServicesInv, OneTells
<1>11. (NewServices /\ BilledOnce)'
  BY <1>1, <1>4 DEF ServicesInv, NewServices, BilledOnce, serviceTables
<1>12. Rung'
  <2>1. \A x \in Workers : req[x].at = "notify" => req'[x] = req[x]
    BY <1>1, <1>3 DEF Idle
  <2> QED BY <1>1, <2>1 DEF ServicesInv, Rung, serviceTables
<1> QED BY <1>1, <1>8, <1>9, <1>10, <1>11, <1>12 DEF ServicesInv, serviceTables

LEMMA ServiceReads ==
  ASSUME ServicesInv, Slots, NEW w \in Workers, NEW s \in ServiceIds,
         \/ Done(w, s) \/ Cancel(w, s) \/ Archive(w, s) \/ Return(w, s)
         \/ ToggleBell(w, s) \/ EditService(w, s) \/ DeleteService(w, s)
  PROVE  ServicesInv'
<1>1. IsService(services[s]) /\ (services[s].state = "live" \/ services[s].state # "live")
  BY DEF ServicesInv
<1>2. ASSUME NEW status, NEW at \in {"service.save", "service.bill"}, ReadService(w, s, at, With(s, status)),
             at = "service.bill" => status = "DONE" /\ services[s].status # "DONE"
      PROVE  ServicesInv'
  <2>1. IsService(With(s, status)) /\ With(s, status).status = status /\ With(s, status).state = services[s].state
    BY <1>1 DEF With, IsService
  <2>2. services[s].state = "live"
    BY <1>2 DEF ReadService
  <2> QED BY <1>2, <2>1, <2>2, ServiceRead DEF Editing
<1>3. CASE Done(w, s)
  BY <1>2, <1>3 DEF Done
<1>4. CASE Cancel(w, s)
  BY <1>2, <1>4 DEF Cancel
<1>5. CASE Archive(w, s)
  BY <1>2, <1>5 DEF Archive
<1>6. CASE Return(w, s)
  BY <1>6, ServiceRead DEF Return, Editing
<1>7. CASE ToggleBell(w, s)
  BY <1>7, ServiceRead DEF ToggleBell, Editing
<1>8. CASE EditService(w, s)
  <2>1. ASSUME NEW eta, ReadService(w, s, "service.save", [services[s] EXCEPT !.eta = eta])
        PROVE  ServicesInv'
    <3> DEFINE copy == [services[s] EXCEPT !.eta = eta]
    <3>1. IsService(copy) /\ copy.state = services[s].state
      BY <1>1 DEF IsService
    <3> HIDE DEF copy
    <3>2. ReadService(w, s, "service.save", copy) /\ services[s].state = "live"
      BY <2>1 DEF copy, ReadService
    <3> QED BY <3>1, <3>2, ServiceRead DEF Editing
  <2> QED BY <1>2, <1>8, <2>1 DEF EditService
<1>9. CASE DeleteService(w, s)
  <2> DEFINE copy == [services[s] EXCEPT !.state = "deleted"]
  <2>1. IsService(copy) /\ copy.state = "deleted"
    BY <1>1 DEF IsService
  <2> HIDE DEF copy
  <2>2. ReadService(w, s, "service.save", copy)
    BY <1>9 DEF copy, DeleteService
  <2> QED BY <2>1, <2>2, ServiceRead DEF Editing
<1> QED BY <1>3, <1>4, <1>5, <1>6, <1>7, <1>8, <1>9

\* Saving a whole copy: what is taken back by it is noted.
LEMMA ServiceSaved ==
  ASSUME ServicesInv, Slots, NEW w \in Workers, SaveService(w) \/ Bill(w)
  PROVE  ServicesInv'
<1> DEFINE s == req[w].row
           copy == req[w].copy
<1>1. /\ req[w].at \in {"service.save", "service.bill"} /\ req' = [req EXCEPT ![w] = Idle]
      /\ services' = [services EXCEPT ![s] = copy]
      /\ undone' = IF services[s].status \in Billed /\ copy.status # services[s].status THEN undone \cup {s} ELSE undone
      /\ unsteady' = IF services[s].notified # copy.notified THEN unsteady \cup {s} ELSE unsteady
      /\ UNCHANGED bells /\ byhand \subseteq byhand' /\ byhand' \subseteq byhand \cup {s}
      /\ req[w].at = "service.bill" \/ copy.status # "DONE" \/ services[s].status = "DONE" \/ s \in byhand'
      /\ invoices' = IF req[w].at = "service.bill" THEN [invoices EXCEPT ![s] = @ + 1] ELSE invoices
  BY DEF SaveService, Bill, At, Overwrite, Answer, Proceed
<1>2. ServiceJob(req[w])
  BY DEF ServicesInv
<1>3. /\ s \in ServiceIds /\ services[s].state # "none" /\ IsService(copy) /\ copy.state # "none"
      /\ req[w].at = "service.bill" => copy.status = "DONE" /\ (services[s].status = "DONE" => s \in undone)
  BY <1>1, <1>2 DEF ServiceJob, Editing
<1>4. \A x \in Workers \ {w} : req[x].at \in Editing /\ req[x].row = s => s \in undone
  BY <1>1 DEF ServicesInv, OneEdits, Editing
<1> HIDE DEF s, copy
<1>5. /\ services' = [x \in ServiceIds |-> services'[x]] /\ services'[s] = copy
      /\ \A x \in ServiceIds \ {s} : services'[x] = services[x]
  BY <1>1, <1>3 DEF ServicesInv
<1>6. /\ invoices' \in [ServiceIds -> Nat]
      /\ \A x \in ServiceIds \ {s} : invoices'[x] = invoices[x]
      /\ invoices'[s] = IF req[w].at = "service.bill" THEN invoices[s] + 1 ELSE invoices[s]
  BY <1>1, <1>3 DEF ServicesInv
<1>7. /\ undone \subseteq undone' /\ undone' \subseteq undone \cup {s}
      /\ s \notin undone' => services[s].status \notin Billed \/ copy.status = services[s].status
      /\ unsteady \subseteq unsteady' /\ unsteady' \subseteq unsteady \cup {s}
      /\ s \notin unsteady' => copy.notified = services[s].notified
  BY <1>1
<1>8. req'[w].at = "idle" /\ \A x \in Workers \ {w} : req'[x] = req[x]
  BY <1>1 DEF Slots, Idle
<1>9. ASSUME NEW x \in Workers PROVE ServiceJob(req[x])'
  <2>1. CASE x = w
    BY <1>8, <2>1 DEF ServiceJob, Editing
  <2>2. CASE x # w
    <3>1. ServiceJob(req[x]) /\ req'[x] = req[x]
      BY <1>8, <2>2 DEF ServicesInv
    <3>2. req[x].at \in Editing /\ req[x].row = s => s \in undone'
      BY <1>4, <1>7, <2>2
    <3>3. \A y \in ServiceIds : services[y].state # "none" => services'[y].state # "none"
      BY <1>3, <1>5
    <3> QED BY <3>1, <3>2, <3>3, <1>1, <1>3, <1>5, <1>7 DEF ServiceJob, Editing
  <2> QED BY <2>1, <2>2
<1>10. (OneEdits /\ OneTells)'
  BY <1>7, <1>8 DEF ServicesInv, OneEdits, OneTells, Editing
<1>11. NewServices'
  BY <1>1, <1>3, <1>5, <1>6 DEF ServicesInv, NewServices
<1>12. BilledOnce'
  <2>1. ASSUME s \notin undone'
        PROVE  /\ invoices'[s] <= 1 /\ (invoices'[s] = 1 => copy.status \in Billed)
               /\ copy.status = "DONE" /\ s \notin byhand' => invoices'[s] = 1
    <3>1. /\ invoices[s] <= 1 /\ (invoices[s] = 1 => services[s].status \in Billed) /\ invoices[s] \in Nat
          /\ services[s].status = "DONE" /\ s \notin byhand => invoices[s] = 1
      BY <1>3, <1>7, <2>1 DEF ServicesInv, BilledOnce
    <3>2. CASE req[w].at = "service.bill"
      <4>1. services[s].status \notin Billed
        BY <1>3, <1>7, <2>1, <3>2
      <4> QED BY <1>3, <1>6, <3>1, <3>2, <4>1 DEF Billed
    <3>3. CASE req[w].at # "service.bill"
      BY <1>1, <1>6, <1>7, <2>1, <3>1, <3>3
    <3> QED BY <3>2, <3>3
  <2> QED BY <2>1, <1>1, <1>3, <1>5, <1>6, <1>7 DEF ServicesInv, BilledOnce
<1>13. Rung'
  <2>1. \A x \in Workers : req[x].at = "notify" => req'[x] = req[x]
    BY <1>1, <1>8
  <2>2. \A x \in ServiceIds \ unsteady' : services'[x].notified = services[x].notified
    BY <1>5, <1>7
  <2> QED BY <2>1, <2>2, <1>1, <1>7 DEF ServicesInv, Rung
<1>14. \A x \in ServiceIds : IsService(services'[x])
  BY <1>3, <1>5 DEF ServicesInv
<1> QED BY <1>1, <1>5, <1>6, <1>9, <1>10, <1>11, <1>12, <1>13, <1>14 DEF ServicesInv

\* Saving one column.
LEMMA ServiceColumn ==
  ASSUME ServicesInv, Slots, NEW w \in Workers, SaveBell(w) \/ SaveReturn(w)
  PROVE  ServicesInv'
<1> DEFINE s == req[w].row
<1>1. /\ req[w].at \in {"service.bell", "service.return"} /\ req' = [req EXCEPT ![w] = Idle]
      /\ UNCHANGED <<invoices, bells, byhand, unsteady>>
  BY DEF SaveBell, SaveReturn, At, Answer, Proceed, serviceHistory
<1>2. ServiceJob(req[w])
  BY DEF ServicesInv
<1>3. s \in ServiceIds /\ IsService(services[s])
  BY <1>1, <1>2 DEF ServiceJob, Editing, ServicesInv
<1>4. /\ services' = [x \in ServiceIds |-> services'[x]] /\ IsService(services'[s])
      /\ \A x \in ServiceIds \ {s} : services'[x] = services[x]
      /\ services'[s].state = services[s].state /\ services'[s].notified = services[s].notified
      /\ undone \subseteq undone' /\ (s \notin undone' => services'[s].status = services[s].status)
  <2>1. CASE SaveBell(w)
    <3> DEFINE row == [services[s] EXCEPT !.bell = req[w].copy.bell]
    <3>1. IsService(row) /\ row.state = services[s].state /\ row.notified = services[s].notified
          /\ row.status = services[s].status
      BY <1>3 DEF IsService
    <3>2. services' = [services EXCEPT ![s] = row] /\ undone' = undone
      BY <2>1 DEF SaveBell, serviceHistory
    <3> HIDE DEF row, s
    <3> QED BY <1>3, <3>1, <3>2 DEF ServicesInv
  <2>2. CASE SaveReturn(w)
    <3> DEFINE row == [services[s] EXCEPT !.status = "RETURNED"]
    <3>1. IsService(row) /\ row.state = services[s].state /\ row.notified = services[s].notified
      BY <1>3 DEF IsService
    <3>2. services' = [services EXCEPT ![s] = row] /\ undone' = undone \cup {s}
      BY <2>2 DEF SaveReturn
    <3> HIDE DEF row, s
    <3> QED BY <1>3, <3>1, <3>2 DEF ServicesInv
  <2> QED BY <2>1, <2>2
<1> HIDE DEF s
<1>5. req'[w].at = "idle" /\ \A x \in Workers \ {w} : req'[x] = req[x]
  BY <1>1 DEF Slots, Idle
<1>6. \A x \in ServiceIds :
        /\ services'[x].state = services[x].state /\ services'[x].notified = services[x].notified
        /\ x \notin undone' => services'[x].status = services[x].status
  BY <1>4
<1>7. ASSUME NEW x \in Workers PROVE ServiceJob(req[x])'
  <2>1. CASE x = w
    BY <1>5, <2>1 DEF ServiceJob, Editing
  <2>2. CASE x # w
    <3>1. ServiceJob(req[x]) /\ req'[x] = req[x]
      BY <1>5, <2>2 DEF ServicesInv
    <3> QED BY <3>1, <1>1, <1>4, <1>6 DEF ServiceJob, Editing
  <2> QED BY <2>1, <2>2
<1>8. (OneEdits /\ OneTells)'
  BY <1>1, <1>4, <1>5 DEF ServicesInv, OneEdits, OneTells, Editing
<1>9. (NewServices /\ BilledOnce)'
  BY <1>1, <1>4, <1>6 DEF ServicesInv, NewServices, BilledOnce
<1>10. Rung'
  <2>1. \A x \in Workers : req[x].at = "notify" => req'[x] = req[x]
    BY <1>1, <1>5
  <2> QED BY <2>1, <1>1, <1>6 DEF ServicesInv, Rung
<1>11. \A x \in ServiceIds : IsService(services'[x])
  BY <1>4 DEF ServicesInv
<1> QED BY <1>1, <1>4, <1>7, <1>8, <1>9, <1>10, <1>11 DEF ServicesInv

\* Starting the notifier, which counts the services that another run may be about to announce.
LEMMA ServicesListed ==
  ASSUME ServicesInv, Slots, NEW w \in Workers, ListDue(w)
  PROVE  ServicesInv'
<1>1. PICK list :
        /\ list = IF NotifyHours = 0 THEN {} ELSE {s \in Candidates : Due(services[s].eta, now)}
        /\ req' = [req EXCEPT ![w] = [at |-> "notify", list |-> list, told |-> {}]]
        /\ unsteady' = unsteady \cup (list \cap Announcing(Workers))
        /\ req[w] = Idle /\ UNCHANGED <<serviceTables, byhand, undone>>
  BY DEF ListDue, Begin
<1>2. list \subseteq ServiceIds /\ \A s \in list : services[s].state = "live" /\ ~services[s].notified
  BY <1>1 DEF Candidates
<1> DEFINE job == [at |-> "notify", list |-> list, told |-> {}]
<1>3. job.at = "notify" /\ job.list = list /\ job.told = {} /\ job = [at |-> job.at, list |-> job.list, told |-> job.told]
  OBVIOUS
<1> HIDE DEF job
<1>4. req'[w] = job /\ \A x \in Workers \ {w} : req'[x] = req[x]
  BY <1>1 DEF Slots, job
<1>5. \A x \in Workers : req[x].at = "notify" => list \cap req[x].list \subseteq unsteady'
  BY <1>1 DEF Announcing, At
<1>6. unsteady \subseteq unsteady'
  BY <1>1
<1>7. \A s \in list : bells[s] = 0 \/ s \in unsteady'
  <2> SUFFICES ASSUME NEW s \in list, s \notin unsteady' PROVE bells[s] = 0
    OBVIOUS
  <2>1. \A x \in Workers : req[x].at = "notify" => s \notin req[x].told
    BY <1>5 DEF ServicesInv, ServiceJob
  <2> QED BY <1>2, <1>6, <2>1 DEF ServicesInv, Rung
<1>8. ServiceJob(job)'
  BY <1>1, <1>2, <1>3, <1>7 DEF ServiceJob, Editing, serviceTables
<1>9. ASSUME NEW x \in Workers PROVE ServiceJob(req[x])'
  <2>1. CASE x = w
    BY <1>4, <1>8, <2>1 DEF ServiceJob
  <2>2. CASE x # w
    <3>1. ServiceJob(req[x]) /\ req'[x] = req[x]
      BY <1>4, <2>2 DEF ServicesInv
    <3> QED BY <3>1, <1>1, <1>6 DEF ServiceJob, serviceTables
  <2> QED BY <2>1, <2>2
<1>10. OneEdits'
  BY <1>1, <1>3, <1>4 DEF ServicesInv, OneEdits, Editing
<1>11. OneTells'
  BY <1>3, <1>4, <1>5, <1>6 DEF ServicesInv, OneTells
<1>12. (NewServices /\ BilledOnce)'
  BY <1>1 DEF ServicesInv, NewServices, BilledOnce, serviceTables
<1>13. Rung'
  <2>1. \A x \in Workers : req[x].at = "notify" => req'[x] = req[x]
    BY <1>1, <1>4 DEF Idle
  <2> QED BY <1>1, <1>6, <2>1 DEF ServicesInv, Rung, serviceTables
<1> QED BY <1>1, <1>9, <1>10, <1>11, <1>12, <1>13 DEF ServicesInv, serviceTables

\* The notifier at work: it rings, and then it sets the flag.
LEMMA ServiceTold ==
  ASSUME ServicesInv, Slots, NEW w \in Workers, NEW s \in ServiceIds, TellService(w, s) \/ FlagService(w, s)
  PROVE  ServicesInv'
<1>1. ServiceJob(req[w]) /\ req[w].at = "notify"
  BY DEF ServicesInv, TellService, FlagService, At
<1>2. /\ req[w] = [at |-> "notify", list |-> req[w].list, told |-> req[w].told] /\ req[w].told \subseteq req[w].list
      /\ UNCHANGED <<invoices, byhand, undone, unsteady>>
  BY <1>1 DEF ServiceJob, TellService, FlagService, serviceHistory
<1>3. PICK list, told :
        /\ req' = [req EXCEPT ![w] = [at |-> "notify", list |-> list, told |-> told]]
        /\ \/ list = req[w].list /\ told = {s} /\ TellService(w, s)
           \/ list = req[w].list \ {s} /\ told = {} /\ FlagService(w, s)
  <2>1. CASE TellService(w, s)
    <3>1. req' = [req EXCEPT ![w] = [req[w] EXCEPT !.told = {s}]]
      BY <2>1 DEF TellService, Proceed
    <3>2. [req[w] EXCEPT !.told = {s}] = [at |-> "notify", list |-> req[w].list, told |-> {s}]
      BY <1>2
    <3> QED BY <2>1, <3>1, <3>2
  <2>2. CASE FlagService(w, s)
    <3>1. req' = [req EXCEPT ![w] = [req[w] EXCEPT !.told = {}, !.list = @ \ {s}]]
      BY <2>2 DEF FlagService, Proceed
    <3> DEFINE first == [req[w] EXCEPT !.told = {}]
    <3>2. first = [at |-> "notify", list |-> req[w].list, told |-> {}]
      BY <1>2
    <3>3. [req[w] EXCEPT !.told = {}, !.list = @ \ {s}] = [first EXCEPT !.list = req[w].list \ {s}]
      BY <1>2
    <3> HIDE DEF first
    <3>4. [first EXCEPT !.list = req[w].list \ {s}] = [at |-> "notify", list |-> req[w].list \ {s}, told |-> {}]
      BY <3>2
    <3> QED BY <2>2, <3>1, <3>3, <3>4
  <2> QED BY <2>1, <2>2
<1> DEFINE job == [at |-> "notify", list |-> list, told |-> told]
<1>4. job.at = "notify" /\ job.list = list /\ job.told = told /\ job = [at |-> job.at, list |-> job.list, told |-> job.told]
  OBVIOUS
<1> HIDE DEF job
<1>5. req'[w] = job /\ \A x \in Workers \ {w} : req'[x] = req[x]
  BY <1>3 DEF Slots, job
<1>6. list \subseteq req[w].list
  BY <1>3
<1>7. OneEdits' /\ OneTells'
  BY <1>1, <1>2, <1>4, <1>5, <1>6 DEF ServicesInv, OneEdits, OneTells, Editing
<1>8. CASE TellService(w, s)
  <2>1. /\ UNCHANGED services /\ bells' = [bells EXCEPT ![s] = @ + 1] /\ req[w].told = {} /\ s \in req[w].list
    BY <1>8 DEF TellService
  <2>2. /\ bells' \in [ServiceIds -> Nat] /\ bells'[s] = bells[s] + 1 /\ \A x \in ServiceIds \ {s} : bells'[x] = bells[x]
    BY <2>1 DEF ServicesInv
  <2>3. list = req[w].list /\ told = {s}
    <3>1. req'[w].told = {s} /\ req'[w].list = req[w].list
      <4>1. req' = [req EXCEPT ![w] = [req[w] EXCEPT !.told = {s}]]
        BY <1>8 DEF TellService, Proceed
      <4>2. [req[w] EXCEPT !.told = {s}] = [at |-> "notify", list |-> req[w].list, told |-> {s}]
        BY <1>2
      <4> QED BY <4>1, <4>2 DEF Slots
    <3> QED BY <3>1, <1>4, <1>5
  <2>4. s \notin unsteady => bells[s] = 0
    BY <1>1, <2>1 DEF ServiceJob
  <2>5. services[s].state # "none"
    BY <1>1, <2>1 DEF ServiceJob
  <2>6. ASSUME NEW x \in Workers PROVE ServiceJob(req[x])'
    <3>1. CASE x = w
      <4>1. req'[x] = job
        BY <1>5, <3>1
      <4>2. \A y \in list : y \in ServiceIds /\ services[y].state # "none"
        BY <1>1, <2>3 DEF ServiceJob
      <4>3. \A y \in list \ told : bells'[y] = 0 \/ y \in unsteady
        BY <1>1, <2>1, <2>2, <2>3, <4>2 DEF ServiceJob
      <4> QED BY <1>2, <1>4, <2>1, <2>3, <4>1, <4>2, <4>3 DEF ServiceJob, Editing
    <3>2. CASE x # w
      <4>1. ServiceJob(req[x]) /\ req'[x] = req[x]
        BY <1>5, <3>2 DEF ServicesInv
      <4>2. req[x].at = "notify" => s \notin req[x].list \/ s \in unsteady
        BY <1>1, <2>1, <3>2 DEF ServicesInv, OneTells
      <4> QED BY <4>1, <4>2, <1>2, <2>1, <2>2 DEF ServiceJob
    <3> QED BY <3>1, <3>2
  <2>7. (NewServices /\ BilledOnce)'
    BY <1>2, <2>1, <2>2, <2>5 DEF ServicesInv, NewServices, BilledOnce
  <2>8. Rung'
    <3>1. \A x \in Workers : \A y : req[x].at = "notify" /\ y \in req[x].told => req'[x].at = "notify" /\ y \in req'[x].told
      BY <1>4, <1>5, <2>1
    <3>2. req'[w].at = "notify" /\ s \in req'[w].told
      BY <1>4, <1>5, <2>3
    <3> QED BY <3>1, <3>2, <1>2, <2>1, <2>2, <2>4 DEF ServicesInv, Rung
  <2> QED BY <1>2, <1>7, <2>1, <2>2, <2>6, <2>7, <2>8 DEF ServicesInv
<1>9. CASE FlagService(w, s)
  <2>1. /\ services' = [services EXCEPT ![s].notified = TRUE] /\ UNCHANGED bells /\ req[w].told = {s}
    BY <1>9 DEF FlagService
  <2>2. PICK row : row = [services[s] EXCEPT !.notified = TRUE] /\ IsService(row) /\ row.notified
                   /\ row.state = services[s].state /\ row.status = services[s].status
    <3>1. ASSUME NEW row, row = [services[s] EXCEPT !.notified = TRUE]
          PROVE  IsService(row)
      <4>1. IsService(services[s])
        BY DEF ServicesInv
      <4> QED BY <3>1, <4>1 DEF IsService
    <3>2. ASSUME NEW row, row = [services[s] EXCEPT !.notified = TRUE]
          PROVE  row.notified /\ row.state = services[s].state /\ row.status = services[s].status
      <4>1. IsService(services[s])
        BY DEF ServicesInv
      <4> QED BY <3>2, <4>1 DEF IsService
    <3> QED BY <3>1, <3>2
  <2>3. /\ services' = [x \in ServiceIds |-> services'[x]] /\ services'[s] = row
        /\ \A x \in ServiceIds \ {s} : services'[x] = services[x]
    BY <2>1, <2>2 DEF ServicesInv
  <2>4. list = req[w].list \ {s} /\ told = {}
    BY <1>3, <2>1 DEF TellService
  <2>5. \A x \in ServiceIds : services'[x].state = services[x].state /\ services'[x].status = services[x].status
    BY <2>2, <2>3
  <2>6. ASSUME NEW x \in Workers PROVE ServiceJob(req[x])'
    <3>1. CASE x = w
      <4>1. req'[x] = job
        BY <1>5, <3>1
      <4>2. \A y \in list : y \in ServiceIds /\ services'[y].state # "none"
        BY <1>1, <2>4, <2>5 DEF ServiceJob
      <4>3. \A y \in list \ told : bells'[y] = 0 \/ y \in unsteady
        BY <1>1, <2>1, <2>4 DEF ServiceJob
      <4> QED BY <1>2, <1>4, <2>4, <4>1, <4>2, <4>3 DEF ServiceJob, Editing
    <3>2. CASE x # w
      <4>1. ServiceJob(req[x]) /\ req'[x] = req[x]
        BY <1>5, <3>2 DEF ServicesInv
      <4> QED BY <4>1, <1>2, <2>1, <2>5 DEF ServiceJob
    <3> QED BY <3>1, <3>2
  <2>7. (NewServices /\ BilledOnce)'
    BY <1>2, <2>1, <2>5 DEF ServicesInv, NewServices, BilledOnce
  <2>8. Rung'
    <3>1. \A x \in Workers, y \in ServiceIds \ {s} :
            req[x].at = "notify" /\ y \in req[x].told => req'[x].at = "notify" /\ y \in req'[x].told
      BY <1>4, <1>5, <2>1
    <3> QED BY <3>1, <1>2, <2>1, <2>2, <2>3 DEF ServicesInv, Rung
  <2>9. \A x \in ServiceIds : IsService(services'[x])
    BY <2>2, <2>3 DEF ServicesInv
  <2> QED BY <1>2, <1>7, <2>1, <2>3, <2>6, <2>7, <2>8, <2>9 DEF ServicesInv
<1> QED BY <1>8, <1>9

\* The end of a request, by itself or by its death.
LEMMA ServicesEnded ==
  ASSUME ServicesInv, Slots, NEW w \in Workers,
         RunEnds(w) \/ (DieServing(w) /\ req[w].at \in ServiceAts)
  PROVE  ServicesInv'
<1>1. /\ req' = [req EXCEPT ![w] = Idle] /\ UNCHANGED <<serviceTables, byhand, undone>>
      /\ unsteady' = unsteady \/ unsteady' = unsteady \cup req[w].told
      /\ req[w].at = "notify" => req[w].told \subseteq unsteady' \/ req[w].list = {}
  BY DEF RunEnds, DieServing, Crash, Answer, Proceed, serviceVars, serviceHistory, At
<1>2. req'[w].at = "idle" /\ \A x \in Workers \ {w} : req'[x] = req[x]
  BY <1>1 DEF Slots, Idle
<1>3. unsteady \subseteq unsteady'
  BY <1>1
<1>4. req[w].at = "notify" => req[w].told \subseteq unsteady'
  BY <1>1 DEF ServicesInv, ServiceJob
<1>5. ASSUME NEW x \in Workers PROVE ServiceJob(req[x])'
  <2>1. CASE x = w
    BY <1>2, <2>1 DEF ServiceJob, Editing
  <2>2. CASE x # w
    <3>1. ServiceJob(req[x]) /\ req'[x] = req[x]
      BY <1>2, <2>2 DEF ServicesInv
    <3> QED BY <3>1, <1>1, <1>3 DEF ServiceJob, serviceTables
  <2> QED BY <2>1, <2>2
<1>6. (OneEdits /\ OneTells)'
  BY <1>1, <1>2, <1>3 DEF ServicesInv, OneEdits, OneTells, Editing
<1>7. (NewServices /\ BilledOnce)'
  BY <1>1 DEF ServicesInv, NewServices, BilledOnce, serviceTables
<1>8. Rung'
  <2>1. \A x \in Workers \ {w} : req[x].at = "notify" => req'[x] = req[x]
    BY <1>2
  <2> QED BY <2>1, <1>1, <1>3, <1>4 DEF ServicesInv, Rung, serviceTables
<1> QED BY <1>1, <1>5, <1>6, <1>7, <1>8 DEF ServicesInv, serviceTables

----------------------------------------------------------------------------
(* The components together. *)

BackInv == Slots /\ RefundsInv /\ CapInv /\ PurchasesInv /\ ServicesInv

\* A step of the request in slot w, of the component with these statements.
Works(w, ats) ==
  /\ Slots'
  /\ \A x \in Workers \ {w} : req'[x] = req[x]
  /\ req[w].at \in ats \cup {"idle"} /\ req'[w].at \in ats \cup {"idle"}

LEMMA Working ==
  ASSUME Slots, NEW w \in Workers, NEW ats, NEW job,
         req[w].at \in ats \cup {"idle"}, job.at \in ats \cup {"idle"},
         req' = [req EXCEPT ![w] = job]
  PROVE  Works(w, ats)
BY DEF Works, Slots

LEMMA Ending ==
  ASSUME Slots, NEW w \in Workers, NEW ats, req[w].at \in ats, Answer(w)
  PROVE  Works(w, ats)
<1>1. PICK job : job = Idle
  OBVIOUS
<1>2. job.at = "idle" /\ req' = [req EXCEPT ![w] = job]
  BY <1>1 DEF Idle, Answer, Proceed
<1> QED BY <1>2, Working

LEMMA Beginning ==
  ASSUME Slots, NEW w \in Workers, NEW ats, NEW job, job.at \in ats, Begin(w, job)
  PROVE  Works(w, ats)
<1>1. req[w].at = "idle" /\ req' = [req EXCEPT ![w] = job]
  BY DEF Begin, Idle
<1> QED BY <1>1, Working

LEMMA Immediate ==
  ASSUME Slots, NEW w \in Workers, NEW ats, AtOnce(w)
  PROVE  Works(w, ats)
BY DEF AtOnce, Works, Slots, Idle

LEMMA WorksForeign ==
  ASSUME NEW w \in Workers, NEW ats, NEW others, Works(w, ats), others \cap (ats \cup {"idle"}) = {}
  PROVE  Foreign(others)
BY DEF Works, Foreign

LEMMA RefundsWork ==
  ASSUME Slots, RefundsInv, NEW w \in Workers, RefundSteps(w)
  PROVE  Works(w, RefundAts)
<1>1. CASE \E inv \in Invoices \cup {NoInvoice}, b \in Baskets, restock \in BOOLEAN :
             BeginRefund(w, inv, b, restock)
  <2>1. PICK inv, b, restock : BeginRefund(w, inv, b, restock)
    BY <1>1
  <2>2. PICK job : job = [at |-> "refund.lock", inv |-> inv, was |-> inv, qty |-> b, restock |-> restock,
                          held |-> {}, number |-> 0]
    OBVIOUS
  <2>3. Begin(w, job) /\ job.at = "refund.lock"
    BY <2>1, <2>2 DEF BeginRefund
  <2> QED BY <2>3, Beginning DEF RefundAts
<1>2. CASE LockRefunds(w) \/ TakeNumber(w)
  <2>1. req[w].at \in {"refund.lock", "refund.number"} /\ RefundJob(req[w])
    BY <1>2 DEF LockRefunds, TakeNumber, At, RefundsInv
  <2>2. IsRefundJob(req[w])
    BY <2>1 DEF RefundJob
  <2>3. PICK job : /\ req' = [req EXCEPT ![w] = job]
                   /\ \/ job = [req[w] EXCEPT !.at = "refund.number", !.held = Rows]
                      \/ job = [req[w] EXCEPT !.at = "refund.commit",
                                              !.number = 1 + Max({refunds[i].number : i \in RefundIds})]
    BY <1>2 DEF LockRefunds, TakeNumber, Proceed
  <2>4. job.at \in {"refund.number", "refund.commit"}
    BY <2>2, <2>3 DEF IsRefundJob
  <2>5. req[w].at \in RefundAts \cup {"idle"} /\ job.at \in RefundAts \cup {"idle"}
    BY <2>1, <2>4 DEF RefundAts
  <2> QED BY <2>3, <2>5, Working
<1>3. CASE CommitRefund(w) \/ SaveRefund(w)
  <2>1. req[w].at \in RefundAts /\ Answer(w)
    BY <1>3 DEF CommitRefund, SaveRefund, At, RefundAts
  <2> QED BY <2>1, Ending
<1>4. CASE \E i \in RefundIds : ReadRefund(w, i) \/ RestoreRefund(w, i)
  <2>1. PICK i, copy, was, job :
          job = [at |-> "refund.save", row |-> i, copy |-> copy, inv |-> copy.inv, was |-> was] /\ Begin(w, job)
    BY <1>4 DEF ReadRefund, RestoreRefund
  <2>2. job.at = "refund.save"
    BY <2>1
  <2> QED BY <2>1, <2>2, Beginning DEF RefundAts
<1>5. CASE \E inv \in Invoices, cart \in Carts : EditSale(w, inv, cart)
  <2>1. AtOnce(w)
    BY <1>5 DEF EditSale
  <2> QED BY <2>1, Immediate
<1> QED BY <1>1, <1>2, <1>3, <1>4, <1>5 DEF RefundSteps

LEMMA PurchasesWork ==
  ASSUME Slots, PurchasesInv, NEW w \in Workers, PurchaseSteps(w)
  PROVE  Works(w, PurchaseAts)
<1>1. CASE PaySupplier(w) \/ \E p \in Purchases : CreatePurchase(w, p)
  <2>1. AtOnce(w)
    BY <1>1 DEF PaySupplier, CreatePurchase
  <2> QED BY <2>1, Immediate
<1>2. CASE \E p \in Purchases : Receive(w, p) \/ PatchPurchase(w, p) \/ DeletePurchase(w, p) \/ RestorePurchase(w, p)
  <2>1. PICK p, copy, how : ReadPurchase(w, p, copy, how)
    BY <1>2 DEF Receive, PatchPurchase, DeletePurchase, RestorePurchase
  <2>2. PICK job : job = [at |-> "purchase.old", row |-> p, copy |-> copy, goods |-> lines[p], how |-> how,
                          had |-> purchases[p].supplier]
    OBVIOUS
  <2>3. Begin(w, job) /\ job.at = "purchase.old"
    BY <2>1, <2>2 DEF ReadPurchase
  <2> QED BY <2>3, Beginning DEF PurchaseAts
<1>3. CASE CompareOld(w)
  <2>1. PICK at \in PurchaseAts : \E row, goods, had, moves, copy :
          Proceed(w, [at |-> at, row |-> row, goods |-> goods, had |-> had, moves |-> moves, copy |-> copy])
    BY <1>3 DEF CompareOld, PurchaseAts
  <2>1a. PICK row, goods, had, moves, copy :
          Proceed(w, [at |-> at, row |-> row, goods |-> goods, had |-> had, moves |-> moves, copy |-> copy])
    BY <2>1
  <2>2. PICK job : job = [at |-> at, row |-> row, goods |-> goods, had |-> had, moves |-> moves, copy |-> copy]
    OBVIOUS
  <2>3. req' = [req EXCEPT ![w] = job] /\ job.at = at /\ req[w].at = "purchase.old"
    BY <1>3, <2>1a, <2>2 DEF CompareOld, Proceed, At
  <2> QED BY <2>1, <2>3, Working DEF PurchaseAts
<1>4. CASE AddGoods(w)
  <2>1. req[w].at = "purchase.add" /\ PurchaseJob(req[w])
    BY <1>4 DEF AddGoods, At, PurchasesInv
  <2>2. req[w] = [at |-> req[w].at, row |-> req[w].row, goods |-> req[w].goods, had |-> req[w].had,
                  moves |-> req[w].moves, copy |-> req[w].copy]
    BY <2>1 DEF PurchaseJob, PurchaseAts
  <2>3. PICK job : job = [req[w] EXCEPT !.at = "purchase.save"] /\ req' = [req EXCEPT ![w] = job]
    BY <1>4 DEF AddGoods, Proceed
  <2>4. job.at = "purchase.save"
    BY <2>2, <2>3
  <2>5. req[w].at \in PurchaseAts \cup {"idle"} /\ job.at \in PurchaseAts \cup {"idle"}
    BY <2>1, <2>4 DEF PurchaseAts
  <2> QED BY <2>3, <2>5, Working
<1>5. CASE SavePurchase(w) \/ RefuseLines(w) \/ KeepLines(w) \/ \E existing, new \in Orders : ReplaceLines(w, existing, new)
  <2>1. req[w].at \in {"purchase.save", "purchase.update"} /\ Answer(w)
    BY <1>5 DEF SavePurchase, RefuseLines, KeepLines, ReplaceLines, CommitPatch, At
  <2> QED BY <2>1, Ending DEF PurchaseAts
<1> QED BY <1>1, <1>2, <1>3, <1>4, <1>5 DEF PurchaseSteps

LEMMA ServicesWork ==
  ASSUME Slots, ServicesInv, NEW w \in Workers, ServiceSteps(w)
  PROVE  Works(w, ServiceAts)
<1>1. CASE \E s \in ServiceIds : CreateService(w, s)
  <2>1. AtOnce(w)
    BY <1>1 DEF CreateService
  <2> QED BY <2>1, Immediate
<1>2. CASE \E s \in ServiceIds :
             \/ Done(w, s) \/ Cancel(w, s) \/ Archive(w, s) \/ Return(w, s)
             \/ ToggleBell(w, s) \/ EditService(w, s) \/ DeleteService(w, s)
  <2>1. PICK s \in ServiceIds : \E at \in ServiceAts : \E copy : ReadService(w, s, at, copy)
    <3> DEFINE Reads(s) == \E at \in ServiceAts : \E copy : ReadService(w, s, at, copy)
    <3>1. ASSUME NEW s, NEW at \in {"service.save", "service.bill", "service.bell", "service.return"}, NEW copy,
                 ReadService(w, s, at, copy)
          PROVE  Reads(s)
      BY <3>1 DEF ServiceAts
    <3> HIDE DEF Reads
    <3>2. ASSUME NEW s \in ServiceIds, Done(w, s) \/ Cancel(w, s) \/ Archive(w, s) PROVE Reads(s)
      BY <3>1, <3>2 DEF Done, Cancel, Archive
    <3>3. ASSUME NEW s \in ServiceIds, Return(w, s) \/ ToggleBell(w, s) \/ DeleteService(w, s) PROVE Reads(s)
      BY <3>1, <3>3 DEF Return, ToggleBell, DeleteService
    <3>4. ASSUME NEW s \in ServiceIds, EditService(w, s) PROVE Reads(s)
      BY <3>1, <3>4 DEF EditService
    <3>5. \E s \in ServiceIds : Reads(s)
      BY <1>2, <3>2, <3>3, <3>4
    <3> QED BY <3>5 DEF Reads
  <2>1a. PICK at, copy : at \in ServiceAts /\ ReadService(w, s, at, copy)
    BY <2>1
  <2>2. PICK job : job = [at |-> at, row |-> s, copy |-> copy]
    OBVIOUS
  <2>3. Begin(w, job) /\ job.at = at
    BY <2>1a, <2>2 DEF ReadService
  <2> QED BY <2>1a, <2>3, Beginning
<1>3. CASE \E s \in ServiceIds : TellService(w, s) \/ FlagService(w, s)
  <2>1. PICK s \in ServiceIds : TellService(w, s) \/ FlagService(w, s)
    BY <1>3
  <2>2. req[w].at = "notify" /\ ServiceJob(req[w])
    BY <2>1 DEF TellService, FlagService, At, ServicesInv
  <2>3. req[w] = [at |-> "notify", list |-> req[w].list, told |-> req[w].told]
    BY <2>2 DEF ServiceJob
  <2>4. PICK job : /\ req' = [req EXCEPT ![w] = job]
                   /\ \/ job = [req[w] EXCEPT !.told = {s}]
                      \/ job = [req[w] EXCEPT !.told = {}, !.list = @ \ {s}]
    BY <2>1 DEF TellService, FlagService, Proceed
  <2>5. job.at = "notify"
    <3> DEFINE first == [req[w] EXCEPT !.told = {}]
    <3>1. first = [at |-> "notify", list |-> req[w].list, told |-> {}]
      BY <2>2, <2>3
    <3>2. [req[w] EXCEPT !.told = {}, !.list = @ \ {s}] = [first EXCEPT !.list = req[w].list \ {s}]
      BY <2>3
    <3> HIDE DEF first
    <3>3. [first EXCEPT !.list = req[w].list \ {s}].at = "notify"
      BY <3>1
    <3>4. [req[w] EXCEPT !.told = {s}].at = "notify"
      BY <2>2, <2>3
    <3> QED BY <2>4, <3>2, <3>3, <3>4
  <2>6. req[w].at \in ServiceAts \cup {"idle"} /\ job.at \in ServiceAts \cup {"idle"}
    BY <2>2, <2>5 DEF ServiceAts
  <2> QED BY <2>4, <2>6, Working
<1>4. CASE SaveService(w) \/ Bill(w) \/ SaveBell(w) \/ SaveReturn(w) \/ RunEnds(w)
  <2>1. req[w].at \in ServiceAts /\ Answer(w)
    BY <1>4 DEF SaveService, Bill, SaveBell, SaveReturn, RunEnds, At, ServiceAts
  <2> QED BY <2>1, Ending
<1>5. CASE ListDue(w)
  <2>1. PICK list, job : job = [at |-> "notify", list |-> list, told |-> {}] /\ Begin(w, job)
    BY <1>5 DEF ListDue
  <2>2. job.at = "notify"
    BY <2>1
  <2> QED BY <2>1, <2>2, Beginning DEF ServiceAts
<1> QED BY <1>1, <1>2, <1>3, <1>4, <1>5 DEF ServiceSteps

LEMMA AtsApart ==
  /\ RefundAts \cap (PurchaseAts \cup {"idle"}) = {} /\ RefundAts \cap (ServiceAts \cup {"idle"}) = {}
  /\ PurchaseAts \cap (RefundAts \cup {"idle"}) = {} /\ PurchaseAts \cap (ServiceAts \cup {"idle"}) = {}
  /\ ServiceAts \cap (RefundAts \cup {"idle"}) = {} /\ ServiceAts \cap (PurchaseAts \cup {"idle"}) = {}
BY DEF RefundAts, PurchaseAts, ServiceAts

LEMMA RefundStepKeeps ==
  ASSUME BackInv, RefundsAssumption, NEW w \in Workers, RefundSteps(w), UNCHANGED <<purchaseVars, serviceVars>>
  PROVE  BackInv'
<1>1. Works(w, RefundAts)
  BY RefundsWork DEF BackInv
<1>2. Foreign(PurchaseAts) /\ Foreign(ServiceAts) /\ Slots'
  BY <1>1, AtsApart, WorksForeign DEF Works
<1>3. PurchasesInv' /\ ServicesInv'
  BY <1>2, PurchasesAside, ServicesAside DEF BackInv, purchaseVars, purchaseTables, purchaseHistory, serviceVars
<1>4. CASE \E inv \in Invoices, cart \in Carts : EditSale(w, inv, cart)
  <2>1. UNCHANGED <<req, refunds>>
    BY <1>4 DEF EditSale, AtOnce
  <2>2. RefundsInv'
    BY <2>1, RefundsAside DEF BackInv, Foreign
  <2>3. CapInv'
    BY <1>4, CapEdited DEF BackInv
  <2> QED BY <1>2, <1>3, <2>2, <2>3 DEF BackInv
<1>5. CASE ~ \E inv \in Invoices, cart \in Carts : EditSale(w, inv, cart)
  <2>1. RefundsInv'
    BY <1>5, RefundsBegun, RefundsNumbered, RefundsCommitted, RefundsSaved DEF BackInv, RefundSteps
  <2>2. CapInv'
    BY <1>5, CapBegun, CapRead, CapNumbered, CapCommitted, CapSaved DEF BackInv, RefundSteps
  <2> QED BY <1>2, <1>3, <2>1, <2>2 DEF BackInv
<1> QED BY <1>4, <1>5

LEMMA PurchaseStepKeeps ==
  ASSUME BackInv, NEW w \in Workers, PurchaseSteps(w), UNCHANGED <<refundVars, serviceVars>>
  PROVE  BackInv'
<1>1. Works(w, PurchaseAts)
  BY PurchasesWork DEF BackInv
<1>2. Foreign(RefundAts) /\ Foreign(ServiceAts) /\ Slots'
  BY <1>1, AtsApart, WorksForeign DEF Works
<1>3. RefundsInv' /\ CapInv' /\ ServicesInv'
  BY <1>2, RefundsAside, CapAside, ServicesAside DEF BackInv, refundVars, refundTables, serviceVars
<1>4. PurchasesInv'
  <2>1. CASE \E p \in Purchases :
               CreatePurchase(w, p) \/ Receive(w, p) \/ PatchPurchase(w, p) \/ DeletePurchase(w, p) \/ RestorePurchase(w, p)
    BY <2>1, PurchaseCreated, PurchaseReads DEF BackInv
  <2>2. CASE CompareOld(w) \/ AddGoods(w)
    BY <2>2, PurchaseCompared, PurchaseAdded DEF BackInv
  <2>3. CASE SavePurchase(w) \/ RefuseLines(w)
    <3>1. req[w].at \in PurchaseAts
      BY <2>3 DEF SavePurchase, RefuseLines, At, PurchaseAts
    <3> QED BY <2>3, <3>1, PurchaseEnded DEF BackInv
  <2>4. CASE KeepLines(w) \/ \E existing, new \in Orders : ReplaceLines(w, existing, new)
    BY <2>4, PurchasePatched DEF BackInv
  <2>5. CASE PaySupplier(w)
    <3>1. UNCHANGED <<req, purchases, lines, receipts, jostled>>
      BY <2>5 DEF PaySupplier, AtOnce, purchaseHistory
    <3> QED BY <3>1, PurchasesAside DEF BackInv, Foreign
  <2> QED BY <2>1, <2>2, <2>3, <2>4, <2>5 DEF PurchaseSteps
<1> QED BY <1>2, <1>3, <1>4 DEF BackInv

LEMMA ServiceStepKeeps ==
  ASSUME BackInv, NEW w \in Workers, ServiceSteps(w), UNCHANGED <<refundVars, purchaseVars>>
  PROVE  BackInv'
<1>1. Works(w, ServiceAts)
  BY ServicesWork DEF BackInv
<1>2. Foreign(RefundAts) /\ Foreign(PurchaseAts) /\ Slots'
  BY <1>1, AtsApart, WorksForeign DEF Works
<1>3. RefundsInv' /\ CapInv' /\ PurchasesInv'
  BY <1>2, RefundsAside, CapAside, PurchasesAside DEF BackInv, refundVars, refundTables, purchaseVars, purchaseTables, purchaseHistory
<1>4. ServicesInv'
  <2>1. CASE \E s \in ServiceIds :
               \/ CreateService(w, s) \/ Done(w, s) \/ Cancel(w, s) \/ Archive(w, s) \/ Return(w, s)
               \/ ToggleBell(w, s) \/ EditService(w, s) \/ DeleteService(w, s)
               \/ TellService(w, s) \/ FlagService(w, s)
    BY <2>1, ServiceCreated, ServiceReads, ServiceTold DEF BackInv
  <2>2. CASE SaveService(w) \/ Bill(w) \/ SaveBell(w) \/ SaveReturn(w) \/ ListDue(w) \/ RunEnds(w)
    BY <2>2, ServiceSaved, ServiceColumn, ServicesListed, ServicesEnded DEF BackInv
  <2> QED BY <2>1, <2>2 DEF ServiceSteps
<1> QED BY <1>2, <1>3, <1>4 DEF BackInv

LEMMA DeathKeeps ==
  ASSUME BackInv, NEW w \in Workers, Die(w)
  PROVE  BackInv'
<1>1. req[w] # Idle /\ req' = [req EXCEPT ![w] = Idle]
  BY DEF Die, Crash, DiePurchasing, DieServing, Answer, Proceed
<1>2. Slots' /\ req'[w].at = "idle" /\ \A x \in Workers \ {w} : req'[x] = req[x]
  BY <1>1 DEF BackInv, Slots, Idle
<1>3. ASSUME NEW ats, req[w].at \notin ats, "idle" \notin ats PROVE Foreign(ats)
  BY <1>2, <1>3 DEF Foreign
<1>4. "idle" \notin RefundAts /\ "idle" \notin PurchaseAts /\ "idle" \notin ServiceAts
  BY DEF RefundAts, PurchaseAts, ServiceAts
<1>5. /\ Refunding(w) <=> req[w].at \in RefundAts
      /\ Buying(w) <=> req[w].at \in PurchaseAts
  BY DEF Refunding, Buying, RefundAts, PurchaseAts
<1>6. CASE Refunding(w) /\ Crash(w) /\ UNCHANGED <<stock, refundVars, purchaseVars, serviceVars>>
  <2>1. req[w].at \notin PurchaseAts /\ req[w].at \notin ServiceAts
    BY <1>5, <1>6 DEF RefundAts, PurchaseAts, ServiceAts
  <2>2. PurchasesInv' /\ ServicesInv'
    BY <1>3, <1>4, <1>6, <2>1, PurchasesAside, ServicesAside
       DEF BackInv, purchaseVars, purchaseTables, purchaseHistory, serviceVars
  <2>3. RefundsInv' /\ CapInv'
    BY <1>6, RefundsBegun, CapBegun, RefundsAssumption DEF BackInv
  <2> QED BY <1>2, <2>2, <2>3 DEF BackInv
<1>7. CASE Buying(w) /\ DiePurchasing(w) /\ UNCHANGED <<refundVars, serviceVars>>
  <2>1. req[w].at \notin RefundAts /\ req[w].at \notin ServiceAts
    BY <1>5, <1>7 DEF RefundAts, PurchaseAts, ServiceAts
  <2>2. RefundsInv' /\ CapInv' /\ ServicesInv'
    BY <1>3, <1>4, <1>7, <2>1, RefundsAside, CapAside, ServicesAside DEF BackInv, refundVars, refundTables, serviceVars
  <2>3. PurchasesInv'
    BY <1>5, <1>7, PurchaseEnded DEF BackInv
  <2> QED BY <1>2, <2>2, <2>3 DEF BackInv
<1>8. CASE ~Refunding(w) /\ ~Buying(w) /\ DieServing(w) /\ UNCHANGED <<stock, refundVars, purchaseVars>>
  <2>1. RefundsInv' /\ CapInv' /\ PurchasesInv'
    BY <1>3, <1>4, <1>5, <1>8, RefundsAside, CapAside, PurchasesAside
       DEF BackInv, refundVars, refundTables, purchaseVars, purchaseTables, purchaseHistory
  <2>2. CASE req[w].at \in ServiceAts
    BY <1>2, <1>8, <2>1, <2>2, ServicesEnded DEF BackInv
  <2>3. CASE req[w].at \notin ServiceAts
    <3>1. UNCHANGED <<serviceTables, serviceHistory>>
      BY <1>8, <2>3 DEF DieServing, At, ServiceAts, serviceHistory
    <3> QED BY <1>2, <1>3, <1>4, <2>1, <2>3, <3>1, ServicesAside DEF BackInv
  <2> QED BY <2>2, <2>3
<1> QED BY <1>6, <1>7, <1>8 DEF Die

\* The clock, and a stuttering step, leave the tables and the requests alone.
LEMMA NothingKeeps ==
  ASSUME BackInv, UNCHANGED <<req, refundVars, purchaseVars, serviceTables, serviceHistory>>
  PROVE  BackInv'
<1>1. Foreign(RefundAts) /\ Foreign(PurchaseAts) /\ Foreign(ServiceAts) /\ Slots'
  BY DEF Foreign, BackInv, Slots
<1> QED BY <1>1, RefundsAside, CapAside, PurchasesAside, ServicesAside
        DEF BackInv, refundVars, refundTables, purchaseVars, purchaseTables, purchaseHistory

LEMMA BackStep == BackInv /\ [Next]_vars => BackInv'
<1> SUFFICES ASSUME BackInv, [Next]_vars PROVE BackInv'
  OBVIOUS
<1>1. CASE \E w \in Workers : RefundSteps(w) /\ UNCHANGED <<purchaseVars, serviceVars>>
  BY <1>1, RefundStepKeeps, RefundsAssumption
<1>2. CASE \E w \in Workers : PurchaseSteps(w) /\ UNCHANGED <<refundVars, serviceVars>>
  BY <1>2, PurchaseStepKeeps
<1>3. CASE \E w \in Workers : ServiceSteps(w) /\ UNCHANGED <<stock, refundVars, purchaseVars>>
  <2>1. PICK w \in Workers : ServiceSteps(w) /\ UNCHANGED <<refundVars, purchaseVars>>
    BY <1>3
  <2> QED BY <2>1, ServiceStepKeeps
<1>4. CASE \E w \in Workers : Die(w)
  BY <1>4, DeathKeeps
<1>5. CASE Hour /\ UNCHANGED <<stock, refundVars, purchaseVars>>
  BY <1>5, NothingKeeps DEF Hour, slots
<1>6. CASE UNCHANGED vars
  BY <1>6, NothingKeeps DEF vars, slots, serviceVars
<1> QED BY <1>1, <1>2, <1>3, <1>4, <1>5, <1>6 DEF Next

LEMMA BackStart == Init => BackInv
<1> SUFFICES ASSUME Init PROVE BackInv
  OBVIOUS
<1>1. Slots
  BY DEF Init, SlotsInit, Slots
<1> QED BY <1>1, RefundsAssumption, RefundsStart, CapStart, PurchasesStart, ServicesStart DEF Init, BackInv

THEOREM BackOfficeInductive == Spec => []BackInv
BY BackStart, BackStep, PTL DEF Spec

\* Refunds.refund_number under select_for_update: two refunds share a number only if one of
\* them found no refund of the store to lock.
THEOREM RefundNumbersClashOnlyWhenBlind == Spec => []RefundNumbersClashWhenBlind
<1>1. BackInv => RefundNumbersClashWhenBlind
  BY DEF BackInv, RefundsInv
<1> QED BY <1>1, BackOfficeInductive, PTL

\* Only the commit and the save of a refund change what is refunded.
LEMMA RefundsUntouched ==
  ASSUME [Next]_vars
  PROVE  UNCHANGED refunds \/ \E w \in Workers : CommitRefund(w) \/ SaveRefund(w)
<1>1. ASSUME NEW w \in Workers, RefundSteps(w) PROVE UNCHANGED refunds \/ CommitRefund(w) \/ SaveRefund(w)
  BY <1>1 DEF RefundSteps, BeginRefund, LockRefunds, TakeNumber, ReadRefund, RestoreRefund, EditSale,
              refundVars, refundTables
<1>2. ASSUME NEW w \in Workers, Die(w) PROVE UNCHANGED refunds
  BY <1>2 DEF Die, refundVars, refundTables
<1> QED BY <1>1, <1>2 DEF Next, vars, refundVars, refundTables

LEMMA RefundsGrowWithin ==
  ASSUME BackInv, [Next]_vars, NEW inv \in Invoices, NEW v \in Variants
  PROVE  inv \in loose' \/ Refunded(inv, v)' <= Refunded(inv, v) \/ Refunded(inv, v)' <= sold'[inv][v]
<1>1. /\ RefundedOf[inv][v] = Refunded(inv, v) /\ RefundedOf[inv][v] \in Nat
      /\ RefundedOf'[inv][v] = Refunded(inv, v)'
  <2>1. RefundedOf'[inv][v] = Refunded(inv, v)'
    BY Zenon DEF RefundedOf
  <2> QED BY <2>1, RefundedType, RefundsAssumption DEF BackInv, CapInv
<1>2. CASE UNCHANGED refunds
  <2>1. RefundedOf' = RefundedOf
    BY <1>2, RefundedSame
  <2> QED BY <1>1, <2>1
<1>3. CASE \E w \in Workers : CommitRefund(w) \/ SaveRefund(w)
  <2>1. PICK w \in Workers : CommitRefund(w) \/ SaveRefund(w)
    BY <1>3
  <2>2. GrowsWithin(w) /\ UNCHANGED <<sold, loose>>
    <3>1. GrowsWithin(w)
      BY <2>1, RefundsAssumption, CapCommitted, CapSaved DEF BackInv
    <3> QED BY <2>1, <3>1 DEF CommitRefund, SaveRefund
  <2> QED BY <1>1, <2>2 DEF GrowsWithin
<1> QED BY <1>2, <1>3, RefundsUntouched

\* _validate_against_original: requests that do not overlap never refund more of an invoice than is
\* on its lines at that moment, with any number of refunds, deletions and edits before.
THEOREM RefundsStayWithinSale == Spec => RefundedWithinSale
<1> DEFINE Grows == \A inv \in Invoices, v \in Variants :
                      inv \in loose' \/ Refunded(inv, v)' <= Refunded(inv, v) \/ Refunded(inv, v)' <= sold'[inv][v]
<1>1. BackInv /\ [Next]_vars => [Grows]_refundVars
  BY RefundsGrowWithin
<1> QED BY <1>1, BackOfficeInductive, PTL DEF Spec, RefundedWithinSale

\* PurchaseViewSet.receive, PATCH and DELETE: without overlap, a death or a status set back by
\* hand, a purchase's goods enter the stock exactly once, and they are its lines from then on,
\* but for staged ones that become real in the request that receives it or later.
THEOREM GoodsAreReceivedOnce == Spec => []ReceivedOnce
<1>1. BackInv => ReceivedOnce
  <2> SUFFICES ASSUME BackInv, NEW p \in Purchases \ jostled
               PROVE  /\ added[p] <= 1
                      /\ OnPurchase(p) = {} => (added[p] = 1 <=> purchases[p].status = "RECEIVED")
                      /\ added[p] = 1 => p \in late \/ lines[p] = brought[p]
    BY DEF ReceivedOnce
  <2>1. OnPurchase(p) = {} => Free(p)
    BY DEF OnPurchase, Free, PurchaseAts
  <2> QED BY <2>1 DEF BackInv, PurchasesInv, Received, Stocked
<1> QED BY <1>1, BackOfficeInductive, PTL

\* PurchaseItem.save and _apply_lines: what is owed for a purchase is the cost of its lines.
THEOREM LinesAreOwed == Spec => []OwedForLines
<1>1. BackInv => OwedForLines
  BY DEF BackInv, PurchasesInv, Totals, OwedForLines
<1> QED BY <1>1, BackOfficeInductive, PTL

\* ServiceViewSet.done: a service never has a second invoice, one with an invoice has been done, and
\* one that is DONE has its invoice unless that status was sent by POST or PATCH; all without
\* overlapping requests or a DONE taken back.
THEOREM ServicesAreBilledOnce == Spec => []BilledOnce
<1>1. BackInv => BilledOnce
  BY DEF BackInv, ServicesInv
<1> QED BY <1>1, BackOfficeInductive, PTL

\* check_service_notifications: a service is announced at most once, without an overlapping run,
\* a death between the bell and the flag, or a stale save.
THEOREM ServicesAreToldOnce == Spec => []ToldOnce
<1>1. BackInv => ToldOnce
  BY DEF BackInv, ServicesInv, Rung, ToldOnce
<1> QED BY <1>1, BackOfficeInductive, PTL
=============================================================================
