------------------------- MODULE StockBatchesProofs -------------------------
(***************************************************************************)
(* For every set of branches, lots, sales and requests: what is in the     *)
(* dated batches agrees with the total of the branch, with the records of  *)
(* the draws of its sales, and leaves in the order of the expiry dates.    *)
(***************************************************************************)
EXTENDS StockBatches, Sums

\* Types, as TypeOK; that no lot is charged more than entered it follows from the accounts.
StockTyped ==
  /\ level \in [Branches -> Int]
  /\ batch \in [Branches -> [Lot -> Nat]]
  /\ consumed \in [Sales -> [Lot -> Nat]]
  /\ uncovered \in [Branches -> Int]
  /\ out \in [Sales -> Nat]
  /\ lots \in [Branches -> [Lot -> Int]]
  /\ strayed \subseteq Branches

\* A sale that was ever saved has a line.
InvoicesTyped ==
  /\ invoice \in [Sales -> Invoice]
  /\ \A i \in Sales : invoice[i].status # "ABSENT" => invoice[i].qty \in Quantities

JobsTyped ==
  /\ job \in [Requests -> {Idle} \cup Void \cup Moving]
  /\ \A r \in Requests : job[r] \in Void => invoice[job[r].sale].status # "ABSENT"

ControlTyped ==
  /\ tracked \in BOOLEAN
  /\ InvoicesTyped
  /\ JobsTyped
  /\ lock \in [Branches -> Requests \cup {Nobody}]
  /\ served \in 0..MaxOps

Agreement == StockTyped /\ InStep /\ LotsAccounted

BatchInv == Agreement /\ ControlTyped

LEMMA LineQuantity ==
  ASSUME ControlTyped, NEW i \in Sales
  PROVE  invoice[i].qty \in Nat
<1>1. invoice[i] \in Invoice
  BY DEF ControlTyped, InvoicesTyped
<1>2. invoice[i].qty \in Quantities \cup {0}
  BY <1>1 DEF Invoice
<1>3. Quantities \subseteq Nat
  BY BatchConstants
<1>4. Quantities \cup {0} \subseteq Nat
  BY <1>3
<1> QED BY <1>2, <1>4, Zenon

\* What the sales of a branch have on record as drawn from a lot.
Records(b, n) == [i \in Sales |-> IF Home[i] = b THEN consumed[i][n] ELSE 0]

----------------------------------------------------------------------------
(* Sums over lots and over records *)

\* The lots of a branch add up to an integer, before and after a step.
LEMMA LotSums ==
  ASSUME NEW lot \in [Lot -> Int]
  PROVE  Parked(lot, LastLot) \in Int
BY BatchConstants, ParkedType DEF Lot

\* Lots that are two others put together hold what these hold.
LEMMA LotsAdd ==
  ASSUME NEW f \in [Lot -> Int], NEW g \in [Lot -> Int], NEW h \in [Lot -> Int],
         \A n \in Lot : h[n] = f[n] + g[n]
  PROVE  Parked(h, LastLot) = Parked(f, LastLot) + Parked(g, LastLot)
<1>1. \A n \in 1..LastLot : f[n] \in Int /\ g[n] \in Int /\ h[n] = f[n] + g[n]
  BY DEF Lot
<1> QED BY <1>1, BatchConstants, ParkedOfSums

\* What is drawn from a branch and what stays are what was there, no lot gives more than it
\* has, and the earlier lots are empty before a later one is touched.
LEMMA Withdrawn ==
  ASSUME StockTyped, NEW b \in Branches, NEW qty \in Nat
  PROVE  LET rest == Drawn(b, qty)
             drawn == [n \in Lot |-> batch[b][n] - rest[n]]
         IN  /\ rest \in [Lot -> Nat] /\ drawn \in [Lot -> Nat]
             /\ Parked(rest, LastLot) + Parked(drawn, LastLot) = Total(b)
             /\ \A n \in Lot : rest[n] < batch[b][n] => \A m \in 1..(n - 1) : rest[m] = 0
<1> DEFINE rest == Drawn(b, qty)
           drawn == [n \in Lot |-> batch[b][n] - rest[n]]
<1>1. batch[b] \in [Lot -> Nat] /\ LastLot \in Nat
  BY BatchConstants DEF StockTyped
<1>2. \A n \in 1..LastLot : batch[b][n] \in Nat
  BY <1>1 DEF Lot
<1>3. /\ rest \in [1..LastLot -> Nat]
      /\ \A n \in 1..LastLot : rest[n] <= batch[b][n]
      /\ \A n \in 1..LastLot : rest[n] < batch[b][n] => \A m \in 1..(n - 1) : rest[m] = 0
  BY <1>1, <1>2, LeftBounds DEF Drawn
<1> HIDE DEF rest
<1>4. drawn \in [Lot -> Nat]
  BY <1>1, <1>3 DEF Lot
<1>5. \A n \in Lot : batch[b][n] = rest[n] + drawn[n]
  BY <1>1, <1>3 DEF Lot
<1>6. /\ rest \in [Lot -> Int] /\ drawn \in [Lot -> Int] /\ batch[b] \in [Lot -> Int]
      /\ rest \in [Lot -> Nat]
  BY <1>1, <1>3, <1>4 DEF Lot
<1> HIDE DEF drawn
<1>7. Parked(batch[b], LastLot) = Parked(rest, LastLot) + Parked(drawn, LastLot)
  BY <1>5, <1>6, LotsAdd
<1>8. \A n \in Lot : rest[n] < batch[b][n] => \A m \in 1..(n - 1) : rest[m] = 0
  BY <1>3 DEF Lot
<1> QED BY <1>4, <1>6, <1>7, <1>8, Zenon DEF Total, rest, drawn

LEMMA RecordsType ==
  ASSUME StockTyped
  PROVE  \A b \in Branches, n \in Lot : SumFunction(Records(b, n)) \in Nat
<1> SUFFICES ASSUME NEW b \in Branches, NEW n \in Lot PROVE SumFunction(Records(b, n)) \in Nat
  OBVIOUS
<1>1. Records(b, n) \in [Sales -> Nat]
  BY DEF Records, StockTyped
<1> QED BY <1>1, BatchConstants, SumOfNats

\* The records of one sale change: so does the sum of its branch, and no other.
LEMMA RecordsChange ==
  ASSUME StockTyped, NEW i \in Sales, NEW new \in [Lot -> Nat],
         consumed' = [consumed EXCEPT ![i] = new]
  PROVE  \A b \in Branches, n \in Lot :
           SumFunction(Records(b, n))' = SumFunction(Records(b, n))
             + (IF Home[i] = b THEN new[n] - consumed[i][n] ELSE 0)
<1> SUFFICES ASSUME NEW b \in Branches, NEW n \in Lot
             PROVE  SumFunction(Records(b, n))' = SumFunction(Records(b, n))
                      + (IF Home[i] = b THEN new[n] - consumed[i][n] ELSE 0)
  OBVIOUS
<1>1. consumed \in [Sales -> [Lot -> Nat]] /\ consumed' \in [Sales -> [Lot -> Nat]]
      /\ consumed'[i] = new /\ \A j \in Sales \ {i} : consumed'[j] = consumed[j]
  BY DEF StockTyped
<1>2. PICK F \in [Sales -> Int], G \in [Sales -> Int] : F = Records(b, n) /\ G = Records(b, n)'
  <2>1. Records(b, n) \in [Sales -> Int]
    BY <1>1 DEF Records
  <2>2. Records(b, n)' \in [Sales -> Int]
    BY <1>1 DEF Records
  <2> QED BY <2>1, <2>2
<1>3. \A j \in Sales \ {i} : G[j] = F[j]
  BY <1>1, <1>2 DEF Records
<1>4. SumFunction(G) = SumFunction(F) - F[i] + G[i] /\ SumFunction(F) \in Int
  <2>1. IsFiniteSet(Sales)
    BY BatchConstants
  <2>2. SumFunction(G) = SumFunction(F) - F[i] + G[i]
    BY <1>3, <2>1, SumChanged
  <2> QED BY <2>1, <2>2, SumType
<1>5. G[i] - F[i] = (IF Home[i] = b THEN new[n] - consumed[i][n] ELSE 0)
  BY <1>1, <1>2 DEF Records
<1> QED BY <1>2, <1>4, <1>5

\* The accounts of the lots, with the records named.
LEMMA Accounts ==
  /\ LotsAccounted <=> \A b \in Branches, n \in Lot :
                         batch[b][n] + SumFunction(Records(b, n)) = lots[b][n]
  /\ LotsAccounted' <=> \A b \in Branches, n \in Lot :
                          batch'[b][n] + SumFunction(Records(b, n))' = lots'[b][n]
BY Zenon DEF LotsAccounted, Records

----------------------------------------------------------------------------
(* The steps that move stock *)

\* Goods that enter the total and a lot alike keep the two in step.
LEMMA EnterAgrees ==
  ASSUME Agreement, NEW b \in Branches, NEW n \in Lot, NEW qty \in Nat, tracked \in BOOLEAN,
         Enter(b, n, qty), UNCHANGED <<consumed, uncovered, out>>
  PROVE  Agreement'
<1>1. StockTyped /\ InStep /\ LotsAccounted
  BY DEF Agreement
<1>2. CASE ~tracked
  <2>1. /\ level' = [level EXCEPT ![b] = @ + qty]
        /\ UNCHANGED <<batch, lots>> /\ strayed' = strayed \cup {b}
    BY <1>2 DEF Enter
  <2>2. StockTyped'
    BY <1>1, <2>1 DEF StockTyped
  <2>3. InStep'
    BY <1>1, <2>1 DEF InStep, Total, StockTyped
  <2>4. LotsAccounted'
    BY <1>1, <2>1 DEF LotsAccounted
  <2> QED BY <2>2, <2>3, <2>4 DEF Agreement
<1>3. CASE tracked
  <2>1. /\ level' = [level EXCEPT ![b] = @ + qty]
        /\ batch' = [batch EXCEPT ![b][n] = @ + qty]
        /\ lots' = [lots EXCEPT ![b][n] = @ + qty]
        /\ strayed' = strayed
    BY <1>3 DEF Enter
  <2>2. StockTyped'
    BY <1>1, <2>1 DEF StockTyped
  <2>3. Total(b)' = Total(b) + qty
    <3>1. PICK f \in [Lot -> Nat], g \in [Lot -> Nat] : f = batch[b] /\ g = batch'[b]
      BY <1>1, <2>2 DEF StockTyped
    <3>2. /\ \A m \in 1..LastLot : f[m] \in Int
          /\ \A m \in (1..LastLot) \ {n} : g[m] = f[m]
          /\ g[n] = f[n] + qty
      BY <1>1, <2>1, <3>1 DEF StockTyped, Lot
    <3>3. LastLot \in Nat /\ n \in 1..LastLot /\ qty \in Int
      BY BatchConstants DEF Lot
    <3>4. Parked(g, LastLot) = Parked(f, LastLot) + qty
      BY <3>2, <3>3, ParkedChanged
    <3> QED BY <3>1, <3>4 DEF Total
  <2>4. InStep'
    <3>1. SUFFICES ASSUME NEW c \in Branches, c \notin strayed
                   PROVE  level'[c] + uncovered'[c] = Total(c)'
      BY <2>1 DEF InStep
    <3>2. level[c] + uncovered[c] = Total(c) /\ level[c] \in Int /\ uncovered[c] \in Int
      BY <1>1, <3>1 DEF InStep, StockTyped
    <3>3. CASE c = b
      <4>1. level'[b] = level[b] + qty /\ uncovered'[b] = uncovered[b]
        BY <1>1, <2>1 DEF StockTyped
      <4> QED BY <2>3, <3>2, <3>3, <4>1
    <3>4. CASE c # b
      BY <1>1, <2>1, <3>2, <3>4 DEF Total, StockTyped
    <3> QED BY <3>3, <3>4
  <2>5. LotsAccounted'
    <3>1. SUFFICES ASSUME NEW c \in Branches, NEW m \in Lot
                   PROVE  batch'[c][m] + SumFunction(Records(c, m))' = lots'[c][m]
      BY Accounts
    <3>2. SumFunction(Records(c, m))' = SumFunction(Records(c, m))
      BY DEF Records
    <3>3. /\ batch[c][m] + SumFunction(Records(c, m)) = lots[c][m]
          /\ SumFunction(Records(c, m)) \in Nat
      BY <1>1, Accounts, RecordsType
    <3>4. /\ batch'[c][m] = batch[c][m] + (IF c = b /\ m = n THEN qty ELSE 0)
          /\ lots'[c][m] = lots[c][m] + (IF c = b /\ m = n THEN qty ELSE 0)
          /\ batch[c][m] \in Nat /\ lots[c][m] \in Int
      BY <1>1, <2>1 DEF StockTyped
    <3> QED BY <3>2, <3>3, <3>4
  <2> QED BY <2>2, <2>4, <2>5 DEF Agreement
<1> QED BY <1>2, <1>3

\* The goods of a draw: the lots that stay and the drawn ones, with what no lot covers.
LEMMA DrawAgrees ==
  ASSUME Agreement, NEW b \in Branches, NEW qty \in Nat,
         batch' = [batch EXCEPT ![b] = Drawn(b, qty)],
         level' = [level EXCEPT ![b] = @ - qty],
         uncovered' = [uncovered EXCEPT ![b] =
           @ + qty - Parked([n \in Lot |-> batch[b][n] - Drawn(b, qty)[n]], LastLot)],
         strayed' = strayed
  PROVE  /\ batch' \in [Branches -> [Lot -> Nat]]
         /\ level' \in [Branches -> Int] /\ uncovered' \in [Branches -> Int]
         /\ InStep'
<1>1. StockTyped /\ InStep
  BY DEF Agreement
<1>2. PICK rest \in [Lot -> Nat], drawn \in [Lot -> Nat] :
        /\ rest = Drawn(b, qty) /\ drawn = [n \in Lot |-> batch[b][n] - Drawn(b, qty)[n]]
        /\ Parked(rest, LastLot) + Parked(drawn, LastLot) = Total(b)
  BY <1>1, Withdrawn
<1>3. Parked(rest, LastLot) \in Int /\ Parked(drawn, LastLot) \in Int
  <2>1. rest \in [Lot -> Int] /\ drawn \in [Lot -> Int]
    OBVIOUS
  <2> QED BY <2>1, LotSums
<1>4. /\ batch' = [batch EXCEPT ![b] = rest]
      /\ uncovered' = [uncovered EXCEPT ![b] = @ + qty - Parked(drawn, LastLot)]
  BY <1>2
<1>5. /\ batch' \in [Branches -> [Lot -> Nat]]
      /\ level' \in [Branches -> Int] /\ uncovered' \in [Branches -> Int]
  BY <1>1, <1>3, <1>4 DEF StockTyped
<1>6. InStep'
  <2>1. SUFFICES ASSUME NEW c \in Branches, c \notin strayed
                 PROVE  level'[c] + uncovered'[c] = Total(c)'
    BY DEF InStep
  <2>2. level[c] + uncovered[c] = Total(c) /\ level[c] \in Int /\ uncovered[c] \in Int
    BY <1>1, <2>1 DEF InStep, StockTyped
  <2>3. CASE c = b
    <3>1. /\ level'[b] = level[b] - qty
          /\ uncovered'[b] = uncovered[b] + qty - Parked(drawn, LastLot)
          /\ batch'[b] = rest
      BY <1>1, <1>4 DEF StockTyped
    <3>2. Total(b)' = Parked(rest, LastLot)
      BY <3>1 DEF Total
    <3> QED BY <1>2, <1>3, <2>2, <2>3, <3>1, <3>2
  <2>4. CASE c # b
    <3>1. level'[c] = level[c] /\ uncovered'[c] = uncovered[c] /\ batch'[c] = batch[c]
      BY <1>1, <1>4, <2>4 DEF StockTyped
    <3> QED BY <2>2, <3>1 DEF Total
  <2> QED BY <2>3, <2>4
<1> QED BY <1>5, <1>6

\* A sale draws, and its records say from which lots.
LEMMA TakeOutAgrees ==
  ASSUME BatchInv, NEW i \in Sales, invoice[i].qty \in Nat, TakeOut(i)
  PROVE  Agreement'
<1> DEFINE b == Home[i]
           qty == invoice[i].qty
<1>1. Agreement /\ StockTyped /\ InStep /\ LotsAccounted /\ b \in Branches
  BY BatchConstants DEF BatchInv, Agreement
<1>2. /\ level' = [level EXCEPT ![b] = @ - qty] /\ level' \in [Branches -> Int]
      /\ out' \in [Sales -> Nat] /\ lots' = lots
  BY <1>1 DEF TakeOut, StockTyped
<1>3. CASE ~tracked
  <2>1. strayed' = strayed \cup {b} /\ UNCHANGED <<batch, consumed, uncovered>>
    BY <1>3 DEF TakeOut
  <2>2. StockTyped'
    BY <1>1, <1>2, <2>1 DEF StockTyped
  <2>3. InStep'
    BY <1>1, <1>2, <2>1 DEF InStep, Total, StockTyped
  <2>4. LotsAccounted'
    BY <1>1, <1>2, <2>1 DEF LotsAccounted
  <2> QED BY <2>2, <2>3, <2>4 DEF Agreement
<1>4. CASE tracked
  <2>1. PICK rest \in [Lot -> Nat], drawn \in [Lot -> Nat] :
          /\ rest = Drawn(b, qty) /\ drawn = [n \in Lot |-> batch[b][n] - Drawn(b, qty)[n]]
    BY <1>1, Withdrawn
  <2>2. /\ batch' = [batch EXCEPT ![b] = Drawn(b, qty)]
        /\ uncovered' = [uncovered EXCEPT ![b] =
             @ + qty - Parked([n \in Lot |-> batch[b][n] - Drawn(b, qty)[n]], LastLot)]
        /\ consumed' = [consumed EXCEPT ![i] = [n \in Lot |-> @[n] + drawn[n]]]
        /\ strayed' = strayed
    BY <1>4, <2>1 DEF TakeOut
  <2> HIDE DEF b, qty
  <2>3. /\ batch' \in [Branches -> [Lot -> Nat]]
        /\ level' \in [Branches -> Int] /\ uncovered' \in [Branches -> Int]
        /\ InStep'
    <3>1. qty \in Nat
      BY DEF qty
    <3> QED BY <1>1, <1>2, <2>2, <3>1, DrawAgrees
  <2>4. PICK new \in [Lot -> Nat] : new = [n \in Lot |-> consumed[i][n] + drawn[n]]
    <3>1. \A n \in Lot : consumed[i][n] + drawn[n] \in Nat
      BY <1>1 DEF StockTyped
    <3>2. [n \in Lot |-> consumed[i][n] + drawn[n]] \in [Lot -> Nat]
      BY <3>1
    <3> QED BY <3>2, Zenon
  <2>5. consumed' = [consumed EXCEPT ![i] = new]
    BY <2>2, <2>4
  <2>6. StockTyped'
    BY <1>1, <1>2, <2>2, <2>3, <2>5 DEF StockTyped
  <2>7. LotsAccounted'
    <3>1. SUFFICES ASSUME NEW c \in Branches, NEW n \in Lot
                   PROVE  batch'[c][n] + SumFunction(Records(c, n))' = lots'[c][n]
      BY Accounts
    <3>2. SumFunction(Records(c, n))' = SumFunction(Records(c, n))
            + (IF b = c THEN new[n] - consumed[i][n] ELSE 0)
      BY <1>1, <2>5, RecordsChange DEF b
    <3>3. /\ batch[c][n] + SumFunction(Records(c, n)) = lots[c][n]
          /\ SumFunction(Records(c, n)) \in Nat /\ batch[c][n] \in Nat
      BY <1>1, Accounts, RecordsType DEF StockTyped
    <3>4. new[n] - consumed[i][n] = drawn[n] /\ drawn[n] \in Nat
      BY <1>1, <2>4 DEF StockTyped
    <3>5. batch'[c][n] = batch[c][n] - (IF b = c THEN drawn[n] ELSE 0)
      <4>1. CASE b = c
        <5>1. batch'[c] = rest /\ drawn[n] = batch[c][n] - rest[n] /\ rest[n] \in Nat
          BY <1>1, <2>1, <2>2, <4>1 DEF StockTyped
        <5> QED BY <3>3, <4>1, <5>1
      <4>2. CASE b # c
        BY <1>1, <2>2, <3>3, <4>2 DEF StockTyped
      <4> QED BY <4>1, <4>2
    <3> QED BY <1>2, <3>2, <3>3, <3>4, <3>5
  <2> QED BY <2>3, <2>6, <2>7 DEF Agreement
<1> QED BY <1>3, <1>4 DEF BatchInv, ControlTyped

\* A void puts back what the records say, and takes the records away.
LEMMA PutBackAgrees ==
  ASSUME BatchInv, NEW i \in Sales, NEW qty \in Nat, NEW edition, PutBack(i, qty, edition)
  PROVE  Agreement'
<1> DEFINE b == Home[i]
<1>1. Agreement /\ StockTyped /\ InStep /\ LotsAccounted /\ b \in Branches
  BY BatchConstants DEF BatchInv, Agreement
<1>2. PICK back \in [Lot -> Nat] :
        back = IF tracked /\ edition = invoice[i].edition THEN consumed[i] ELSE Empty
  BY <1>1 DEF StockTyped, Empty
<1>3. PICK new \in [Lot -> Nat] : new = [n \in Lot |-> consumed[i][n] - back[n]]
  <2>1. \A n \in Lot : consumed[i][n] - back[n] \in Nat
    BY <1>1, <1>2 DEF StockTyped, Empty
  <2>2. [n \in Lot |-> consumed[i][n] - back[n]] \in [Lot -> Nat]
    BY <2>1
  <2> QED BY <2>2, Zenon
<1>4. /\ level' = [level EXCEPT ![b] = @ + qty]
      /\ out' = [out EXCEPT ![i] = 0] /\ lots' = lots
      /\ batch' = [batch EXCEPT ![b] = [n \in Lot |-> @[n] + back[n]]]
      /\ consumed' = [consumed EXCEPT ![i] = new]
      /\ uncovered' = [uncovered EXCEPT ![b] = @ - (qty - Parked(back, LastLot))]
      /\ strayed \subseteq strayed' /\ strayed' \subseteq strayed \cup {b}
  BY <1>2, <1>3 DEF PutBack
<1>5. PICK full \in [Lot -> Nat] : full = [n \in Lot |-> batch[b][n] + back[n]]
  <2>1. \A n \in Lot : batch[b][n] + back[n] \in Nat
    BY <1>1 DEF StockTyped
  <2>2. [n \in Lot |-> batch[b][n] + back[n]] \in [Lot -> Nat]
    BY <2>1
  <2> QED BY <2>2, Zenon
<1>6. batch' = [batch EXCEPT ![b] = full]
  BY <1>4, <1>5
<1> HIDE DEF b
<1>7. Parked(full, LastLot) = Total(b) + Parked(back, LastLot) /\ Parked(back, LastLot) \in Int
  <2>1. /\ batch[b] \in [Lot -> Int] /\ back \in [Lot -> Int] /\ full \in [Lot -> Int]
        /\ \A n \in Lot : full[n] = batch[b][n] + back[n]
    BY <1>1, <1>5 DEF StockTyped
  <2> QED BY <2>1, LotsAdd, LotSums DEF Total
<1>8. StockTyped'
  BY <1>1, <1>4, <1>6, <1>7 DEF StockTyped
<1>9. InStep'
  <2>1. SUFFICES ASSUME NEW c \in Branches, c \notin strayed
                 PROVE  level'[c] + uncovered'[c] = Total(c)'
    BY <1>4 DEF InStep
  <2>2. level[c] + uncovered[c] = Total(c) /\ level[c] \in Int /\ uncovered[c] \in Int
    BY <1>1, <2>1 DEF InStep, StockTyped
  <2>3. CASE c = b
    <3>1. /\ level'[b] = level[b] + qty
          /\ uncovered'[b] = uncovered[b] - (qty - Parked(back, LastLot))
          /\ batch'[b] = full
      BY <1>1, <1>4, <1>6 DEF StockTyped
    <3>2. Total(b)' = Parked(full, LastLot)
      BY <3>1 DEF Total
    <3> QED BY <1>7, <2>2, <2>3, <3>1, <3>2
  <2>4. CASE c # b
    <3>1. level'[c] = level[c] /\ uncovered'[c] = uncovered[c] /\ batch'[c] = batch[c]
      BY <1>1, <1>4, <2>4 DEF StockTyped
    <3> QED BY <2>2, <3>1 DEF Total
  <2> QED BY <2>3, <2>4
<1>10. LotsAccounted'
  <2>1. SUFFICES ASSUME NEW c \in Branches, NEW n \in Lot
                 PROVE  batch'[c][n] + SumFunction(Records(c, n))' = lots'[c][n]
    BY Accounts
  <2>2. SumFunction(Records(c, n))' = SumFunction(Records(c, n))
          + (IF b = c THEN new[n] - consumed[i][n] ELSE 0)
    BY <1>1, <1>4, RecordsChange DEF b
  <2>3. /\ batch[c][n] + SumFunction(Records(c, n)) = lots[c][n]
        /\ SumFunction(Records(c, n)) \in Nat /\ batch[c][n] \in Nat
    BY <1>1, Accounts, RecordsType DEF StockTyped
  <2>4. new[n] - consumed[i][n] = -back[n] /\ back[n] \in Nat
    BY <1>1, <1>3 DEF StockTyped
  <2>5. batch'[c][n] = batch[c][n] + (IF b = c THEN back[n] ELSE 0)
    <3>1. CASE b = c
      BY <1>1, <1>5, <1>6, <3>1 DEF StockTyped
    <3>2. CASE b # c
      BY <1>1, <1>6, <2>3, <3>2 DEF StockTyped
    <3> QED BY <3>1, <3>2
  <2> QED BY <1>4, <2>2, <2>3, <2>4, <2>5
<1> QED BY <1>8, <1>9, <1>10 DEF Agreement

\* What is counted away leaves the lots it was drawn from, and their accounts.
LEMMA CountDownAgrees ==
  ASSUME BatchInv, NEW b \in Branches, NEW qty \in Nat, CountDown(b, qty)
  PROVE  Agreement'
<1>1. Agreement /\ StockTyped /\ InStep /\ LotsAccounted
  BY DEF BatchInv, Agreement
<1>2. /\ level' = [level EXCEPT ![b] = @ - qty] /\ level' \in [Branches -> Int]
      /\ UNCHANGED <<consumed, out>>
  BY <1>1 DEF CountDown, saleVars, StockTyped
<1>3. CASE ~tracked
  <2>1. strayed' = strayed \cup {b} /\ UNCHANGED <<batch, lots, uncovered>>
    BY <1>3 DEF CountDown
  <2>2. StockTyped'
    BY <1>1, <1>2, <2>1 DEF StockTyped
  <2>3. InStep'
    BY <1>1, <1>2, <2>1 DEF InStep, Total, StockTyped
  <2>4. LotsAccounted'
    BY <1>1, <1>2, <2>1 DEF LotsAccounted
  <2> QED BY <2>2, <2>3, <2>4 DEF Agreement
<1>4. CASE tracked
  <2>1. PICK rest \in [Lot -> Nat], drawn \in [Lot -> Nat] :
          /\ rest = Drawn(b, qty) /\ drawn = [n \in Lot |-> batch[b][n] - Drawn(b, qty)[n]]
    BY <1>1, Withdrawn
  <2>2. /\ batch' = [batch EXCEPT ![b] = Drawn(b, qty)]
        /\ uncovered' = [uncovered EXCEPT ![b] =
             @ + qty - Parked([n \in Lot |-> batch[b][n] - Drawn(b, qty)[n]], LastLot)]
        /\ lots' = [lots EXCEPT ![b] = [n \in Lot |-> @[n] - drawn[n]]]
        /\ strayed' = strayed
    BY <1>4, <2>1 DEF CountDown
  <2>3. /\ batch' \in [Branches -> [Lot -> Nat]]
        /\ level' \in [Branches -> Int] /\ uncovered' \in [Branches -> Int]
        /\ InStep'
    BY <1>1, <1>2, <2>2, DrawAgrees
  <2>4. lots' \in [Branches -> [Lot -> Int]]
    BY <1>1, <2>2 DEF StockTyped
  <2>5. StockTyped'
    BY <1>1, <1>2, <2>2, <2>3, <2>4 DEF StockTyped
  <2>6. LotsAccounted'
    <3>1. SUFFICES ASSUME NEW c \in Branches, NEW n \in Lot
                   PROVE  batch'[c][n] + SumFunction(Records(c, n))' = lots'[c][n]
      BY Accounts
    <3>2. SumFunction(Records(c, n))' = SumFunction(Records(c, n))
      BY <1>2 DEF Records
    <3>3. /\ batch[c][n] + SumFunction(Records(c, n)) = lots[c][n]
          /\ SumFunction(Records(c, n)) \in Nat /\ batch[c][n] \in Nat
      BY <1>1, Accounts, RecordsType DEF StockTyped
    <3>4. CASE b = c
      <4>1. batch'[c] = rest /\ drawn[n] = batch[c][n] - rest[n] /\ rest[n] \in Nat
        BY <1>1, <2>1, <2>2, <3>4 DEF StockTyped
      <4>2. lots'[c][n] = lots[c][n] - drawn[n]
        BY <1>1, <2>2, <3>4 DEF StockTyped
      <4> QED BY <3>2, <3>3, <4>1, <4>2
    <3>5. CASE b # c
      <4>1. batch'[c] = batch[c] /\ lots'[c] = lots[c]
        BY <1>1, <2>2, <3>5 DEF StockTyped
      <4> QED BY <3>2, <3>3, <4>1
    <3> QED BY <3>4, <3>5
  <2> QED BY <2>3, <2>5, <2>6 DEF Agreement
<1> QED BY <1>3, <1>4 DEF BatchInv, ControlTyped

\* A line that is replaced takes the records of its draws with it: the goods have left.
LEMMA EditAgrees ==
  ASSUME BatchInv, NEW i \in Sales, NEW qty, Edit(i, qty)
  PROVE  Agreement'
<1> DEFINE b == Home[i]
<1>1. StockTyped /\ InStep /\ LotsAccounted /\ b \in Branches /\ Empty \in [Lot -> Nat]
      /\ \A n \in Lot : Empty[n] = 0
  BY BatchConstants DEF BatchInv, Agreement, Empty
<1>2. /\ UNCHANGED <<level, batch, uncovered, out>>
      /\ lots' = [lots EXCEPT ![b] = [n \in Lot |-> @[n] - consumed[i][n]]]
      /\ consumed' = [consumed EXCEPT ![i] = Empty]
      /\ strayed \subseteq strayed' /\ strayed' \subseteq strayed \cup {b}
  BY DEF Edit, stockVars
<1> HIDE DEF b
<1>3. StockTyped'
  BY <1>1, <1>2 DEF StockTyped
<1>4. InStep'
  BY <1>1, <1>2 DEF InStep, Total
<1>5. LotsAccounted'
  <2>1. SUFFICES ASSUME NEW c \in Branches, NEW n \in Lot
                 PROVE  batch'[c][n] + SumFunction(Records(c, n))' = lots'[c][n]
    BY Accounts
  <2>2. SumFunction(Records(c, n))' = SumFunction(Records(c, n))
          + (IF b = c THEN Empty[n] - consumed[i][n] ELSE 0)
    BY <1>1, <1>2, RecordsChange DEF b
  <2>3. /\ batch[c][n] + SumFunction(Records(c, n)) = lots[c][n]
        /\ SumFunction(Records(c, n)) \in Nat /\ batch[c][n] \in Nat /\ consumed[i][n] \in Nat
    BY <1>1, Accounts, RecordsType DEF StockTyped
  <2>4. lots'[c][n] = lots[c][n] - (IF b = c THEN consumed[i][n] ELSE 0)
    <3>1. CASE b = c
      BY <1>1, <1>2, <3>1 DEF StockTyped
    <3>2. CASE b # c
      <4>1. lots[c][n] \in Int /\ lots'[c] = lots[c]
        BY <1>1, <1>2, <3>2 DEF StockTyped
      <4> QED BY <3>2, <4>1
    <3> QED BY <3>1, <3>2
  <2> QED BY <1>1, <1>2, <2>2, <2>3, <2>4
<1> QED BY <1>3, <1>4, <1>5 DEF Agreement

\* A transfer leaves the lots alone: its branches are no longer in step.
LEMMA TransferAgrees ==
  ASSUME BatchInv, NEW r \in Requests, TransferIn(r)
  PROVE  Agreement'
<1>1. StockTyped /\ InStep /\ LotsAccounted /\ ControlTyped
  BY DEF BatchInv, Agreement
<1>2. PICK from \in Branches, to \in Branches, qty \in Nat, seen \in Int :
        /\ level' = [level EXCEPT ![from] = @ - qty, ![to] = seen + qty]
        /\ strayed' = strayed \cup {from, to}
  <2>1. job[r] \in Moving
    BY <1>1 DEF TransferIn, ControlTyped, JobsTyped, Void, Idle
  <2>2. /\ job[r].from \in Branches /\ job[r].to \in Branches /\ job[r].qty \in Nat
        /\ job[r].seen \in Int
    BY <2>1, BatchConstants DEF Moving
  <2> QED BY <2>2 DEF TransferIn
<1>3. UNCHANGED <<batch, consumed, uncovered, out, lots>>
  BY DEF TransferIn, saleVars
<1>4. /\ level' \in [Branches -> Int]
      /\ \A c \in Branches \ {from, to} : level'[c] = level[c]
  BY <1>1, <1>2 DEF StockTyped
<1>5. StockTyped'
  BY <1>1, <1>2, <1>3, <1>4 DEF StockTyped
<1>6. InStep'
  BY <1>1, <1>2, <1>3, <1>4 DEF InStep, Total
<1>7. LotsAccounted'
  BY <1>1, <1>3 DEF LotsAccounted
<1> QED BY <1>5, <1>6, <1>7 DEF Agreement

----------------------------------------------------------------------------
(* Every step *)

LEMMA AgreementStep == BatchInv /\ [Next]_vars => Agreement'
<1> SUFFICES ASSUME BatchInv, [Next]_vars PROVE Agreement'
  OBVIOUS
<1>0. Agreement /\ StockTyped /\ InStep /\ LotsAccounted /\ ControlTyped /\ Quantities \subseteq Nat
  BY BatchConstants DEF BatchInv, Agreement
<1>1. ASSUME UNCHANGED <<stockVars, consumed, history>> PROVE Agreement'
  BY <1>0, <1>1 DEF stockVars, history, Agreement, StockTyped, InStep, Total, LotsAccounted
<1>2. CASE UNCHANGED vars
  BY <1>1, <1>2 DEF vars, saleVars
<1>3. ASSUME NEW i \in Sales, NEW st \in {"DRAFT", "POSTED", "VOID"}, Save(i, st)
      PROVE  Agreement'
  <2>1. invoice[i].qty \in Nat
    BY <1>0, LineQuantity
  <2>2. \/ TakeOut(i) \/ PutBack(i, invoice[i].qty, invoice[i].edition)
        \/ UNCHANGED <<stockVars, consumed, history>>
    BY <1>3 DEF Save
  <2> QED BY <1>1, <2>1, <2>2, TakeOutAgrees, PutBackAgrees
<1>4. ASSUME NEW b \in Branches, NEW n \in Lot, NEW qty \in Quantities,
             Receive(b, n, qty) \/ Refund(b, qty)
      PROVE  Agreement'
  <2>1. Undated \in Lot /\ qty \in Nat /\ tracked \in BOOLEAN
    BY <1>0, BatchConstants DEF Undated, Lot, ControlTyped
  <2> QED BY <1>0, <1>4, <2>1, EnterAgrees DEF Receive, Refund, saleVars
<1>5. CASE AtOnce
  <2>1. CASE Switch \/ \E i \in Sales, st \in {"DRAFT", "POSTED"}, qty \in Quantities : Create(i, st, qty)
    BY <1>1, <2>1 DEF Switch, Create, saleVars
  <2>2. CASE \E i \in Sales, qty \in Quantities : Edit(i, qty)
    BY <2>2, EditAgrees
  <2>3. CASE \E b \in Branches, qty \in Quantities : CountDown(b, qty)
    BY <1>0, <2>3, CountDownAgrees
  <2>4. CASE \E b \in Branches, qty \in Quantities : Refund(b, qty)
    BY <1>4, <2>4, BatchConstants DEF Lot
  <2> QED BY <1>3, <1>4, <1>5, <2>1, <2>2, <2>3, <2>4, Zenon DEF AtOnce
<1>6. ASSUME NEW r \in Requests, Begins(r) \/ Step(r) \/ Fail(r) PROVE Agreement'
  <2>1. CASE Move(r)
    <3>1. job[r].sale \in Sales /\ job[r].qty \in Nat
      BY <1>0, <2>1 DEF Move, At, ControlTyped, JobsTyped, Void, Moving, Idle
    <3> QED BY <2>1, <3>1, PutBackAgrees DEF Move
  <2>2. CASE TransferIn(r)
    BY <2>2, TransferAgrees
  <2>3. CASE ~Move(r) /\ ~TransferIn(r)
    BY <1>1, <1>6, <2>3 DEF Begins, Step, BeginVoid, TransferOut, ReadOld, WriteVoid,
       BreakDeadlock, Fail, Cancelled, saleVars
  <2> QED BY <2>1, <2>2, <2>3
<1> QED BY <1>2, <1>5, <1>6 DEF Next

LEMMA InvoicesStep ==
  ASSUME ControlTyped, [Next]_vars
  PROVE  /\ InvoicesTyped'
         /\ \A i \in Sales : invoice[i].status # "ABSENT" => invoice'[i].status # "ABSENT"
<1>0. InvoicesTyped /\ JobsTyped
  BY DEF ControlTyped
<1>1. ASSUME NEW i \in Sales, NEW row \in Invoice, row.status # "ABSENT", row.qty \in Quantities,
             invoice' = [invoice EXCEPT ![i] = row]
      PROVE  /\ InvoicesTyped'
             /\ \A k \in Sales : invoice[k].status # "ABSENT" => invoice'[k].status # "ABSENT"
  BY <1>0, <1>1 DEF InvoicesTyped
<1>2. CASE UNCHANGED invoice
  BY <1>0, <1>2 DEF InvoicesTyped
<1>3. ASSUME NEW i \in Sales, NEW st \in {"DRAFT", "POSTED"}, NEW qty \in Quantities,
             Create(i, st, qty)
      PROVE  \E row \in Invoice : /\ row.status # "ABSENT" /\ row.qty \in Quantities
                                  /\ invoice' = [invoice EXCEPT ![i] = row]
  <2>1. [status |-> st, qty |-> qty, edition |-> 0] \in Invoice
    BY DEF Invoice, Status
  <2>2. invoice' = [invoice EXCEPT ![i] = [status |-> st, qty |-> qty, edition |-> 0]]
    BY <1>3 DEF Create
  <2> QED BY <2>1, <2>2
<1>4. ASSUME NEW i \in Sales, NEW st \in Status \ {"ABSENT"}, invoice[i].status # "ABSENT",
             invoice' = [invoice EXCEPT ![i].status = st]
      PROVE  \E row \in Invoice : /\ row.status # "ABSENT" /\ row.qty \in Quantities
                                  /\ invoice' = [invoice EXCEPT ![i] = row]
  <2> DEFINE row == [invoice[i] EXCEPT !.status = st]
  <2>1. row \in Invoice /\ row.status # "ABSENT" /\ row.qty \in Quantities
    BY <1>0, <1>4 DEF InvoicesTyped, Invoice
  <2>2. invoice' = [invoice EXCEPT ![i] = row]
    BY <1>0, <1>4 DEF InvoicesTyped
  <2> QED BY <2>1, <2>2
<1>5. ASSUME NEW i \in Sales, NEW qty \in Quantities, Edit(i, qty)
      PROVE  \E row \in Invoice : /\ row.status # "ABSENT" /\ row.qty \in Quantities
                                  /\ invoice' = [invoice EXCEPT ![i] = row]
  <2> DEFINE row == [invoice[i] EXCEPT !.qty = qty, !.edition = @ + 1]
  <2>1. row \in Invoice /\ row.status # "ABSENT" /\ row.qty \in Quantities
    BY <1>0, <1>5 DEF InvoicesTyped, Invoice, Edit
  <2>2. invoice' = [invoice EXCEPT ![i] = row]
    BY <1>0, <1>5 DEF InvoicesTyped, Edit
  <2> QED BY <2>1, <2>2
<1>6. ASSUME NEW i \in Sales, NEW st \in {"DRAFT", "POSTED", "VOID"}, Save(i, st)
      PROVE  \E row \in Invoice : /\ row.status # "ABSENT" /\ row.qty \in Quantities
                                  /\ invoice' = [invoice EXCEPT ![i] = row]
  BY <1>4, <1>6 DEF Save, Status
<1>7. ASSUME NEW r \in Requests, WriteVoid(r)
      PROVE  \E i \in Sales : \E row \in Invoice :
               /\ row.status # "ABSENT" /\ row.qty \in Quantities
               /\ invoice' = [invoice EXCEPT ![i] = row]
  <2>1. job[r] \in Void
    BY <1>0, <1>7 DEF WriteVoid, At, JobsTyped, Moving, Idle
  <2>2. PICK i \in Sales : i = job[r].sale /\ invoice[i].status # "ABSENT"
    BY <1>0, <2>1 DEF JobsTyped, Void
  <2>3. invoice' = [invoice EXCEPT ![i].status = "VOID"]
    BY <1>7, <2>2 DEF WriteVoid
  <2> QED BY <1>4, <2>2, <2>3 DEF Status
<1>8. UNCHANGED invoice \/ \E i \in Sales : \E row \in Invoice :
               /\ row.status # "ABSENT" /\ row.qty \in Quantities
               /\ invoice' = [invoice EXCEPT ![i] = row]
  <2>1. CASE UNCHANGED vars
    BY <2>1 DEF vars, saleVars
  <2>2. CASE AtOnce
    BY <1>3, <1>5, <1>6, <2>2 DEF AtOnce, Receive, CountDown, Refund, Switch, saleVars
  <2>3. ASSUME NEW r \in Requests, Begins(r) \/ Step(r) \/ Fail(r)
        PROVE  UNCHANGED invoice \/ WriteVoid(r)
    BY <2>3 DEF Begins, Step, BeginVoid, TransferOut, ReadOld, Move, TransferIn, BreakDeadlock,
       Fail, Cancelled, saleVars
  <2> QED BY <1>7, <2>1, <2>2, <2>3 DEF Next
<1> QED BY <1>1, <1>2, <1>8

LEMMA JobsStep ==
  ASSUME BatchInv, [Next]_vars
  PROVE  JobsTyped'
<1>0. InvoicesTyped /\ JobsTyped /\ level \in [Branches -> Int]
  BY DEF BatchInv, ControlTyped, Agreement, StockTyped
<1>1. \A i \in Sales : invoice[i].status # "ABSENT" => invoice'[i].status # "ABSENT"
  BY InvoicesStep DEF BatchInv
<1>2. CASE UNCHANGED job
  BY <1>0, <1>1, <1>2 DEF JobsTyped, Void
<1>3. ASSUME NEW r \in Requests, NEW new \in {Idle} \cup Void \cup Moving,
             new \in Void => invoice'[new.sale].status # "ABSENT",
             job' = [job EXCEPT ![r] = new]
      PROVE  JobsTyped'
  BY <1>0, <1>1, <1>3 DEF JobsTyped, Void
<1>4. ASSUME NEW r \in Requests, job' = [job EXCEPT ![r] = Idle] PROVE JobsTyped'
  BY <1>3, <1>4 DEF Idle, Void
<1>5. ASSUME NEW r \in Requests, Begins(r) \/ Step(r) \/ Fail(r) PROVE JobsTyped'
  <2>1. ASSUME NEW i \in Sales, BeginVoid(r, i) PROVE JobsTyped'
    <3> DEFINE new == [op |-> "void", at |-> "old", sale |-> i,
                       qty |-> invoice[i].qty, edition |-> invoice[i].edition]
    <3>1. new \in Void /\ invoice'[new.sale].status # "ABSENT"
      BY <1>0, <1>1, <2>1 DEF BeginVoid, Void, InvoicesTyped, Invoice
    <3>2. job' = [job EXCEPT ![r] = new]
      BY <2>1 DEF BeginVoid
    <3> HIDE DEF new
    <3> QED BY <1>3, <3>1, <3>2
  <2>2. ASSUME NEW from \in Branches, NEW to \in Branches, NEW qty \in Quantities,
               TransferOut(r, from, to, qty)
        PROVE  JobsTyped'
    <3> DEFINE new == [op |-> "transfer", from |-> from, to |-> to, qty |-> qty, seen |-> level[to]]
    <3>1. new \in Moving /\ new \notin Void
      BY <1>0 DEF Void, Moving
    <3>2. job' = [job EXCEPT ![r] = new]
      BY <2>2 DEF TransferOut
    <3> HIDE DEF new
    <3> QED BY <1>3, <3>1, <3>2
  <2>3. ASSUME NEW at \in {"old", "move", "write"}, job[r].op = "void",
               job' = [job EXCEPT ![r].at = at]
        PROVE  JobsTyped'
    <3> DEFINE new == [job[r] EXCEPT !.at = at]
    <3>1. job[r] \in Void
      BY <1>0, <2>3 DEF JobsTyped, Moving, Idle
    <3>2. new \in Void /\ invoice'[new.sale].status # "ABSENT"
      BY <1>0, <1>1, <3>1 DEF JobsTyped, Void
    <3>3. job' = [job EXCEPT ![r] = new]
      BY <1>0, <2>3 DEF JobsTyped
    <3> HIDE DEF new
    <3> QED BY <1>3, <3>2, <3>3
  <2>4. CASE ReadOld(r) \/ Move(r)
    <3>1. PICK at \in {"old", "move", "write"} : job' = [job EXCEPT ![r].at = at]
      BY <2>4 DEF ReadOld, Move
    <3> QED BY <2>3, <2>4, <3>1 DEF ReadOld, Move, At
  <2>5. CASE WriteVoid(r) \/ TransferIn(r) \/ BreakDeadlock(r) \/ Fail(r)
    BY <1>4, <2>5 DEF WriteVoid, TransferIn, Unlocked, BreakDeadlock, Fail, Cancelled
  <2> QED BY <1>5, <2>1, <2>2, <2>4, <2>5, Zenon DEF Begins, Step
<1>6. CASE AtOnce
  BY <1>2, <1>6 DEF AtOnce, Create, Save, Edit, Receive, CountDown, Refund, Switch
<1> QED BY <1>2, <1>5, <1>6 DEF Next, vars

LEMMA ControlStep == BatchInv /\ [Next]_vars => ControlTyped'
<1> SUFFICES ASSUME BatchInv, [Next]_vars PROVE ControlTyped'
  OBVIOUS
<1>0. ControlTyped
  BY DEF BatchInv
<1>1. UNCHANGED served \/ Served
  BY DEF Next, AtOnce, Begins, Step, Create, Save, Edit, Receive, CountDown, Refund, Switch,
     BeginVoid, TransferOut, ReadOld, Move, WriteVoid, TransferIn, BreakDeadlock, Fail, Cancelled,
     vars
<1>2. UNCHANGED tracked \/ tracked' = ~tracked
  BY DEF Next, AtOnce, Begins, Step, Create, Save, Edit, Receive, CountDown, Refund, Switch,
     BeginVoid, TransferOut, ReadOld, Move, WriteVoid, TransferIn, BreakDeadlock, Fail, Cancelled,
     vars
<1>3. served' \in 0..MaxOps
  BY <1>0, <1>1, BatchConstants DEF Served, ControlTyped
<1>4. tracked' \in BOOLEAN
  BY <1>0, <1>2, Zenon DEF ControlTyped
<1>5. lock' \in [Branches -> Requests \cup {Nobody}]
  BY <1>0 DEF Next, AtOnce, Begins, Step, Create, Save, Edit, Receive, CountDown, Refund, Switch,
     BeginVoid, TransferOut, ReadOld, Move, WriteVoid, TransferIn, BreakDeadlock, Fail, Cancelled,
     Unlocked, vars, ControlTyped
<1> QED BY <1>0, <1>3, <1>4, <1>5, InvoicesStep, JobsStep DEF ControlTyped

LEMMA BatchInit == Init => BatchInv
<1> SUFFICES ASSUME Init PROVE BatchInv
  OBVIOUS
<1>1. /\ batch \in [Branches -> [Lot -> Nat]] /\ lots = batch /\ strayed = {}
      /\ consumed = [i \in Sales |-> Empty] /\ Empty \in [Lot -> Nat] /\ Empty = [n \in Lot |-> 0]
  BY BatchConstants DEF Init, Empty
<1>2. \A b \in Branches : Total(b) \in Int /\ level[b] = Total(b) /\ uncovered[b] = 0
  <2>1. ASSUME NEW b \in Branches PROVE Total(b) \in Int
    <3>1. batch[b] \in [Lot -> Int]
      BY <1>1
    <3> QED BY <3>1, LotSums DEF Total
  <2> QED BY <2>1 DEF Init, Total
<1>3. StockTyped
  BY <1>1, <1>2 DEF Init, StockTyped, Total
<1>4. InStep
  BY <1>2 DEF InStep
<1>5. LotsAccounted
  <2>1. SUFFICES ASSUME NEW b \in Branches, NEW n \in Lot
                 PROVE  batch[b][n] + SumFunction(Records(b, n)) = lots[b][n]
    BY Accounts
  <2>2. Records(b, n) \in [Sales -> Int] /\ \A i \in Sales : Records(b, n)[i] = 0
    BY <1>1 DEF Records
  <2>3. SumFunction(Records(b, n)) = 0
    BY <2>2, BatchConstants, SumOfZeros
  <2> QED BY <1>1, <2>3
<1>6. ControlTyped
  <2>1. InvoicesTyped
    BY DEF Init, InvoicesTyped, NoSale, Invoice, Status
  <2>2. JobsTyped
    BY DEF Init, JobsTyped, Idle, Void
  <2> QED BY <2>1, <2>2, BatchConstants DEF Init, ControlTyped
<1> QED BY <1>3, <1>4, <1>5, <1>6 DEF BatchInv, Agreement

LEMMA BatchesAlways == Spec => []BatchInv
<1>1. BatchInv /\ [Next]_vars => BatchInv'
  BY AgreementStep, ControlStep DEF BatchInv
<1> QED BY <1>1, BatchInit, PTL DEF Spec

\* Every value has its type; in particular no lot gives more than it has, and no more leaves
\* a lot than ever entered it.
THEOREM Typing == Spec => []TypeOK
<1>1. BatchInv => TypeOK
  <2> SUFFICES ASSUME BatchInv PROVE TypeOK
    OBVIOUS
  <2>1. StockTyped /\ LotsAccounted /\ ControlTyped
    BY DEF BatchInv, Agreement
  <2>2. \A b \in Branches, n \in Lot : lots[b][n] \in Nat
    BY <2>1, Accounts, RecordsType DEF StockTyped
  <2>3. lots \in [Branches -> [Lot -> Nat]]
    BY <2>1, <2>2 DEF StockTyped
  <2> QED BY <2>1, <2>3 DEF StockTyped, ControlTyped, InvoicesTyped, JobsTyped, TypeOK
<1> QED BY <1>1, BatchesAlways, PTL

\* In every interleaving the batches of a branch add up to its total and what was sold beyond
\* them, unless one of the operations named by `strayed` moved the one without the other.
THEOREM BatchesInStep == Spec => []InStep
<1>1. BatchInv => InStep
  BY DEF BatchInv, Agreement
<1> QED BY <1>1, BatchesAlways, PTL

\* However many voids race on a sale, and whatever is saved and edited meanwhile, each lot
\* and the records of what was drawn from it account for all that entered it.
THEOREM EveryLotAccounted == Spec => []LotsAccounted
<1>1. BatchInv => LotsAccounted
  BY DEF BatchInv, Agreement
<1> QED BY <1>1, BatchesAlways, PTL

LEMMA EarliestStep == BatchInv /\ [Next]_vars => [EarliestDrawn]_vars
<1> SUFFICES ASSUME BatchInv, [Next]_vars, NEW b \in Branches, NEW m \in Lot, NEW n \in Lot,
                    m < n, batch'[b][n] < batch[b][n]
             PROVE  batch'[b][m] = 0
  BY DEF EarliestDrawn
<1>0. StockTyped /\ ControlTyped /\ Quantities \subseteq Nat
  BY BatchConstants DEF BatchInv, Agreement
<1>1. ASSUME NEW c \in Branches, NEW qty \in Nat, batch' = [batch EXCEPT ![c] = Drawn(c, qty)]
      PROVE  batch'[b][m] = 0
  <2>1. c = b /\ batch'[b] = Drawn(b, qty)
    BY <1>0, <1>1 DEF StockTyped
  <2>2. \A k \in Lot : Drawn(b, qty)[k] < batch[b][k] => \A j \in 1..(k - 1) : Drawn(b, qty)[j] = 0
    BY <1>0, Withdrawn
  <2>3. m \in 1..(n - 1)
    BY DEF Lot
  <2> QED BY <2>1, <2>2, <2>3
<1>2. ASSUME NEW c \in Branches, NEW more \in [Lot -> Nat],
             batch' = [batch EXCEPT ![c] = [k \in Lot |-> @[k] + more[k]]]
      PROVE  FALSE
  BY <1>0, <1>2 DEF StockTyped
<1>3. batch' # batch
  BY <1>0 DEF StockTyped
<1>4. ASSUME NEW i \in Sales, NEW qty, NEW edition, PutBack(i, qty, edition) PROVE FALSE
  <2>1. PICK back \in [Lot -> Nat] :
          back = IF tracked /\ edition = invoice[i].edition THEN consumed[i] ELSE Empty
    BY <1>0 DEF StockTyped, Empty
  <2>2. batch' = [batch EXCEPT ![Home[i]] = [k \in Lot |-> @[k] + back[k]]] /\ Home[i] \in Branches
    BY <1>4, <2>1, BatchConstants DEF PutBack
  <2> QED BY <1>2, <2>2
<1>5. ASSUME NEW c \in Branches, NEW k \in Lot, NEW qty \in Nat, Enter(c, k, qty) PROVE FALSE
  <2>1. batch' = [batch EXCEPT ![c][k] = @ + qty]
    BY <1>3, <1>5 DEF Enter
  <2> QED BY <1>0, <2>1 DEF StockTyped
<1>6. \/ \E i \in Sales, st \in {"DRAFT", "POSTED", "VOID"} : Save(i, st)
      \/ \E c \in Branches, k \in Lot, qty \in Quantities : Receive(c, k, qty) \/ Refund(c, qty)
      \/ \E c \in Branches, qty \in Quantities : CountDown(c, qty)
      \/ \E r \in Requests : Move(r)
  BY <1>3, BatchConstants DEF Next, AtOnce, Begins, Step, Create, Edit, Switch, BeginVoid,
     TransferOut, ReadOld, WriteVoid, TransferIn, BreakDeadlock, Fail, Cancelled, vars, stockVars, Lot
<1>7. ASSUME NEW i \in Sales, NEW st \in {"DRAFT", "POSTED", "VOID"}, Save(i, st)
      PROVE  batch'[b][m] = 0
  <2>1. TakeOut(i)
    BY <1>3, <1>4, <1>7 DEF Save, stockVars
  <2>2. invoice[i].qty \in Nat /\ Home[i] \in Branches
    BY <1>0, LineQuantity, BatchConstants
  <2>3. batch' = [batch EXCEPT ![Home[i]] = Drawn(Home[i], invoice[i].qty)]
    BY <1>3, <2>1 DEF TakeOut
  <2> QED BY <1>1, <2>2, <2>3
<1>8. ASSUME NEW c \in Branches, NEW k \in Lot, NEW qty \in Quantities, Receive(c, k, qty) \/ Refund(c, qty)
      PROVE  FALSE
  <2>1. Undated \in Lot
    BY BatchConstants DEF Undated, Lot
  <2> QED BY <1>0, <1>5, <1>8, <2>1 DEF Receive, Refund
<1>9. ASSUME NEW c \in Branches, NEW qty \in Quantities, CountDown(c, qty) PROVE batch'[b][m] = 0
  <2>1. batch' = [batch EXCEPT ![c] = Drawn(c, qty)]
    BY <1>3, <1>9 DEF CountDown
  <2> QED BY <1>0, <1>1, <2>1
<1>10. ASSUME NEW r \in Requests, Move(r) PROVE FALSE
  <2>1. job[r].sale \in Sales
    BY <1>0, <1>10 DEF Move, At, ControlTyped, JobsTyped, Void, Moving, Idle
  <2> QED BY <1>4, <1>10, <2>1 DEF Move
<1> QED BY <1>6, <1>7, <1>8, <1>9, <1>10

\* Whatever draws from the batches takes those that expire first.
THEOREM ExpiringFirst == Spec => FirstExpiredFirstOut
<1> QED BY BatchesAlways, EarliestStep, PTL DEF Spec, FirstExpiredFirstOut

=============================================================================
