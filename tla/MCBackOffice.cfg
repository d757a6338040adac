SPECIFICATION Spec
CONSTANTS
  w1 = w1  w2 = w2  f1 = f1  f2 = f2  f3 = f3  i1 = i1  v1 = v1  p1 = p1  s1 = s1  none = none
  Workers = {w1, w2}
  MaxBegun = 3
  Variants = {v1}
  RefundIds = {f1, f2, f3}
  Invoices = {i1}
  NoInvoice = none
  Carts <- UpToTwo
  TooOld = {}
  Baskets <- OneEach
  Purchases = {p1}
  Orders <- OneOrNone
  ServiceIds = {s1}
  Etas = {2}
  NoEta = none
  NotifyHours = 1
  LastHour = 1
SYMMETRY Interchangeable
CHECK_DEADLOCK FALSE
INVARIANTS RefundNumbersClashWhenBlind ReceivedOnce OwedForLines BilledOnce ToldOnce
PROPERTIES RefundedWithinSale
