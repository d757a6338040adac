SPECIFICATION Spec
CONSTANTS
  i1 = i1  i2 = i2  v1 = v1  v2 = v2  r1 = r1  r2 = r2
  Invoices = {i1, i2}
  Variants = {v1, v2}
  Stocked = {v1, v2}
  Carts <- SplitCarts
  Drafts = {i1}
  StartCart <- SplitStart
  Opening <- OneOnHand
  Amounts <- OneEitherWay
  AllowNegative = FALSE
  Requests = {r1, r2}
  Nobody = Nobody
  MaxRequests = 3
  MaxEdits = 1
CHECK_DEADLOCK FALSE
PROPERTY NeverOversold
