SPECIFICATION Spec
CONSTANTS
  b1 = b1  b2 = b2  s1 = s1  r1 = r1  r2 = r2
  Branches = {b1, b2}
  LastLot = 2
  Opening <- TwoLots
  Sales = {s1}
  Home <- AtB1
  Quantities = {1, 2}
  AllowNegative = FALSE
  Requests = {r1, r2}
  Nobody = Nobody
  MaxOps = 4
CHECK_DEADLOCK FALSE
PROPERTY TransferConserves
