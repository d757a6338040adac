SPECIFICATION Spec
CONSTANTS
  s1 = s1  s2 = s2  i1 = i1  i2 = i2  r1 = r1  r2 = r2  c1 = c1  c2 = c2
  Stores = {s1}
  Invoices = {i1}
  StoreOf <- ForTheFirst
  Requests = {r1}
  Runs = {c1}
  StartStatus <- AllPaying
  StartTrial <- FirstDay
  TrialDates = {2}
  DueDates = {0, 1}
  DueDays = 1
  GraceDays = 1
  LastDay = 3
  MaxBegun = 3
CHECK_DEADLOCK FALSE
PROPERTY TrialIsAFallback
