SPECIFICATION Spec
CONSTANTS
  w1 = w1  w2 = w2  u1 = u1  t1 = t1  t2 = t2  t3 = t3  a1 = a1  a2 = a2  b1 = b1  b2 = b2
  d1 = d1  d2 = d2  probe = probe  seeded = seeded  g1 = g1  g2 = g2  g3 = g3  p1 = p1
  m1 = m1  m2 = m2  s1 = s1  s2 = s2  c1 = c1  k1 = k1  k2 = k2  none = none
  Workers = {w1, w2}
  MaxBegun = 3
  Resources = {"users", "invoices", "favourites", "credit"}
  Quotas = {"users", "invoices"}
  Monthly = {"invoices"}
  Returning = {"users"}
  Uncounted = {"users", "credit"}
  Limit <- Limits1
  Sizes <- Sizes1
  Unlimited = none
  Profiles = {a1, a2}
  Presets = {b1, b2}
  Branches = {m1, m2}
  Tables = {"t1", "t2"}
  Users = {u1}
  Tokens = {t1, t2, t3}
  MaxFailures = 1
  Stores = {s1, s2}
  NoStore = none
  Suspended = {s2}
  Roles = {1, 4}
  Conversations = {c1}
  MaxHops = 2
  MaxCalls = 1
  Chunks = {k1, k2}
  Models = {"x", "y"}
  Doors = {d1, d2}
  Prober = probe
  Seeded = seeded
  Categories = {g1, g2, g3}
  TopLevel = none
  MaxDepth = 2
  Products = {p1}
  Words = {"x", "y"}
  Absent = none
SYMMETRY Interchangeable
CHECK_DEADLOCK FALSE
INVARIANTS OvershootIsRaced OneFlag LoggedOutStays EachSeesItsStore TurnsRecorded
  AuditHonest TreeSound IndexAgrees
