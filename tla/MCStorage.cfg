SPECIFICATION FairSpec
CONSTANTS
  b1 = b1  b2 = b2  r1 = r1  r2 = r2
  Branches = {b1, b2}
  Opening <- FewOnHand
  AllowNegative = FALSE
  Quantities = {1, 2}
  Changes <- Losses
  Requests = {r1, r2}
  Nobody = Nobody
  MaxRequests = 4
CHECK_DEADLOCK FALSE
INVARIANTS TypeOK Conserved
PROPERTIES OldestFirst NeverParksWhatIsNotThere AsIfAtOnce EveryRequestEnds
