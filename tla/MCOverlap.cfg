SPECIFICATION MCSpec
CONSTANTS
  u1 = u1
  MaxLoads = 7
  Listings = {l1}
  Users = {u1}
  OwnerOf <- MCOwnerOf
  Contents = {c1, c2}
  Validated = {c1, c2}
  Promotable = {c1, c2}
  Gate = "pre"
  AutoApprove = FALSE
  RawWrites = {}
  Blank = Blank
  NoDoc = NoDoc
  Requests = {q1, q2}
  Overlap = TRUE
  Nothing = Nothing
SYMMETRY MCSymmetry
INVARIANT GateSurvivesOverlap
PROPERTY OnlyAStaleReadMisleadsTheIndex
CHECK_DEADLOCK FALSE
